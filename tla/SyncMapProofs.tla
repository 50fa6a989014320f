---------------------------- MODULE SyncMapProofs ----------------------------
(***************************************************************************)
(* xsync.Map is right for any number of goroutines, keys and values: its   *)
(* two maps keep to what map.go says of them, no Store panics, no value is *)
(* taken twice, and it is linearizable.                                    *)
(***************************************************************************)
EXTENDS SyncMapLin, FiniteSetTheorems, TLAPS

-----------------------------------------------------------------------------
(***************************************************************************)
(* The inductive invariant.                                                *)
(***************************************************************************)
\* The two maps.  An entry is in them under one key.
Maps ==
  /\ read = [m |-> read.m, amended |-> read.amended]
  /\ \A k \in DOMAIN read.m \cap DOMAIN Dirty : read.m[k] = Dirty[k]
  /\ \A j, k \in DOMAIN read.m : read.m[j] = read.m[k] => j = k
  /\ \A j, k \in DOMAIN Dirty : Dirty[j] = Dirty[k] => j = k
  /\ \A j \in DOMAIN read.m, k \in DOMAIN Dirty : read.m[j] = Dirty[k] => j = k

\* The goroutine that fills a new dirty map.
Copying == mu # None /\ pc[mu] \in {"copy", "expunge"}

\* What the dirty map is while it is there.
Stages ==
  /\ dirty # Nil <=> read.amended \/ Copying
  /\ Copying => ~read.amended
  /\ ~read.amended => DOMAIN Dirty \subseteq DOMAIN read.m
  /\ Pending # {} => Copying
  /\ \A k \in Pending : k \in DOMAIN read.m /\ ~InDirty(k) /\ p[read.m[k]] # Expunged
  /\ cur # None <=> mu # None /\ pc[mu] = "expunge"
  /\ cur \notin todo
  /\ EntryStates
  /\ \A k \in DOMAIN Dirty : p[Dirty[k]] # Expunged
  /\ \A k \in DOMAIN Dirty \ DOMAIN read.m : Live(p[Dirty[k]])

\* Where a goroutine is in its call.
Phases ==
  /\ \A g \in Goroutine : pc[g] \in {"copy", "expunge", "put"} => mu = g
  /\ mu # None => pc[mu] \in {"copy", "expunge", "put"}
  /\ \A g \in Goroutine : pc[g] = "idle" <=> call[g] = None
  /\ \A g \in Goroutine : pc[g] = "load" => call[g].op = "Load"
  /\ \A g \in Goroutine :
       pc[g] \in {"try", "cas", "copy", "expunge", "put"} => call[g].op = "Store"
  /\ \A g \in Goroutine : pc[g] \in {"take", "clear"} => call[g].op = "Delete"
  /\ \A g \in Goroutine :
       e[g] # None <=> pc[g] \in {"load", "try", "cas", "take", "clear", "put"}
  /\ \A g \in Goroutine : pc[g] = "clear" => Live(old[g])
  /\ \A g \in Goroutine : pc[g] \in {"copy", "expunge"} => call[g].key \notin DOMAIN read.m
  /\ NoNilMapWrite

\* Some map points to the entry n.
InMaps(n) == n \in Range(read.m) \cup Range(Dirty)

\* Whose entry is whose.
Owners ==
  /\ \A g \in Goroutine, k \in DOMAIN read.m : read.m[k] = e[g] => k = call[g].key
  /\ \A g \in Goroutine, k \in DOMAIN Dirty : Dirty[k] = e[g] => k = call[g].key
  /\ \A g \in Goroutine, k \in DOMAIN Dirty \ DOMAIN read.m : Dirty[k] = e[g] => pc[g] = "load"
  /\ \A g \in Goroutine : pc[g] = "put" =>
       call[g].key \in DOMAIN read.m /\ e[g] = read.m[call[g].key] /\ p[e[g]] # Expunged
  /\ \A g \in Goroutine, n \in Entry : e[g] = n /\ ~InMaps(n) /\ p[n] # Expunged =>
       /\ pc[g] \notin {"try", "cas", "put"}
       /\ \A h \in Goroutine :
            e[h] = n /\ pc[g] \in {"take", "clear"} /\ pc[h] \in {"take", "clear"} => h = g
       /\ Live(p[n]) => \E h \in Goroutine : e[h] = n /\ pc[h] \in {"take", "clear"}

\* The inductive invariant: WellFormed and EntriesRight speak of the maps, which
\* only stay right because every goroutine is where its entry and mu allow.
IInv == TypeOK /\ Maps /\ Stages /\ Phases /\ Owners

\* What a pending call has seen.
SeenRight ==
  /\ seen \in [Goroutine -> SUBSET (Value \cup {Nil})]
  /\ \A g \in Goroutine : call[g] = None => seen[g] = {}
  /\ \A g \in Goroutine : call[g] # None => Contents[call[g].key] \in seen[g]
  /\ \A g \in Goroutine, n \in Entry : e[g] = n /\ ~InMaps(n) =>
       Nil \in seen[g] /\ (Live(p[n]) => p[n] \in seen[g])

-----------------------------------------------------------------------------
(***************************************************************************)
(* The maps and the heap.                                                  *)
(***************************************************************************)
\* The distinct constants, and what is in the maps.
LEMMA Basics ==
  ASSUME TypeOK
  PROVE  /\ Nil \notin Value \cup Entry /\ Expunged \notin Value /\ Nil # Expunged
         /\ None \notin Goroutine \cup Entry \cup Key \cup Call
         /\ \A k \in DOMAIN read.m : k \in Key /\ read.m[k] \in Entry
         /\ \A k \in DOMAIN Dirty : k \in Key /\ Dirty[k] \in Entry
         /\ dirty = Nil => DOMAIN Dirty = {}
         /\ dirty # Nil => Dirty = dirty
         /\ \A n : InMaps(n) <=> \/ \E k \in DOMAIN read.m : read.m[k] = n
                                 \/ \E k \in DOMAIN Dirty : Dirty[k] = n
         /\ \A n : InMaps(n) => n \in Entry
<1>1. dirty = Nil => DOMAIN Dirty = {}
  BY DEF Dirty, NoKeys
<1>2. dirty # Nil => Dirty = dirty
  BY DEF Dirty
<1>3. \A k \in DOMAIN read.m : k \in Key /\ read.m[k] \in Entry
  BY DEF TypeOK, Range
<1>4. \A k \in DOMAIN Dirty : k \in Key /\ Dirty[k] \in Entry
  BY <1>1, <1>2 DEF TypeOK, Range
<1>5. \A n : InMaps(n) <=> \/ \E k \in DOMAIN read.m : read.m[k] = n
                           \/ \E k \in DOMAIN Dirty : Dirty[k] = n
  BY DEF InMaps, Range
<1> QED
  BY <1>1, <1>2, <1>3, <1>4, <1>5, SyncMapAssumption, CallAssumption

\* A map with one key more is a map.
LEMMA WithIs ==
  ASSUME NEW m, DOMAIN m \subseteq Key, Range(m) \subseteq Entry, NEW x \in Key, NEW n \in Entry
  PROVE  /\ DOMAIN With(m, x, n) = DOMAIN m \cup {x} /\ With(m, x, n)[x] = n
         /\ \A j \in DOMAIN m : j # x => With(m, x, n)[j] = m[j]
         /\ DOMAIN With(m, x, n) \subseteq Key /\ Range(With(m, x, n)) \subseteq Entry
         /\ With(m, x, n) # Nil
<1>1. /\ DOMAIN With(m, x, n) = DOMAIN m \cup {x} /\ With(m, x, n)[x] = n
      /\ \A j \in DOMAIN m : j # x => With(m, x, n)[j] = m[j]
  BY DEF With
<1>2. \A j \in DOMAIN m : m[j] \in Entry
  BY DEF Range
<1>3. With(m, x, n) \in [DOMAIN m \cup {x} -> Entry] /\ DOMAIN m \cup {x} \in SUBSET Key
  BY <1>2 DEF With
<1> QED
  BY <1>1, <1>3, SyncMapAssumption DEF Range

\* So is one with a key less.
LEMMA WithoutIs ==
  ASSUME NEW m, DOMAIN m \subseteq Key, Range(m) \subseteq Entry, NEW x
  PROVE  /\ DOMAIN Without(m, x) = DOMAIN m \ {x}
         /\ \A j \in DOMAIN m : j # x => Without(m, x)[j] = m[j]
         /\ DOMAIN Without(m, x) \subseteq Key /\ Range(Without(m, x)) \subseteq Entry
         /\ Without(m, x) # Nil
<1>1. /\ DOMAIN Without(m, x) = DOMAIN m \ {x}
      /\ \A j \in DOMAIN m : j # x => Without(m, x)[j] = m[j]
  BY DEF Without, Restrict
<1>2. \A j \in DOMAIN m : m[j] \in Entry
  BY DEF Range
<1>3. Without(m, x) \in [DOMAIN m \ {x} -> Entry] /\ DOMAIN m \ {x} \in SUBSET Key
  BY <1>2 DEF Without, Restrict
<1> QED
  BY <1>1, <1>3, SyncMapAssumption DEF Range

\* The empty map is a map, and is not nil.
LEMMA NoKeysIs == DOMAIN NoKeys = {} /\ Range(NoKeys) = {} /\ NoKeys # Nil
<1>1. NoKeys \in [{} -> Entry] /\ {} \in SUBSET Key
  BY DEF NoKeys
<1> QED
  BY <1>1, SyncMapAssumption DEF NoKeys, Range

\* There is a cell for a new entry, which nobody points to.
LEMMA FreshIs ==
  ASSUME TypeOK, Maps
  PROVE  /\ Fresh \in Entry /\ ~InMaps(Fresh)
         /\ \A g \in Goroutine : e[g] # Fresh
<1> DEFINE A == {n \in Entry : InMaps(n)}
           B == {n \in Entry : \E g \in Goroutine : e[g] = n}
<1>1. IsFiniteSet(A) /\ IsFiniteSet(B) /\ Cardinality(A) \in Nat /\ Cardinality(B) \in Nat
  BY SyncMapAssumption, FS_Subset, FS_CardinalityType
<1>2. Cardinality(A) <= Cardinality(Key)
  <2> DEFINE f == [n \in A |-> CHOOSE k \in Key : \/ k \in DOMAIN read.m /\ read.m[k] = n
                                                  \/ k \in DOMAIN Dirty /\ Dirty[k] = n]
  <2>1. ASSUME NEW n \in A
        PROVE  /\ f[n] \in Key
               /\ \/ f[n] \in DOMAIN read.m /\ read.m[f[n]] = n
                  \/ f[n] \in DOMAIN Dirty /\ Dirty[f[n]] = n
    <3>1. \E k \in Key : \/ k \in DOMAIN read.m /\ read.m[k] = n
                         \/ k \in DOMAIN Dirty /\ Dirty[k] = n
      BY Basics
    <3> QED
      BY <3>1
  <2>2. f \in [A -> Key]
    BY <2>1
  <2> HIDE DEF f
  <2>3. \A x, y \in A : f[x] = f[y] => x = y
    BY <2>1 DEF Maps
  <2>4. IsFiniteSet(Key) /\ Cardinality(Key) \in Nat
    BY SyncMapAssumption, FS_CardinalityType
  <2> QED
    BY <1>1, <2>2, <2>3, <2>4, FS_PigeonHole
<1>3. Cardinality(B) <= Cardinality(Goroutine)
  <2> DEFINE f == [n \in B |-> CHOOSE g \in Goroutine : e[g] = n]
  <2>1. \A n \in B : f[n] \in Goroutine /\ e[f[n]] = n
    OBVIOUS
  <2>2. f \in [B -> Goroutine]
    BY <2>1
  <2> HIDE DEF f
  <2>3. \A x, y \in B : f[x] = f[y] => x = y
    BY <2>1
  <2>4. IsFiniteSet(Goroutine) /\ Cardinality(Goroutine) \in Nat
    BY SyncMapAssumption, FS_CardinalityType
  <2> QED
    BY <1>1, <2>2, <2>3, <2>4, FS_PigeonHole
<1>4. Cardinality(A \cup B) <= Cardinality(Key) + Cardinality(Goroutine)
  <2>1. IsFiniteSet(A \cap B) /\ Cardinality(A \cap B) \in Nat
    BY <1>1, FS_Subset, FS_CardinalityType
  <2>2. Cardinality(Key) \in Nat /\ Cardinality(Goroutine) \in Nat
    BY SyncMapAssumption, FS_CardinalityType
  <2>3. Cardinality(A \cup B) = Cardinality(A) + Cardinality(B) - Cardinality(A \cap B)
    BY <1>1, FS_Union
  <2> HIDE DEF A, B
  <2> QED
    BY <1>1, <1>2, <1>3, <2>1, <2>2, <2>3
<1>5. PICK n \in Entry : n \notin A \cup B
  <2>1. A \cup B # Entry
    <3> HIDE DEF A, B
    <3>1. Cardinality(Entry) \in Nat /\ Cardinality(Key) \in Nat /\ Cardinality(Goroutine) \in Nat
          /\ IsFiniteSet(A \cup B) /\ Cardinality(A \cup B) \in Nat
      BY <1>1, SyncMapAssumption, FS_CardinalityType, FS_Union
    <3>2. Cardinality(Entry) > Cardinality(Key) + Cardinality(Goroutine)
      BY SyncMapAssumption
    <3>3. Cardinality(A \cup B) # Cardinality(Entry)
      BY <1>4, <3>1, <3>2
    <3> QED
      BY <3>3
  <2> QED
    BY <2>1
<1>6. DOMAIN e = Goroutine
  BY DEF TypeOK
<1>7. n \notin Reachable
  BY <1>5, <1>6 DEF Reachable, InMaps, Range
<1>8. Fresh \in Entry /\ Fresh \notin Reachable
  BY <1>7 DEF Fresh
<1> QED
  BY <1>6, <1>8 DEF Reachable, InMaps, Range

\* What a collected heap keeps.
LEMMA HeapIs ==
  ASSUME NEW h, Heap(h), e' \in [Goroutine -> Entry \cup {None}]
  PROVE  /\ \A n \in Entry : InMaps(n)' \/ (\E g \in Goroutine : e'[g] = n) => p'[n] = h[n]
         /\ \A n \in Entry : p'[n] \in {h[n], Nil}
         /\ h \in [Entry -> Value \cup {Nil, Expunged}] => p' \in [Entry -> Value \cup {Nil, Expunged}]
<1>1. ASSUME NEW n \in Entry, InMaps(n)' \/ (\E g \in Goroutine : e'[g] = n)
      PROVE  n \in Reachable'
  BY <1>1 DEF Reachable, InMaps, Range
<1> QED
  BY <1>1 DEF Heap

\* The maps are the same.
LEMMA SameMaps ==
  ASSUME UNCHANGED maps
  PROVE  /\ UNCHANGED <<read, dirty, misses, todo, cur>> /\ Dirty' = Dirty /\ Pending' = Pending
         /\ \A n : InMaps(n)' <=> InMaps(n)
         /\ \A k : (InDirty(k)' <=> InDirty(k)) /\ (InRead(k)' <=> InRead(k))
<1> QED
  BY DEF maps, Dirty, Pending, InMaps, InDirty, InRead

-----------------------------------------------------------------------------
(***************************************************************************)
(* Steps that leave the maps alone.                                        *)
(***************************************************************************)
\* g goes on at l with the call c and the entry n.
Moves(g, l, c, n) ==
  /\ pc' = [pc EXCEPT ![g] = l] /\ call' = [call EXCEPT ![g] = c] /\ e' = [e EXCEPT ![g] = n]
  /\ \A h \in Goroutine : h # g => old'[h] = old[h]

\* It may be there, with that call and that entry.
FitsAt(g, l, c, n) ==
  /\ l \in PC /\ l \notin {"panic", "copy", "expunge", "put"}
  /\ l = "idle" <=> c = None
  /\ l = "load" => c.op = "Load"
  /\ l \in {"try", "cas"} => c.op = "Store"
  /\ l \in {"take", "clear"} => c.op = "Delete"
  /\ n # None <=> l \in {"load", "try", "cas", "take", "clear"}
  /\ l = "clear" => Live(old'[g])

\* The maps stay; g keeps its entry, leaves it, or takes one of read; the entry
\* x, its own, has the value v afterwards and the others what they had.
Local(g, l, c, n, x, v) ==
  /\ UNCHANGED maps /\ Moves(g, l, c, n) /\ FitsAt(g, l, c, n)
  /\ \/ mu' = mu /\ pc[g] \notin {"copy", "expunge", "put"}
     \/ mu' = None /\ pc[g] = "put"
  /\ \A y \in Entry : InMaps(y) \/ (\E h \in Goroutine : e'[h] = y) =>
       p'[y] = IF y = x THEN v ELSE p[y]
  /\ x # None => /\ x = e[g] /\ x \in Entry /\ p[x] # Expunged
                 /\ \/ pc[g] = "clear" /\ v = Nil
                    \/ pc[g] \in {"cas", "put"} /\ v \in Value
  /\ \/ n = None
     \/ /\ n = e[g] /\ c = call[g] /\ pc[g] \in {"take", "clear", "try", "cas"}
        /\ l \in {"take", "clear"} <=> pc[g] \in {"take", "clear"}
     \/ pc[g] \in {"lookup", "lock"} /\ c = call[g] /\ c.key \in DOMAIN read.m /\ n = read.m[c.key]
  /\ pc[g] \in {"take", "clear"} /\ n = None => x = e[g] \/ ~Live(p[e[g]])

\* Such a step leaves every goroutine where its call may be.
LEMMA LocalPhases ==
  ASSUME IInv, NEW g \in Goroutine, NEW l, NEW c, NEW n, NEW x, NEW v, Local(g, l, c, n, x, v)
  PROVE  /\ Maps' /\ Phases'
         /\ (Copying' <=> Copying)
         /\ (mu' # None /\ pc'[mu'] = "expunge") <=> (mu # None /\ pc[mu] = "expunge")
<1>1. UNCHANGED <<read, dirty, misses, todo, cur>> /\ Dirty' = Dirty
  BY SameMaps DEF Local
<1>2. TypeOK /\ Maps /\ Phases
  BY DEF IInv
<1>3. Maps'
  BY <1>1, <1>2 DEF Maps
<1>4. /\ pc'[g] = l /\ call'[g] = c /\ e'[g] = n
      /\ \A h \in Goroutine : h # g =>
           pc'[h] = pc[h] /\ call'[h] = call[h] /\ e'[h] = e[h] /\ old'[h] = old[h]
  BY <1>2 DEF Local, Moves, TypeOK
<1>5. None \notin Goroutine /\ mu \in Goroutine \cup {None}
  BY <1>2, Basics DEF TypeOK
<1>6. /\ FitsAt(g, l, c, n)
      /\ \/ mu' = mu /\ pc[g] \notin {"copy", "expunge", "put"}
         \/ mu' = None /\ pc[g] = "put"
  BY DEF Local
<1>7. mu' = mu => mu # g
  BY <1>2, <1>5, <1>6 DEF Phases
<1>8. mu' # mu => mu = g
  BY <1>2, <1>6 DEF Phases
<1>9. Phases'
  BY <1>1, <1>2, <1>4, <1>5, <1>6, <1>7, <1>8 DEF Phases, FitsAt, NoNilMapWrite, PC
<1>10. /\ Copying' <=> Copying
       /\ (mu' # None /\ pc'[mu'] = "expunge") <=> (mu # None /\ pc[mu] = "expunge")
  BY <1>4, <1>5, <1>6, <1>7, <1>8 DEF Copying
<1> QED
  BY <1>3, <1>9, <1>10

\* It leaves dirty and the states of the entries as they have to be: a value
\* or nil goes only to an entry that is not expunged.
LEMMA LocalStages ==
  ASSUME IInv, NEW g \in Goroutine, NEW l, NEW c, NEW n, NEW x, NEW v, Local(g, l, c, n, x, v)
  PROVE  Stages'
<1>1. /\ UNCHANGED <<read, dirty, misses, todo, cur>> /\ Dirty' = Dirty /\ Pending' = Pending
      /\ \A k : (InDirty(k)' <=> InDirty(k)) /\ (InRead(k)' <=> InRead(k))
  BY SameMaps DEF Local
<1>2. TypeOK /\ Maps /\ Phases /\ Stages /\ Owners
  BY DEF IInv
<1>3. /\ Copying' <=> Copying
      /\ (mu' # None /\ pc'[mu'] = "expunge") <=> (mu # None /\ pc[mu] = "expunge")
  BY LocalPhases
<1>4. /\ \A k \in DOMAIN read.m : read.m[k] \in Entry /\ InMaps(read.m[k])
      /\ \A k \in DOMAIN Dirty : Dirty[k] \in Entry /\ InMaps(Dirty[k])
      /\ Expunged \notin Value /\ Nil # Expunged /\ None \notin Entry
  BY <1>2, Basics
<1>5. /\ \A y \in Entry : InMaps(y) => p'[y] = IF y = x THEN v ELSE p[y]
      /\ x # None => /\ x = e[g] /\ x \in Entry /\ p[x] # Expunged
                     /\ \/ pc[g] = "clear" /\ v = Nil
                        \/ pc[g] \in {"cas", "put"} /\ v \in Value
  BY DEF Local
<1>6. \A y \in Entry : InMaps(y) => (p'[y] = Expunged <=> p[y] = Expunged)
  BY <1>4, <1>5
<1>7. EntryStates'
  BY <1>1, <1>2, <1>4, <1>6 DEF Stages, EntryStates
<1>8. \A k \in DOMAIN Dirty : p'[Dirty[k]] # Expunged
  BY <1>2, <1>4, <1>6 DEF Stages
<1>9. \A k \in DOMAIN Dirty \ DOMAIN read.m : Live(p'[Dirty[k]])
  <2> SUFFICES ASSUME NEW k \in DOMAIN Dirty \ DOMAIN read.m PROVE Live(p'[Dirty[k]])
    OBVIOUS
  <2>1. Dirty[k] # x
    BY <1>2, <1>4, <1>5 DEF Owners
  <2> QED
    BY <1>2, <1>4, <1>5, <2>1 DEF Stages
<1>10. \A k \in Pending' : k \in DOMAIN read'.m /\ ~InDirty(k)' /\ p'[read'.m[k]] # Expunged
  BY <1>1, <1>2, <1>4, <1>6 DEF Stages
<1> QED
  BY <1>1, <1>2, <1>3, <1>7, <1>8, <1>9, <1>10 DEF Stages

\* It leaves every entry that is out of the maps to its one Delete.
LEMMA LocalOwners ==
  ASSUME IInv, NEW g \in Goroutine, NEW l, NEW c, NEW n, NEW x, NEW v, Local(g, l, c, n, x, v)
  PROVE  Owners'
<1>1. /\ UNCHANGED <<read, dirty, misses, todo, cur>> /\ Dirty' = Dirty
      /\ \A y : InMaps(y)' <=> InMaps(y)
  BY SameMaps DEF Local
<1>2. TypeOK /\ Maps /\ Phases /\ Stages /\ Owners
  BY DEF IInv
<1>3. /\ \A k \in DOMAIN read.m : read.m[k] \in Entry /\ InMaps(read.m[k])
      /\ \A k \in DOMAIN Dirty : Dirty[k] \in Entry /\ InMaps(Dirty[k])
      /\ Expunged \notin Value /\ Nil # Expunged /\ None \notin Entry
  BY <1>2, Basics
<1>4. /\ \A y \in Entry : InMaps(y) \/ (\E h \in Goroutine : e'[h] = y) =>
           p'[y] = IF y = x THEN v ELSE p[y]
      /\ x # None => /\ x = e[g] /\ x \in Entry /\ p[x] # Expunged
                     /\ \/ pc[g] = "clear" /\ v = Nil
                        \/ pc[g] \in {"cas", "put"} /\ v \in Value
      /\ pc[g] \in {"take", "clear"} /\ n = None => x = e[g] \/ ~Live(p[e[g]])
  BY DEF Local
<1>5. \/ n = None
      \/ /\ n = e[g] /\ c = call[g] /\ pc[g] \in {"take", "clear", "try", "cas"}
         /\ l \in {"take", "clear"} <=> pc[g] \in {"take", "clear"}
      \/ pc[g] \in {"lookup", "lock"} /\ c = call[g] /\ c.key \in DOMAIN read.m /\ n = read.m[c.key]
  BY DEF Local
<1>6. /\ pc'[g] = l /\ call'[g] = c /\ e'[g] = n
      /\ \A h \in Goroutine : h # g => pc'[h] = pc[h] /\ call'[h] = call[h] /\ e'[h] = e[h]
      /\ l \notin {"put", "copy", "expunge"} /\ (n # None <=> l \in {"load", "try", "cas", "take", "clear"})
      /\ l \in {"try", "cas"} => c.op = "Store"
      /\ l \in {"take", "clear"} => c.op = "Delete"
  BY <1>2 DEF Local, Moves, TypeOK, FitsAt
<1>7. \A h \in Goroutine, k \in DOMAIN read.m : read.m[k] = e'[h] => k = call'[h].key
  BY <1>2, <1>3, <1>5, <1>6 DEF Owners, Maps
<1>8. \A h \in Goroutine, k \in DOMAIN Dirty : Dirty[k] = e'[h] => k = call'[h].key
  BY <1>2, <1>3, <1>5, <1>6 DEF Owners, Maps
<1>9. \A h \in Goroutine, k \in DOMAIN Dirty \ DOMAIN read.m : Dirty[k] = e'[h] => pc'[h] = "load"
  BY <1>2, <1>3, <1>5, <1>6 DEF Owners, Maps
<1>10. \A y \in Entry : InMaps(y) => (p'[y] = Expunged <=> p[y] = Expunged)
  BY <1>3, <1>4
<1>11. \A h \in Goroutine : pc'[h] = "put" =>
         call'[h].key \in DOMAIN read.m /\ e'[h] = read.m[call'[h].key] /\ p'[e'[h]] # Expunged
  BY <1>2, <1>3, <1>6, <1>10 DEF Owners
<1>12. ASSUME NEW h \in Goroutine, NEW y \in Entry, e'[h] = y, ~InMaps(y), p'[y] # Expunged
       PROVE  /\ pc'[h] \notin {"try", "cas", "put"}
              /\ \A i \in Goroutine :
                   e'[i] = y /\ pc'[h] \in {"take", "clear"} /\ pc'[i] \in {"take", "clear"} => i = h
              /\ Live(p'[y]) => \E i \in Goroutine : e'[i] = y /\ pc'[i] \in {"take", "clear"}
  <2>1. p[y] # Expunged /\ p'[y] = IF y = x THEN v ELSE p[y]
    BY <1>3, <1>4, <1>12
  <2>2. ASSUME NEW i \in Goroutine, e'[i] = y
        PROVE  /\ e[i] = y
               /\ i # g => pc'[i] = pc[i]
               /\ pc'[i] \in {"take", "clear"} => pc[i] \in {"take", "clear"}
               /\ i = g => pc[g] \in {"take", "clear", "try", "cas"}
                           /\ (l \in {"take", "clear"} <=> pc[g] \in {"take", "clear"})
    BY <1>3, <1>5, <1>6, <1>12, <2>2
  <2>3. \A i \in Goroutine : e[i] = y =>
         /\ pc[i] \notin {"try", "cas", "put"}
         /\ \A j \in Goroutine :
              e[j] = y /\ pc[i] \in {"take", "clear"} /\ pc[j] \in {"take", "clear"} => j = i
         /\ Live(p[y]) => \E j \in Goroutine : e[j] = y /\ pc[j] \in {"take", "clear"}
    BY <1>2, <1>12, <2>1 DEF Owners
  <2>4. pc'[h] \notin {"try", "cas", "put"}
    <3>1. CASE h = g
      BY <1>6, <1>12, <2>2, <2>3, <3>1
    <3>2. CASE h # g
      BY <1>6, <1>12, <2>2, <2>3, <3>2
    <3> QED
      BY <3>1, <3>2
  <2>5. \A i \in Goroutine :
          e'[i] = y /\ pc'[h] \in {"take", "clear"} /\ pc'[i] \in {"take", "clear"} => i = h
    BY <1>12, <2>2, <2>3
  <2>6. ASSUME Live(p'[y])
        PROVE  \E i \in Goroutine : e'[i] = y /\ pc'[i] \in {"take", "clear"}
    <3>1. y # x
      BY <1>3, <1>4, <1>12, <2>1, <2>3, <2>6 DEF Live
    <3>2. PICK i \in Goroutine : e[i] = y /\ pc[i] \in {"take", "clear"}
      BY <1>12, <2>1, <2>2, <2>3, <2>6, <3>1
    <3>3. CASE i # g
      BY <1>6, <3>2, <3>3
    <3>4. CASE i = g
      BY <1>4, <1>5, <1>6, <2>1, <2>6, <3>1, <3>2, <3>4
    <3> QED
      BY <3>3, <3>4
  <2> QED
    BY <2>4, <2>5, <2>6
<1> QED
  BY <1>1, <1>7, <1>8, <1>9, <1>11, <1>12 DEF Owners

-----------------------------------------------------------------------------
(***************************************************************************)
(* What the map holds.                                                     *)
(***************************************************************************)
Val(v) == IF Live(v) THEN v ELSE Nil

\* Key k has the entry n.
Has(k, n) == (k \in DOMAIN read.m /\ read.m[k] = n) \/ (k \in DOMAIN Dirty /\ Dirty[k] = n)

\* The contents of a key is the value of its entry.
ContentsRight ==
  /\ Contents \in [Key -> Value \cup {Nil}]
  /\ \A k \in Key, n \in Entry : Has(k, n) => Contents[k] = Val(p[n])
  /\ \A k \in Key : ~InRead(k) /\ ~InDirty(k) => Contents[k] = Nil
  /\ \A n \in Entry : InMaps(n) <=> \E k \in Key : Has(k, n)
  /\ \A k \in Key : InRead(k) => read.m[k] \in Entry /\ Has(k, read.m[k])
  /\ \A k \in Key : InDirty(k) => Dirty[k] \in Entry /\ Has(k, Dirty[k])

\* So it is in every state the maps can be in.
LEMMA ContentsAt == TypeOK /\ Maps => ContentsRight
<1> SUFFICES ASSUME TypeOK, Maps PROVE ContentsRight
  OBVIOUS
<1>1. /\ \A k \in DOMAIN read.m : k \in Key /\ read.m[k] \in Entry
      /\ \A k \in DOMAIN Dirty : k \in Key /\ Dirty[k] \in Entry
      /\ \A n : InMaps(n) <=> \/ \E k \in DOMAIN read.m : read.m[k] = n
                              \/ \E k \in DOMAIN Dirty : Dirty[k] = n
  BY Basics
<1>2. \A k \in Key : Contents[k] = Val(IF k \in DOMAIN read.m THEN p[read.m[k]]
                                       ELSE IF k \in DOMAIN Dirty THEN p[Dirty[k]] ELSE Nil)
  BY DEF Contents, InRead, InDirty, Val
<1>3. \A n \in Entry : Val(p[n]) \in Value \cup {Nil}
  BY DEF Val, Live, TypeOK
<1>4. Val(Nil) = Nil
  BY DEF Val
<1>5. DOMAIN Contents = Key /\ Contents = [k \in Key |-> Contents[k]]
  BY DEF Contents
<1>6. \A k \in Key : Contents[k] \in Value \cup {Nil}
  BY <1>1, <1>2, <1>3, <1>4
<1>7. \A k \in Key, n \in Entry : Has(k, n) => Contents[k] = Val(p[n])
  BY <1>2 DEF Has, Maps
<1>8. \A k \in Key : ~InRead(k) /\ ~InDirty(k) => Contents[k] = Nil
  BY <1>2, <1>4 DEF InRead, InDirty
<1>9. \A n \in Entry : InMaps(n) <=> \E k \in Key : Has(k, n)
  <2> SUFFICES ASSUME NEW n \in Entry PROVE InMaps(n) <=> \E k \in Key : Has(k, n)
    OBVIOUS
  <2>1. InMaps(n) => \E k \in Key : Has(k, n)
    BY <1>1 DEF Has
  <2>2. ASSUME NEW k \in Key, Has(k, n)
        PROVE  InMaps(n)
    BY <1>1, <2>2 DEF Has
  <2> QED
    BY <2>1, <2>2
<1>10. /\ \A k \in Key : InRead(k) => read.m[k] \in Entry /\ Has(k, read.m[k])
       /\ \A k \in Key : InDirty(k) => Dirty[k] \in Entry /\ Has(k, Dirty[k])
  BY <1>1 DEF InRead, InDirty, Has
<1> QED
  BY <1>5, <1>6, <1>7, <1>8, <1>9, <1>10 DEF ContentsRight

\* Both maps give a key the same contents if it has the same entry, with the
\* same value, in both; the contents of k0 alone may change, to v.
LEMMA ContentsBecome ==
  ASSUME TypeOK, Maps, TypeOK', Maps', NEW k0 \in Key, NEW v \in Value \cup {Nil},
         \A k \in Key, n \in Entry : k # k0 /\ Has(k, n) =>
            \/ Val(p[n]) = Val(p'[n]) /\ Has(k, n)'
            \/ Val(p[n]) = Nil /\ ~InRead(k)' /\ ~InDirty(k)',
         \A k \in Key : k # k0 /\ ~InRead(k) /\ ~InDirty(k) => ~InRead(k)' /\ ~InDirty(k)',
         \/ \E n \in Entry : Has(k0, n)' /\ Val(p'[n]) = v
         \/ ~InRead(k0)' /\ ~InDirty(k0)' /\ v = Nil
  PROVE  Contents' = [Contents EXCEPT ![k0] = v]
<1>1. /\ Contents \in [Key -> Value \cup {Nil}]
      /\ \A k \in Key, n \in Entry : Has(k, n) => Contents[k] = Val(p[n])
      /\ \A k \in Key : ~InRead(k) /\ ~InDirty(k) => Contents[k] = Nil
  BY ContentsAt DEF ContentsRight
<1>2. /\ Contents' \in [Key -> Value \cup {Nil}]
      /\ \A k \in Key, n \in Entry : Has(k, n)' => Contents'[k] = Val(p[n])'
      /\ \A k \in Key : ~InRead(k)' /\ ~InDirty(k)' => Contents'[k] = Nil
  <2>1. ContentsRight'
    BY ContentsAt, PTL
  <2> QED
    BY <2>1 DEF ContentsRight
<1>3. Contents'[k0] = v
  BY <1>2
<1>4. ASSUME NEW k \in Key, k # k0
      PROVE  Contents'[k] = Contents[k]
  <2>1. CASE ~InRead(k) /\ ~InDirty(k)
    BY <1>1, <1>2, <1>4, <2>1
  <2>2. CASE \E n \in Entry : Has(k, n)
    BY <1>1, <1>2, <1>4, <2>2
  <2>3. InRead(k) \/ InDirty(k) => \E n \in Entry : Has(k, n)
    BY ContentsAt DEF ContentsRight
  <2> QED
    BY <2>1, <2>2, <2>3
<1> QED
  BY <1>1, <1>2, <1>3, <1>4

\* Every key has its entry still, with the same value, or had none and has
\* none that is Live.
LEMMA ContentsStay ==
  ASSUME TypeOK, Maps, TypeOK', Maps',
         \A k \in Key, n \in Entry : Has(k, n) =>
            \/ Val(p[n]) = Val(p'[n]) /\ Has(k, n)'
            \/ Val(p[n]) = Nil /\ ~InRead(k)' /\ ~InDirty(k)',
         \A k \in Key : ~InRead(k) /\ ~InDirty(k) => ~InRead(k)' /\ ~InDirty(k)'
  PROVE  Contents' = Contents
<1>1. /\ Contents \in [Key -> Value \cup {Nil}]
      /\ \A k \in Key, n \in Entry : Has(k, n) => Contents[k] = Val(p[n])
      /\ \A k \in Key : ~InRead(k) /\ ~InDirty(k) => Contents[k] = Nil
  BY ContentsAt DEF ContentsRight
<1>2. /\ Contents' \in [Key -> Value \cup {Nil}]
      /\ \A k \in Key, n \in Entry : Has(k, n)' => Contents'[k] = Val(p[n])'
      /\ \A k \in Key : ~InRead(k)' /\ ~InDirty(k)' => Contents'[k] = Nil
  <2>1. ContentsRight'
    BY ContentsAt, PTL
  <2> QED
    BY <2>1 DEF ContentsRight
<1>3. ASSUME NEW k \in Key
      PROVE  Contents'[k] = Contents[k]
  <2>1. CASE ~InRead(k) /\ ~InDirty(k)
    BY <1>1, <1>2, <2>1
  <2>2. CASE \E n \in Entry : Has(k, n)
    BY <1>1, <1>2, <2>2
  <2>3. InRead(k) \/ InDirty(k) => \E n \in Entry : Has(k, n)
    BY ContentsAt DEF ContentsRight
  <2> QED
    BY <2>1, <2>2, <2>3
<1> QED
  BY <1>1, <1>2, <1>3

-----------------------------------------------------------------------------
(***************************************************************************)
(* The steps of AtomicMap.                                                 *)
(***************************************************************************)
\* Every step notes what the keys of the pending calls hold.
SeenStep ==
  seen' = [g \in Goroutine |->
             IF call'[g] = None THEN {}
             ELSE (IF call[g] = None THEN {} ELSE seen[g]) \cup {Contents'[call'[g].key]}]

\* A step of AtomicMap, or none.
Step == [Atomic!Next]_<<Contents, call, Taken, seen, out>>

\* A call.
LEMMA MapsToBegin ==
  ASSUME NEW g \in Goroutine, NEW c \in Call, call[g] = None, SeenStep,
         call' = [call EXCEPT ![g] = c], out' = [out EXCEPT ![g] = Nil],
         Contents' = Contents, Taken' = Taken
  PROVE  Step
<1>1. Atomic!Begin(g, c)
  BY DEF Atomic!Begin
<1>2. c \in Atomic!Call
  BY DEF Atomic!Call, Call
<1> QED
  BY <1>1, <1>2, Zenon DEF Step, Atomic!Next, Atomic!Witness, SeenStep

\* A Store takes effect and returns.
LEMMA MapsToWrite ==
  ASSUME NEW g \in Goroutine, call[g] # None, call[g].op = "Store", SeenStep,
         Contents' = [Contents EXCEPT ![call[g].key] = call[g].val],
         call' = [call EXCEPT ![g] = None], Taken' = Taken, out' = out
  PROVE  Step
<1>1. Atomic!Write(g)
  BY DEF Atomic!Write
<1> QED
  BY <1>1, Zenon DEF Step, Atomic!Next, Atomic!Witness, SeenStep

\* A Delete takes the value, to return it now or later.
LEMMA MapsToTake ==
  ASSUME NEW g \in Goroutine, call[g] # None, call[g].op = "Delete", SeenStep,
         Taken[g] = Nil, Contents[call[g].key] # Nil,
         Contents' = [Contents EXCEPT ![call[g].key] = Nil],
         \/ /\ out' = [out EXCEPT ![g] = Contents[call[g].key]]
            /\ call' = [call EXCEPT ![g] = None]
            /\ Taken' = Taken
         \/ /\ Taken' = [Taken EXCEPT ![g] = Contents[call[g].key]]
            /\ call' = call /\ out' = out
  PROVE  Step
<1>1. Atomic!Take(g)
  BY DEF Atomic!Take
<1> QED
  BY <1>1, Zenon DEF Step, Atomic!Next, Atomic!Witness, SeenStep

\* A Delete returns the value that it took before.
LEMMA MapsToReturnTaken ==
  ASSUME NEW g \in Goroutine, Taken[g] # Nil, SeenStep,
         out' = [out EXCEPT ![g] = Taken[g]], Taken' = [Taken EXCEPT ![g] = Nil],
         call' = [call EXCEPT ![g] = None], Contents' = Contents
  PROVE  Step
<1>1. Atomic!ReturnTaken(g)
  BY DEF Atomic!ReturnTaken
<1> QED
  BY <1>1, Zenon DEF Step, Atomic!Next, Atomic!Witness, SeenStep

\* A Load, or a Delete that found nothing, returns what its key had.
LEMMA MapsToReturnRead ==
  ASSUME NEW g \in Goroutine, NEW v \in Value \cup {Nil}, SeenStep,
         call[g] # None, Taken[g] = Nil, v \in seen[g],
         call[g].op = "Load" \/ (call[g].op = "Delete" /\ v = Nil),
         out' = [out EXCEPT ![g] = v], call' = [call EXCEPT ![g] = None],
         Contents' = Contents, Taken' = Taken
  PROVE  Step
<1>1. Atomic!ReturnRead(g, v)
  BY DEF Atomic!ReturnRead
<1> QED
  BY <1>1, Zenon DEF Step, Atomic!Next, Atomic!Witness, SeenStep

\* A step that no call takes effect in is none of AtomicMap's.
LEMMA MapsToNothing ==
  ASSUME SeenRight, SeenStep, TypeOK,
         Contents' = Contents, Taken' = Taken, call' = call, out' = out
  PROVE  Step
<1>1. seen' = seen
  <2>1. \A g \in Goroutine : seen'[g] = seen[g]
    <3> SUFFICES ASSUME NEW g \in Goroutine PROVE seen'[g] = seen[g]
      OBVIOUS
    <3>1. CASE call[g] = None
      BY <3>1 DEF SeenRight, SeenStep
    <3>2. CASE call[g] # None
      <4>1. seen'[g] = seen[g] \cup {Contents[call[g].key]} /\ Contents[call[g].key] \in seen[g]
        BY <3>2 DEF SeenRight, SeenStep
      <4> QED
        BY <4>1
    <3> QED
      BY <3>1, <3>2
  <2>2. seen = [g \in Goroutine |-> seen[g]] /\ seen' = [g \in Goroutine |-> seen'[g]]
    BY DEF SeenRight, SeenStep
  <2> QED
    BY <2>1, <2>2
<1> QED
  BY <1>1 DEF Step

\* A step that leaves the maps alone keeps the invariant.
LEMMA LocalKeeps ==
  ASSUME IInv, NEW g \in Goroutine, NEW l, NEW c \in Call \cup {None}, NEW n \in Entry \cup {None},
         NEW x, NEW v, Local(g, l, c, n, x, v),
         p' \in [Entry -> Value \cup {Nil, Expunged}],
         old' \in [Goroutine -> Value \cup {Nil}], out' \in [Goroutine -> Value \cup {Nil}]
  PROVE  IInv'
<1>1. UNCHANGED <<read, dirty, misses, todo, cur>> /\ TypeOK /\ mu' \in {mu, None}
  BY SameMaps DEF Local, IInv
<1>2. /\ pc' = [pc EXCEPT ![g] = l] /\ call' = [call EXCEPT ![g] = c]
      /\ e' = [e EXCEPT ![g] = n] /\ l \in PC
  BY DEF Local, Moves, FitsAt
<1>3. TypeOK'
  BY <1>1, <1>2 DEF TypeOK
<1> QED
  BY <1>3, LocalPhases, LocalStages, LocalOwners DEF IInv

\* What Return and Result do.
LEMMA ReturnIs ==
  ASSUME TypeOK, NEW g \in Goroutine, Return(g)
  PROVE  /\ Moves(g, "idle", None, None) /\ FitsAt(g, "idle", None, None)
         /\ old' \in [Goroutine -> Value \cup {Nil}]
         /\ e' \in [Goroutine -> Entry \cup {None}]
<1> QED
  BY SyncMapAssumption DEF TypeOK, Return, Goto, Moves, FitsAt, PC

-----------------------------------------------------------------------------
(***************************************************************************)
(* What a step that leaves the maps alone is of AtomicMap.                 *)
(***************************************************************************)
\* The step is one of AtomicMap's, or none, and what calls have seen is right
\* after it.
Linear == SeenRight /\ SeenStep => SeenRight' /\ Step

\* What a Delete has taken is in an entry that no map has.
LEMMA TakenIs ==
  ASSUME NEW g \in Goroutine
  PROVE  Taken[g] = IF pc[g] \in {"take", "clear"} /\ ~InMaps(e[g]) THEN Val(p[e[g]]) ELSE Nil
<1> QED
  BY DEF Taken, InMaps, Val

\* The same after a step.
LEMMA TakenAfter ==
  ASSUME NEW g \in Goroutine
  PROVE  /\ pc'[g] \in {"take", "clear"} /\ ~InMaps(e[g])' => Taken'[g] = Val(p'[e'[g]])
         /\ ~(pc'[g] \in {"take", "clear"} /\ ~InMaps(e[g])') => Taken'[g] = Nil
         /\ \A n : e'[g] = n => (InMaps(n)' <=> InMaps(e[g])')
<1> QED
  BY DEF Taken, InMaps, Val

\* What calls have seen is right again if an entry that is in no map was so
\* before, with the same value, or was taken out of the maps by the step.
LEMMA SeenKeeps ==
  ASSUME TypeOK', Maps', SeenRight, SeenStep,
         \A h \in Goroutine, n \in Entry : e'[h] = n /\ ~InMaps(n)' =>
           /\ call[h] # None /\ call'[h] = call[h]
           /\ Nil \in seen[h] \/ Contents'[call[h].key] = Nil
           /\ Live(p'[n]) => p'[n] \in seen[h]
  PROVE  SeenRight'
<1>1. Contents' \in [Key -> Value \cup {Nil}]
  <2>1. ContentsRight'
    BY ContentsAt, PTL
  <2> QED
    BY <2>1 DEF ContentsRight
<1>2. /\ \A g \in Goroutine : call'[g] = None \/ call'[g].key \in Key
      /\ e' \in [Goroutine -> Entry \cup {None}]
  BY DEF TypeOK, Call
<1>3. seen' \in [Goroutine -> SUBSET (Value \cup {Nil})]
  BY <1>1, <1>2 DEF SeenRight, SeenStep
<1>4. /\ \A g \in Goroutine : call'[g] = None => seen'[g] = {}
      /\ \A g \in Goroutine : call'[g] # None => Contents'[call'[g].key] \in seen'[g]
      /\ \A g \in Goroutine : call[g] # None /\ call'[g] # None => \A v \in seen[g] : v \in seen'[g]
  BY DEF SeenStep
<1>5. ASSUME NEW g \in Goroutine, NEW n \in Entry, e'[g] = n, ~InMaps(n)'
      PROVE  Nil \in seen'[g] /\ (Live(p'[n]) => p'[n] \in seen'[g])
  <2>1. /\ call[g] # None /\ call'[g] = call[g]
        /\ Nil \in seen[g] \/ Contents'[call[g].key] = Nil
        /\ Live(p'[n]) => p'[n] \in seen[g]
    BY <1>5
  <2> QED
    BY <1>4, <2>1
<1> QED
  BY <1>3, <1>4, <1>5 DEF SeenRight

\* Such a step changes what the map holds by writing to an entry of the maps,
\* and what Deletes have taken by a return.
LEMMA LocalMapped ==
  ASSUME IInv, IInv', NEW g \in Goroutine, NEW l, NEW c, NEW n, NEW x, NEW v, n # None => x = None,
         Local(g, l, c, n, x, v)
  PROVE  /\ x = None \/ ~InMaps(x) => Contents' = Contents
         /\ x # None /\ InMaps(x) => Contents' = [Contents EXCEPT ![call[g].key] = v]
         /\ Taken' = [Taken EXCEPT ![g] = IF n = None THEN Nil ELSE @]
         /\ pc[g] \notin {"take", "clear"} => Taken[g] = Nil /\ Taken' = Taken
         /\ call' = [call EXCEPT ![g] = c]
<1>1. /\ TypeOK /\ Maps /\ Stages /\ Phases /\ Owners /\ TypeOK' /\ Maps'
      /\ None \notin Entry /\ Nil \notin Value /\ Expunged # Nil /\ Expunged \notin Value
  BY Basics DEF IInv
<1>2. /\ read' = read /\ dirty' = dirty /\ Dirty' = Dirty
      /\ \A y : InMaps(y)' <=> InMaps(y)
      /\ \A k : (InDirty(k)' <=> InDirty(k)) /\ (InRead(k)' <=> InRead(k))
  BY SameMaps DEF Local
<1>3. \A k, y : Has(k, y)' <=> Has(k, y)
  BY <1>2 DEF Has
<1>4. /\ \A y \in Entry : InMaps(y) \/ (\E h \in Goroutine : e'[h] = y) =>
           p'[y] = IF y = x THEN v ELSE p[y]
      /\ x # None => /\ x = e[g] /\ x \in Entry /\ p[x] # Expunged
                     /\ \/ pc[g] = "clear" /\ v = Nil
                        \/ pc[g] \in {"cas", "put"} /\ v \in Value
      /\ \/ n = None
         \/ /\ n = e[g] /\ c = call[g] /\ pc[g] \in {"take", "clear", "try", "cas"}
            /\ l \in {"take", "clear"} <=> pc[g] \in {"take", "clear"}
         \/ /\ pc[g] \in {"lookup", "lock"} /\ c = call[g] /\ c.key \in DOMAIN read.m
            /\ n = read.m[c.key]
  BY DEF Local
<1>5. /\ pc'[g] = l /\ e'[g] = n /\ call' = [call EXCEPT ![g] = c]
      /\ \A h \in Goroutine : h # g => pc'[h] = pc[h] /\ e'[h] = e[h]
      /\ (n # None <=> l \in {"load", "try", "cas", "take", "clear"})
  BY <1>1 DEF Local, Moves, FitsAt, TypeOK
<1>6. \A k \in Key, y \in Entry : Has(k, y) => InMaps(y)
  BY <1>1, ContentsAt DEF ContentsRight
<1>7. ASSUME x = None \/ ~InMaps(x)
      PROVE  Contents' = Contents
  <2>1. \A k \in Key, y \in Entry : Has(k, y) => Val(p[y]) = Val(p'[y]) /\ Has(k, y)'
    BY <1>1, <1>3, <1>4, <1>6, <1>7
  <2> QED
    BY <1>1, <1>2, <2>1, ContentsStay
<1>8. ASSUME x # None, InMaps(x)
      PROVE  Contents' = [Contents EXCEPT ![call[g].key] = v]
  <2>1. \A k \in Key : Has(k, x) => k = call[g].key
    BY <1>1, <1>4, <1>8 DEF Owners, Has
  <2>2. PICK k0 \in Key : Has(k0, x) /\ k0 = call[g].key
    BY <1>1, <1>4, <1>8, <2>1, ContentsAt DEF ContentsRight
  <2>3. x \in Entry /\ Has(k0, x)' /\ Val(p'[x]) = v /\ v \in Value \cup {Nil}
    BY <1>1, <1>3, <1>4, <1>8, <2>2 DEF Val, Live
  <2>4. \A k \in Key, y \in Entry : k # k0 /\ Has(k, y) => Val(p[y]) = Val(p'[y]) /\ Has(k, y)'
    BY <1>1, <1>3, <1>4, <1>6, <2>1, <2>2
  <2>5. Contents' = [Contents EXCEPT ![k0] = v]
    BY <1>1, <1>2, <2>3, <2>4, ContentsBecome
  <2> QED
    BY <2>2, <2>5
<1>9. ASSUME NEW h \in Goroutine, h # g
      PROVE  Taken'[h] = Taken[h]
  <2>1. pc'[h] = pc[h] /\ e'[h] = e[h] /\ (InMaps(e[h])' <=> InMaps(e[h]))
    BY <1>2, <1>5, <1>9
  <2>2. CASE pc[h] \in {"take", "clear"} /\ ~InMaps(e[h])
    <3>1. e[h] \in Entry
      BY <1>1, <2>2 DEF Phases, TypeOK
    <3>2. x # e[h]
      BY <1>1, <1>4, <1>9, <2>2, <3>1 DEF Owners
    <3>3. p'[e[h]] = p[e[h]]
      BY <1>4, <2>1, <3>1, <3>2
    <3> QED
      BY <2>1, <3>3, TakenIs, TakenAfter
  <2>3. CASE ~(pc[h] \in {"take", "clear"} /\ ~InMaps(e[h]))
    BY <2>1, <2>3, TakenIs, TakenAfter
  <2> QED
    BY <2>2, <2>3
<1>10. Taken'[g] = IF n = None THEN Nil ELSE Taken[g]
  <2>1. CASE n = None
    BY <1>5, <2>1, TakenAfter
  <2>2. CASE n # None /\ n = e[g] /\ (l \in {"take", "clear"} <=> pc[g] \in {"take", "clear"})
    <3>1. x = None /\ n \in Entry /\ p'[n] = p[n]
      BY <1>1, <1>4, <1>5, <2>2 DEF TypeOK
    <3>2. e'[g] = e[g] /\ (InMaps(e[g])' <=> InMaps(e[g]))
      BY <1>2, <1>5, <2>2
    <3> QED
      BY <1>5, <2>2, <3>1, <3>2, TakenIs, TakenAfter
  <2>3. CASE n # None /\ pc[g] \in {"lookup", "lock"} /\ c.key \in DOMAIN read.m /\ n = read.m[c.key]
    <3>1. InMaps(n)
      BY <1>1, <2>3, Basics
    <3>2. Taken[g] = Nil
      BY <2>3, TakenIs
    <3> QED
      BY <1>2, <1>5, <2>3, <3>1, <3>2, TakenAfter
  <2> QED
    BY <1>4, <2>1, <2>2, <2>3
<1>11. Taken' = [Taken EXCEPT ![g] = IF n = None THEN Nil ELSE @]
  <2>1. /\ DOMAIN Taken = Goroutine /\ Taken = [h \in Goroutine |-> Taken[h]]
        /\ Taken' = [h \in Goroutine |-> Taken'[h]]
    BY DEF Taken
  <2> QED
    BY <1>9, <1>10, <2>1
<1>12. pc[g] \notin {"take", "clear"} => Taken[g] = Nil /\ Taken' = Taken
  <2>1. /\ DOMAIN Taken = Goroutine /\ Taken = [h \in Goroutine |-> Taken[h]]
        /\ Taken' = [h \in Goroutine |-> Taken'[h]]
    BY DEF Taken
  <2>2. pc[g] \notin {"take", "clear"} => Taken[g] = Nil
    BY TakenIs
  <2> QED
    BY <1>9, <1>10, <2>1, <2>2
<1> QED
  BY <1>5, <1>7, <1>8, <1>11, <1>12

\* What calls have seen stays right.
LEMMA LocalSeen ==
  ASSUME IInv, IInv', NEW g \in Goroutine, NEW l, NEW c, NEW n, NEW x, NEW v, n # None => x = None,
         Local(g, l, c, n, x, v), SeenRight, SeenStep
  PROVE  SeenRight'
<1>1. /\ TypeOK /\ Maps /\ Stages /\ Phases /\ Owners /\ TypeOK' /\ Maps'
      /\ None \notin Entry /\ Nil \notin Value /\ Expunged # Nil /\ Expunged \notin Value
  BY Basics DEF IInv
<1>2. \A y : InMaps(y)' <=> InMaps(y)
  BY SameMaps DEF Local
<1>3. /\ \A y \in Entry : InMaps(y) \/ (\E h \in Goroutine : e'[h] = y) =>
           p'[y] = IF y = x THEN v ELSE p[y]
      /\ x # None => /\ x = e[g] /\ x \in Entry /\ p[x] # Expunged
                     /\ \/ pc[g] = "clear" /\ v = Nil
                        \/ pc[g] \in {"cas", "put"} /\ v \in Value
      /\ \/ n = None
         \/ n = e[g] /\ c = call[g]
         \/ c.key \in DOMAIN read.m /\ n = read.m[c.key]
  BY DEF Local
<1>4. /\ pc'[g] = l /\ e'[g] = n /\ call'[g] = c
      /\ \A h \in Goroutine : h # g => pc'[h] = pc[h] /\ e'[h] = e[h] /\ call'[h] = call[h]
  BY <1>1 DEF Local, Moves, TypeOK
<1>5. ASSUME NEW h \in Goroutine, NEW y \in Entry, e'[h] = y, ~InMaps(y)'
      PROVE  /\ call[h] # None /\ call'[h] = call[h]
             /\ Nil \in seen[h] \/ Contents'[call[h].key] = Nil
             /\ Live(p'[y]) => p'[y] \in seen[h]
  <2>1. ~InMaps(y) /\ e[h] = y /\ call'[h] = call[h]
    BY <1>1, <1>2, <1>3, <1>4, <1>5, Basics
  <2>2. call[h] # None
    BY <1>1, <2>1 DEF Phases
  <2>3. Nil \in seen[h] /\ (Live(p[y]) => p[y] \in seen[h])
    BY <2>1 DEF SeenRight
  <2>4. Live(p'[y]) => p'[y] = p[y]
    BY <1>1, <1>3, <1>5, <2>1 DEF Owners, Live
  <2> QED
    BY <2>1, <2>2, <2>3, <2>4
<1> QED
  BY <1>1, <1>5, SeenKeeps

\* A call goes on, and no caller can tell.
LEMMA LocalQuiet ==
  ASSUME IInv, IInv', NEW g \in Goroutine, NEW l, NEW n, NEW v,
         Local(g, l, call[g], n, None, v), out' = out,
         n # None \/ pc[g] \notin {"take", "clear"}
  PROVE  Linear
<1> SUFFICES ASSUME SeenRight, SeenStep PROVE SeenRight' /\ Step
  BY DEF Linear
<1> DEFINE c == call[g]
<1>1. PICK d : d = call[g]
  OBVIOUS
<1>2. Local(g, l, d, n, None, v)
  BY <1>1
<1>3. SeenRight'
  BY <1>2, LocalSeen
<1>4. /\ Contents' = Contents /\ call' = [call EXCEPT ![g] = d]
      /\ Taken' = [Taken EXCEPT ![g] = IF n = None THEN Nil ELSE @]
      /\ pc[g] \notin {"take", "clear"} => Taken' = Taken
  BY <1>2, LocalMapped
<1>5. TypeOK /\ call' = call
  BY <1>1, <1>4 DEF IInv, TypeOK
<1>6. Taken' = Taken
  <2>1. Taken = [h \in Goroutine |-> Taken[h]]
    BY DEF Taken
  <2>2. n # None => Taken' = Taken
    BY <1>4, <2>1
  <2> QED
    BY <1>4, <2>2
<1> QED
  BY <1>3, <1>4, <1>5, <1>6, MapsToNothing

\* A call begins.
LEMMA LocalBegins ==
  ASSUME IInv, IInv', NEW g \in Goroutine, NEW c \in Call, NEW l, NEW v, call[g] = None,
         Local(g, l, c, None, None, v), out' = [out EXCEPT ![g] = Nil]
  PROVE  Linear
<1>1. /\ Contents' = Contents /\ call' = [call EXCEPT ![g] = c]
      /\ pc[g] \notin {"take", "clear"} => Taken' = Taken
  BY LocalMapped
<1>2. pc[g] = "idle"
  BY DEF IInv, Phases
<1>3. Taken' = Taken
  BY <1>1, <1>2
<1> QED
  BY <1>1, <1>3, LocalSeen, MapsToBegin DEF Linear

\* A call returns w, which its key had.
LEMMA LocalReturns ==
  ASSUME IInv, IInv', NEW g \in Goroutine, NEW w \in Value \cup {Nil}, NEW v, pc[g] # "idle",
         Local(g, "idle", None, None, None, v), out' = [out EXCEPT ![g] = w],
         call[g].op = "Load" \/ (call[g].op = "Delete" /\ w = Nil),
         Taken[g] = Nil, SeenRight => w \in seen[g]
  PROVE  Linear
<1> SUFFICES ASSUME SeenRight, SeenStep PROVE SeenRight' /\ Step
  BY DEF Linear
<1>1. /\ Contents' = Contents /\ call' = [call EXCEPT ![g] = None]
      /\ Taken' = [Taken EXCEPT ![g] = Nil]
  BY LocalMapped
<1>2. Taken' = Taken
  <2>1. Taken = [h \in Goroutine |-> Taken[h]]
    BY DEF Taken
  <2> QED
    BY <1>1, <2>1
<1>3. call[g] # None
  BY DEF IInv, Phases
<1> QED
  BY <1>1, <1>2, <1>3, LocalSeen, MapsToReturnRead

\* A Store takes effect on an entry of the maps.
LEMMA LocalWrites ==
  ASSUME IInv, IInv', NEW g \in Goroutine, pc[g] \in {"cas", "put"},
         Local(g, "idle", None, None, e[g], call[g].val), out' = out
  PROVE  Linear
<1> SUFFICES ASSUME SeenRight, SeenStep PROVE SeenRight' /\ Step
  BY DEF Linear
<1>1. PICK x, v : x = e[g] /\ v = call[g].val
  OBVIOUS
<1>2. Local(g, "idle", None, None, x, v)
  BY <1>1
<1>3. SeenRight'
  BY <1>2, LocalSeen
<1>4. TypeOK /\ Phases /\ Owners /\ None \notin Entry
  BY Basics DEF IInv
<1>5. x \in Entry /\ x # None /\ call[g].op = "Store" /\ call[g] # None
  BY <1>1, <1>4 DEF Phases, TypeOK
<1>6. p[x] # Expunged
  BY <1>2, <1>5 DEF Local
<1>7. InMaps(x)
  BY <1>1, <1>4, <1>5, <1>6 DEF Owners
<1>8. /\ Contents' = [Contents EXCEPT ![call[g].key] = v]
      /\ Taken' = Taken /\ call' = [call EXCEPT ![g] = None]
  BY <1>2, <1>5, <1>7, LocalMapped
<1> QED
  BY <1>1, <1>3, <1>5, <1>8, MapsToWrite

\* A Delete takes the value of an entry of the maps, or returns with the one
\* of an entry that is out of them.
LEMMA LocalTakes ==
  ASSUME IInv, IInv', NEW g \in Goroutine, pc[g] = "clear", p[e[g]] = old[g],
         Local(g, "idle", None, None, e[g], Nil), out' = [out EXCEPT ![g] = old[g]]
  PROVE  Linear
<1> SUFFICES ASSUME SeenRight, SeenStep PROVE SeenRight' /\ Step
  BY DEF Linear
<1>1. PICK x : x = e[g]
  OBVIOUS
<1>2. Local(g, "idle", None, None, x, Nil)
  BY <1>1
<1>3. SeenRight'
  BY <1>2, LocalSeen
<1>4. TypeOK /\ Maps /\ Phases /\ Owners /\ None \notin Entry
  BY Basics DEF IInv
<1>5. /\ x \in Entry /\ x # None /\ call[g].op = "Delete" /\ call[g] # None /\ Live(old[g])
      /\ call[g] \in Call
  BY <1>1, <1>4 DEF Phases, TypeOK
<1>6. Val(p[x]) = old[g] /\ old[g] # Nil /\ call[g].key \in Key
  BY <1>1, <1>5 DEF Val, Live, Call
<1>7. /\ Taken' = [Taken EXCEPT ![g] = Nil] /\ call' = [call EXCEPT ![g] = None]
      /\ InMaps(x) => Contents' = [Contents EXCEPT ![call[g].key] = Nil]
      /\ ~InMaps(x) => Contents' = Contents
  BY <1>2, <1>5, LocalMapped
<1>8. CASE InMaps(x)
  <2>1. Taken[g] = Nil
    BY <1>1, <1>8, TakenIs
  <2>2. Taken' = Taken
    <3>1. Taken = [h \in Goroutine |-> Taken[h]]
      BY DEF Taken
    <3> QED
      BY <1>7, <2>1, <3>1
  <2>3. Contents[call[g].key] = old[g]
    <3>1. PICK k \in Key : Has(k, x)
      BY <1>4, <1>5, <1>8, ContentsAt DEF ContentsRight
    <3>2. k = call[g].key
      BY <1>1, <1>4, <3>1 DEF Owners, Has
    <3>3. Contents[k] = Val(p[x])
      BY <1>4, <1>5, <3>1, ContentsAt DEF ContentsRight
    <3> QED
      BY <1>6, <3>2, <3>3
  <2> QED
    BY <1>3, <1>5, <1>6, <1>7, <1>8, <2>1, <2>2, <2>3, MapsToTake
<1>9. CASE ~InMaps(x)
  <2>1. Taken[g] = old[g]
    BY <1>1, <1>6, <1>9, TakenIs
  <2> QED
    BY <1>3, <1>6, <1>7, <1>9, <2>1, MapsToReturnTaken
<1> QED
  BY <1>8, <1>9

\* What a call reads in its entry, its key had.
LEMMA ReadsSeen ==
  ASSUME IInv, SeenRight, NEW g \in Goroutine, e[g] # None
  PROVE  Val(p[e[g]]) \in seen[g]
<1>1. TypeOK /\ Maps /\ Phases /\ Owners
  BY DEF IInv
<1>2. PICK n \in Entry : n = e[g]
  BY <1>1 DEF TypeOK
<1>3. call[g] # None
  BY <1>1 DEF Phases
<1>4. CASE InMaps(n)
  <2>1. PICK k \in Key : Has(k, n)
    BY <1>1, <1>4, ContentsAt DEF ContentsRight
  <2>2. k = call[g].key
    BY <1>1, <1>2, <2>1 DEF Owners, Has
  <2>3. Contents[k] = Val(p[n])
    BY <1>1, <2>1, ContentsAt DEF ContentsRight
  <2> QED
    BY <1>2, <1>3, <2>2, <2>3 DEF SeenRight
<1>5. CASE ~InMaps(n)
  BY <1>2, <1>5 DEF SeenRight, Val
<1> QED
  BY <1>4, <1>5

\* The key of a pending call that neither map has holds nothing.
LEMMA AbsentSeen ==
  ASSUME IInv, SeenRight, NEW g \in Goroutine, call[g] # None,
         ~InRead(call[g].key), ~InDirty(call[g].key)
  PROVE  Nil \in seen[g]
<1>1. TypeOK /\ Maps
  BY DEF IInv
<1>2. call[g] \in Call
  BY <1>1 DEF TypeOK
<1>3. call[g].key \in Key
  BY <1>2 DEF Call
<1>4. Contents[call[g].key] = Nil
  BY <1>1, <1>3, ContentsAt DEF ContentsRight
<1> QED
  BY <1>4 DEF SeenRight
\* The steps outside mu, and the call itself.
LEMMA BeginKeeps ==
  ASSUME IInv, NEW g \in Goroutine, NEW c \in Call, Begin(g, c)
  PROVE  IInv' /\ Linear
<1>1. TypeOK /\ Phases /\ pc[g] = "idle" /\ e[g] = None /\ c # None
  BY Basics DEF IInv, Begin, Phases
<1>2. Local(g, "lookup", c, None, None, Nil)
  BY <1>1, Basics DEF Local, Moves, FitsAt, Begin, Goto, PC, TypeOK
<1>3. /\ p' \in [Entry -> Value \cup {Nil, Expunged}]
      /\ old' \in [Goroutine -> Value \cup {Nil}] /\ out' \in [Goroutine -> Value \cup {Nil}]
  BY <1>1 DEF Begin, TypeOK
<1>4. IInv'
  BY <1>2, <1>3, LocalKeeps
<1>5. call[g] = None /\ out' = [out EXCEPT ![g] = Nil]
  BY <1>1 DEF Phases, Begin
<1> QED
  BY <1>2, <1>4, <1>5, LocalBegins

\* The lookup in read.
LEMMA LookupKeeps ==
  ASSUME IInv, NEW g \in Goroutine, Lookup(g) \/ StoreLookup(g)
  PROVE  IInv' /\ Linear
<1> DEFINE k == call[g].key
<1>1. /\ TypeOK /\ Phases /\ pc[g] = "lookup" /\ e[g] = None /\ call[g] # None
      /\ call[g] \in Call /\ k \in Key /\ UNCHANGED <<p, maps, mu>>
  <2>1. TypeOK /\ Phases /\ pc[g] = "lookup" /\ UNCHANGED <<p, maps, mu>>
    BY DEF IInv, Lookup, StoreLookup
  <2>2. e[g] = None /\ call[g] # None
    BY <2>1 DEF Phases
  <2> QED
    BY <2>1, <2>2 DEF TypeOK, Call
<1>2. p' \in [Entry -> Value \cup {Nil, Expunged}]
  BY <1>1 DEF TypeOK
<1>3. call[g].op \in {"Load", "Store", "Delete"}
  BY <1>1 DEF Call
<1>4. CASE InRead(k)
  <2>1. PICK l \in {"load", "take", "try"} :
          /\ Found(g, read.m[k], l) /\ UNCHANGED <<call, old, out>>
          /\ l = "load" => call[g].op = "Load"
          /\ l = "try" => call[g].op = "Store"
          /\ l = "take" => call[g].op = "Delete"
    BY <1>3, <1>4 DEF Lookup, StoreLookup
  <2>2. read.m[k] \in Entry /\ None \notin Entry /\ k \in DOMAIN read.m
    BY <1>1, <1>4, Basics DEF InRead
  <2>3. Moves(g, l, call[g], read.m[k]) /\ FitsAt(g, l, call[g], read.m[k])
    BY <1>1, <2>1, <2>2 DEF Moves, FitsAt, Found, Goto, PC, TypeOK
  <2>4. Local(g, l, call[g], read.m[k], None, Nil)
    BY <1>1, <2>2, <2>3, Basics DEF Local
  <2>5. /\ old' \in [Goroutine -> Value \cup {Nil}] /\ out' \in [Goroutine -> Value \cup {Nil}]
    BY <1>1, <2>1 DEF TypeOK
  <2>6. IInv'
    BY <1>1, <1>2, <2>2, <2>4, <2>5, LocalKeeps
  <2>7. pc[g] \notin {"take", "clear"} /\ out' = out
    BY <1>1, <2>1
  <2> QED
    BY <2>4, <2>6, <2>7, LocalQuiet
<1>5. CASE Goto(g, "lock") /\ UNCHANGED <<call, e, old, out>>
  <2>1. Moves(g, "lock", call[g], None) /\ FitsAt(g, "lock", call[g], None)
    BY <1>1, <1>5 DEF Moves, FitsAt, Goto, PC, TypeOK
  <2>2. Local(g, "lock", call[g], None, None, Nil)
    BY <1>1, <2>1, Basics DEF Local
  <2>3. /\ old' \in [Goroutine -> Value \cup {Nil}] /\ out' \in [Goroutine -> Value \cup {Nil}]
    BY <1>1, <1>5 DEF TypeOK
  <2>4. IInv'
    BY <1>1, <1>2, <2>2, <2>3, LocalKeeps
  <2>5. pc[g] \notin {"take", "clear"} /\ out' = out
    BY <1>1, <1>5
  <2> QED
    BY <2>2, <2>4, <2>5, LocalQuiet
<1>6. CASE ~InRead(k) /\ ~read.amended /\ call[g].op # "Store" /\ Result(g, Nil)
  <2>1. Return(g) /\ out' \in [Goroutine -> Value \cup {Nil}]
    BY <1>1, <1>6 DEF Result, TypeOK
  <2>2. Local(g, "idle", None, None, None, Nil)
    BY <1>1, <2>1, ReturnIs, Basics DEF Local
  <2>3. IInv'
    BY <1>1, <1>2, <2>1, <2>2, ReturnIs, LocalKeeps
  <2>4. Taken[g] = Nil /\ out' = [out EXCEPT ![g] = Nil]
    BY <1>1, <1>6, TakenIs DEF Result
  <2>5. ~InDirty(k)
    BY <1>6 DEF IInv, Stages, InRead, InDirty
  <2>6. SeenRight => Nil \in seen[g]
    BY <1>1, <1>6, <2>5, AbsentSeen
  <2> QED
    BY <1>1, <1>3, <1>6, <2>2, <2>3, <2>4, <2>6, LocalReturns
<1> QED
  BY <1>4, <1>5, <1>6 DEF Lookup, StoreLookup

\* entry.load.
LEMMA LoadEntryKeeps ==
  ASSUME IInv, NEW g \in Goroutine, LoadEntry(g)
  PROVE  IInv' /\ Linear
<1>1. TypeOK /\ UNCHANGED <<maps, mu>> /\ pc[g] = "load" /\ Return(g) /\ Heap(p)
  BY DEF IInv, LoadEntry, Result
<1>2. out' \in [Goroutine -> Value \cup {Nil}]
  <2>1. e[g] \in Entry
    BY <1>1 DEF IInv, Phases, TypeOK
  <2>2. (IF Live(p[e[g]]) THEN p[e[g]] ELSE Nil) \in Value \cup {Nil}
    BY <1>1, <2>1 DEF Live, TypeOK
  <2> QED
    BY <1>1, <2>2 DEF LoadEntry, Result, TypeOK
<1>3. /\ \A y : InMaps(y)' <=> InMaps(y)
      /\ \A y \in Entry : InMaps(y)' \/ (\E h \in Goroutine : e'[h] = y) => p'[y] = p[y]
      /\ p' \in [Entry -> Value \cup {Nil, Expunged}]
  BY <1>1, HeapIs, ReturnIs, SameMaps DEF TypeOK
<1>4. Local(g, "idle", None, None, None, Nil)
  BY <1>1, <1>3, ReturnIs, Basics DEF Local
<1>5. IInv'
  BY <1>1, <1>2, <1>3, <1>4, ReturnIs, LocalKeeps
<1>6. e[g] \in Entry /\ e[g] # None /\ call[g].op = "Load" /\ Taken[g] = Nil
  BY <1>1, TakenIs, Basics DEF IInv, Phases, TypeOK
<1>7. out' = [out EXCEPT ![g] = Val(p[e[g]])] /\ Val(p[e[g]]) \in Value \cup {Nil}
  BY <1>1, <1>6 DEF LoadEntry, Result, Val, Live, TypeOK
<1> QED
  BY <1>1, <1>4, <1>5, <1>6, <1>7, ReadsSeen, LocalReturns

\* entry.delete loads the pointer.
LEMMA DeleteLoadKeeps ==
  ASSUME IInv, NEW g \in Goroutine, DeleteLoad(g)
  PROVE  IInv' /\ Linear
<1>1. /\ TypeOK /\ UNCHANGED <<maps, mu>> /\ pc[g] = "take" /\ Heap(p) /\ e[g] \in Entry
      /\ call[g].op = "Delete" /\ call[g] \in Call /\ None \notin Entry \cup Call
  BY Basics DEF IInv, DeleteLoad, Phases, TypeOK
<1>2. e' \in [Goroutine -> Entry \cup {None}]
  BY <1>1, ReturnIs DEF DeleteLoad, Result, TypeOK
<1>3. /\ \A y \in Entry : InMaps(y) \/ (\E h \in Goroutine : e'[h] = y) => p'[y] = p[y]
      /\ p' \in [Entry -> Value \cup {Nil, Expunged}]
  <2>1. \A y : InMaps(y)' <=> InMaps(y)
    BY <1>1, SameMaps
  <2> QED
    BY <1>1, <1>2, <2>1, HeapIs DEF TypeOK
<1>4. CASE Live(p[e[g]])
  <2>1. /\ old' = [old EXCEPT ![g] = p[e[g]]] /\ Goto(g, "clear") /\ UNCHANGED <<call, e, out>>
        /\ p[e[g]] \in Value
    BY <1>1, <1>4 DEF DeleteLoad, Live, TypeOK
  <2>2. Moves(g, "clear", call[g], e[g]) /\ FitsAt(g, "clear", call[g], e[g])
    BY <1>1, <1>4, <2>1 DEF Moves, FitsAt, Goto, PC, TypeOK
  <2>3. Local(g, "clear", call[g], e[g], None, Nil)
    BY <1>1, <1>3, <2>2 DEF Local
  <2>4. /\ old' \in [Goroutine -> Value \cup {Nil}] /\ out' \in [Goroutine -> Value \cup {Nil}]
    BY <1>1, <2>1 DEF TypeOK
  <2>5. IInv'
    BY <1>1, <1>3, <2>3, <2>4, LocalKeeps
  <2> QED
    BY <1>1, <2>1, <2>3, <2>5, LocalQuiet
<1>5. CASE ~Live(p[e[g]])
  <2>1. Return(g) /\ out' \in [Goroutine -> Value \cup {Nil}]
    BY <1>1, <1>5 DEF DeleteLoad, Result, TypeOK
  <2>2. Local(g, "idle", None, None, None, Nil)
    BY <1>1, <1>3, <1>5, <2>1, ReturnIs DEF Local
  <2>3. IInv'
    BY <1>1, <1>3, <2>1, <2>2, ReturnIs, LocalKeeps
  <2>4. Val(p[e[g]]) = Nil /\ Taken[g] = Nil
    BY <1>5, TakenIs DEF Val
  <2>5. out' = [out EXCEPT ![g] = Nil]
    BY <1>1, <1>5 DEF DeleteLoad, Result
  <2>6. SeenRight => Nil \in seen[g]
    BY <1>1, <2>4, ReadsSeen
  <2> QED
    BY <1>1, <2>2, <2>3, <2>4, <2>5, <2>6, LocalReturns
<1> QED
  BY <1>4, <1>5

\* A compare-and-swap, and the store of a goroutine that holds mu.
LEMMA WriteKeeps ==
  ASSUME IInv, NEW g \in Goroutine, NEW v \in Value \cup {Nil},
         UNCHANGED maps, Return(g), Heap([p EXCEPT ![e[g]] = v]), p[e[g]] # Expunged,
         out' \in [Goroutine -> Value \cup {Nil}],
         \/ /\ mu' = mu /\ pc[g] = "clear" /\ v = Nil /\ p[e[g]] = old[g]
            /\ out' = [out EXCEPT ![g] = old[g]]
         \/ mu' = mu /\ pc[g] = "cas" /\ v \in Value /\ v = call[g].val /\ out' = out
         \/ mu' = None /\ pc[g] = "put" /\ v \in Value /\ v = call[g].val /\ out' = out
  PROVE  IInv' /\ Linear
<1>1. /\ TypeOK /\ e[g] \in Entry /\ None \notin Entry
  BY Basics DEF IInv, Phases, TypeOK
<1>2. [p EXCEPT ![e[g]] = v] \in [Entry -> Value \cup {Nil, Expunged}]
  BY <1>1 DEF TypeOK
<1>3. /\ \A y : InMaps(y)' <=> InMaps(y)
      /\ \A y \in Entry : InMaps(y)' \/ (\E h \in Goroutine : e'[h] = y) =>
           p'[y] = [p EXCEPT ![e[g]] = v][y]
      /\ p' \in [Entry -> Value \cup {Nil, Expunged}]
  BY <1>1, <1>2, HeapIs, ReturnIs, SameMaps
<1>4. \A y \in Entry : [p EXCEPT ![e[g]] = v][y] = IF y = e[g] THEN v ELSE p[y]
  BY <1>1 DEF TypeOK
<1>5. \A y \in Entry : InMaps(y) \/ (\E h \in Goroutine : e'[h] = y) =>
        p'[y] = IF y = e[g] THEN v ELSE p[y]
  BY <1>3, <1>4
<1>6. Local(g, "idle", None, None, e[g], v)
  BY <1>1, <1>5, ReturnIs DEF Local
<1>7. IInv'
  BY <1>1, <1>3, <1>6, ReturnIs, LocalKeeps
<1>8. CASE /\ pc[g] = "clear" /\ v = Nil /\ p[e[g]] = old[g]
           /\ out' = [out EXCEPT ![g] = old[g]]
  BY <1>6, <1>7, <1>8, LocalTakes
<1>9. CASE pc[g] \in {"cas", "put"} /\ v = call[g].val /\ out' = out
  BY <1>6, <1>7, <1>9, LocalWrites
<1> QED
  BY <1>7, <1>8, <1>9

\* entry.delete swaps it for nil.
LEMMA DeleteCASKeeps ==
  ASSUME IInv, NEW g \in Goroutine, DeleteCAS(g)
  PROVE  IInv' /\ Linear
<1>1. /\ TypeOK /\ UNCHANGED <<maps, mu>> /\ pc[g] = "clear" /\ e[g] \in Entry /\ Live(old[g])
      /\ old[g] \in Value /\ call[g].op = "Delete" /\ call[g] \in Call /\ None \notin Entry \cup Call
  BY Basics DEF IInv, DeleteCAS, Phases, TypeOK, Live
<1>2. CASE CASHolds(g) /\ Result(g, old[g]) /\ Heap([p EXCEPT ![e[g]] = Nil])
  <2>1. Return(g) /\ out' \in [Goroutine -> Value \cup {Nil}]
    BY <1>1, <1>2 DEF Result, TypeOK
  <2>2. p[e[g]] # Expunged
    BY <1>1, <1>2 DEF CASHolds, Live
  <2>3. p[e[g]] = old[g] /\ out' = [out EXCEPT ![g] = old[g]]
    BY <1>2 DEF CASHolds, Result
  <2> QED
    BY <1>1, <1>2, <2>1, <2>2, <2>3, WriteKeeps
<1>3. CASE old' = [old EXCEPT ![g] = Nil] /\ Goto(g, "take") /\ UNCHANGED <<p, call, e, out>>
  <2>1. Moves(g, "take", call[g], e[g]) /\ FitsAt(g, "take", call[g], e[g])
    BY <1>1, <1>3 DEF Moves, FitsAt, Goto, PC, TypeOK
  <2>2. Local(g, "take", call[g], e[g], None, Nil)
    BY <1>1, <1>3, <2>1 DEF Local
  <2>3. /\ p' \in [Entry -> Value \cup {Nil, Expunged}]
        /\ old' \in [Goroutine -> Value \cup {Nil}] /\ out' \in [Goroutine -> Value \cup {Nil}]
    BY <1>1, <1>3 DEF TypeOK
  <2>4. IInv'
    BY <1>1, <2>2, <2>3, LocalKeeps
  <2> QED
    BY <1>1, <1>3, <2>2, <2>4, LocalQuiet
<1> QED
  BY <1>2, <1>3 DEF DeleteCAS

\* entry.tryStore loads the pointer.
LEMMA TryStoreLoadKeeps ==
  ASSUME IInv, NEW g \in Goroutine, TryStoreLoad(g)
  PROVE  IInv' /\ Linear
<1>1. /\ TypeOK /\ UNCHANGED <<maps, mu, call, out>> /\ pc[g] = "try" /\ e[g] \in Entry
      /\ call[g].op = "Store" /\ call[g] \in Call /\ None \notin Entry \cup Call
  BY Basics DEF IInv, TryStoreLoad, Phases, TypeOK
<1>2. CASE p[e[g]] = Expunged
  <2>1. Found(g, None, "lock") /\ UNCHANGED old /\ Heap(p)
    BY <1>2 DEF TryStoreLoad
  <2>2. Moves(g, "lock", call[g], None) /\ FitsAt(g, "lock", call[g], None)
    BY <1>1, <2>1 DEF Moves, FitsAt, Found, Goto, PC, TypeOK
  <2>3. e' \in [Goroutine -> Entry \cup {None}] /\ \A y : InMaps(y)' <=> InMaps(y)
    BY <1>1, <2>1, SameMaps DEF Found, TypeOK
  <2>4. /\ \A y \in Entry : InMaps(y) \/ (\E h \in Goroutine : e'[h] = y) => p'[y] = p[y]
        /\ p' \in [Entry -> Value \cup {Nil, Expunged}]
    BY <1>1, <2>1, <2>3, HeapIs DEF TypeOK
  <2>5. Local(g, "lock", call[g], None, None, Nil)
    BY <1>1, <2>2, <2>4 DEF Local
  <2>6. /\ old' \in [Goroutine -> Value \cup {Nil}] /\ out' \in [Goroutine -> Value \cup {Nil}]
    BY <1>1, <2>1 DEF TypeOK
  <2>7. IInv'
    BY <1>1, <2>4, <2>5, <2>6, LocalKeeps
  <2>8. pc[g] \notin {"take", "clear"} /\ out' = out
    BY <1>1
  <2> QED
    BY <2>5, <2>7, <2>8, LocalQuiet
<1>3. CASE p[e[g]] # Expunged
  <2>1. old' = [old EXCEPT ![g] = p[e[g]]] /\ Goto(g, "cas") /\ UNCHANGED <<p, e>>
    BY <1>3 DEF TryStoreLoad
  <2>2. Moves(g, "cas", call[g], e[g]) /\ FitsAt(g, "cas", call[g], e[g])
    BY <1>1, <2>1 DEF Moves, FitsAt, Goto, PC, TypeOK
  <2>3. Local(g, "cas", call[g], e[g], None, Nil)
    BY <1>1, <2>1, <2>2 DEF Local
  <2>4. /\ p' \in [Entry -> Value \cup {Nil, Expunged}]
        /\ old' \in [Goroutine -> Value \cup {Nil}] /\ out' \in [Goroutine -> Value \cup {Nil}]
    BY <1>1, <1>3, <2>1 DEF TypeOK
  <2>5. IInv'
    BY <1>1, <2>3, <2>4, LocalKeeps
  <2>6. pc[g] \notin {"take", "clear"} /\ out' = out
    BY <1>1
  <2> QED
    BY <2>3, <2>5, <2>6, LocalQuiet
<1> QED
  BY <1>2, <1>3

\* entry.tryStore swaps it for its own.
LEMMA TryStoreCASKeeps ==
  ASSUME IInv, NEW g \in Goroutine, TryStoreCAS(g)
  PROVE  IInv' /\ Linear
<1>1. /\ TypeOK /\ UNCHANGED <<maps, mu, out>> /\ pc[g] = "cas" /\ e[g] \in Entry
      /\ old[g] \in Value \cup {Nil} /\ call[g].op = "Store" /\ call[g] \in Call
      /\ None \notin Entry \cup Call /\ Expunged \notin Value \cup {Nil}
  BY Basics DEF IInv, TryStoreCAS, Phases, TypeOK
<1>2. call[g].val \in Value
  BY <1>1 DEF Call
<1>3. CASE CASHolds(g) /\ Return(g) /\ Heap([p EXCEPT ![e[g]] = call[g].val])
  <2>1. p[e[g]] # Expunged /\ out' \in [Goroutine -> Value \cup {Nil}] /\ out' = out
    BY <1>1, <1>3 DEF CASHolds, TypeOK
  <2> QED
    BY <1>1, <1>2, <1>3, <2>1, WriteKeeps
<1>4. CASE old' = [old EXCEPT ![g] = Nil] /\ Goto(g, "try") /\ UNCHANGED <<p, call, e>>
  <2>1. Moves(g, "try", call[g], e[g]) /\ FitsAt(g, "try", call[g], e[g])
    BY <1>1, <1>4 DEF Moves, FitsAt, Goto, PC, TypeOK
  <2>2. Local(g, "try", call[g], e[g], None, Nil)
    BY <1>1, <1>4, <2>1 DEF Local
  <2>3. /\ p' \in [Entry -> Value \cup {Nil, Expunged}]
        /\ old' \in [Goroutine -> Value \cup {Nil}] /\ out' \in [Goroutine -> Value \cup {Nil}]
    BY <1>1, <1>4 DEF TypeOK
  <2>4. IInv'
    BY <1>1, <2>2, <2>3, LocalKeeps
  <2>5. pc[g] \notin {"take", "clear"} /\ out' = out
    BY <1>1
  <2> QED
    BY <2>2, <2>4, <2>5, LocalQuiet
<1> QED
  BY <1>3, <1>4 DEF TryStoreCAS

\* storeLocked on an entry of read.
LEMMA StorePutKeeps ==
  ASSUME IInv, NEW g \in Goroutine, StorePut(g)
  PROVE  IInv' /\ Linear
<1>1. /\ TypeOK /\ UNCHANGED <<maps, out>> /\ mu' = None /\ pc[g] = "put" /\ Return(g)
      /\ call[g].op = "Store" /\ call[g] \in Call
  BY DEF IInv, StorePut, Phases, TypeOK
<1>2. call[g].val \in Value /\ p[e[g]] # Expunged /\ out' \in [Goroutine -> Value \cup {Nil}]
  BY <1>1 DEF Call, IInv, Owners, TypeOK
<1> QED
  BY <1>1, <1>2, WriteKeeps DEF StorePut

-----------------------------------------------------------------------------
(***************************************************************************)
(* Load and Delete under mu.                                               *)
(***************************************************************************)
\* g, under mu, has not found its key in read and leaves d in dirty or, after
\* as many misses, in read; it goes on with what dirty has for the key.
Missed(g, l, c, n, d) ==
  LET k == call[g].key IN
  /\ pc[g] = "lock" /\ mu = None /\ k \notin DOMAIN read.m /\ read.amended
  /\ Moves(g, l, c, n) /\ FitsAt(g, l, c, n)
  /\ DOMAIN d \subseteq DOMAIN Dirty /\ DOMAIN Dirty \ {k} \subseteq DOMAIN d
  /\ \A j \in DOMAIN d : d[j] = Dirty[j]
  /\ \/ n = None /\ k \notin DOMAIN Dirty
     \/ /\ k \in DOMAIN Dirty /\ n = Dirty[k] /\ c = call[g]
        /\ \/ l = "load" /\ k \in DOMAIN d
           \/ l = "take" /\ k \notin DOMAIN d
  /\ UNCHANGED <<mu, todo, cur>>
  /\ \A y \in Entry : InMaps(y)' \/ (\E h \in Goroutine : e'[h] = y) => p'[y] = p[y]

\* What is known before the step.
LEMMA MissedIs ==
  ASSUME IInv, NEW g \in Goroutine, NEW l, NEW c, NEW n, NEW d, Missed(g, l, c, n, d),
         missLocked(d), d # Nil, e' \in [Goroutine -> Entry \cup {None}]
  PROVE  /\ TypeOK /\ Maps /\ Stages /\ Phases /\ Owners
         /\ dirty # Nil /\ Dirty = dirty /\ Pending = {} /\ Pending' = {}
         /\ \/ read' = read /\ dirty' = d /\ Dirty' = d
            \/ read' = [m |-> d, amended |-> FALSE] /\ dirty' = Nil /\ DOMAIN Dirty' = {}
         /\ \A j \in DOMAIN read.m : read.m[j] \in Entry /\ InMaps(read.m[j])
         /\ \A j \in DOMAIN Dirty : Dirty[j] \in Entry /\ InMaps(Dirty[j])
         /\ \A h \in Goroutine : h # g =>
              pc'[h] = pc[h] /\ call'[h] = call[h] /\ e'[h] = e[h] /\ old'[h] = old[h]
         /\ pc'[g] = l /\ call'[g] = c /\ e'[g] = n
         /\ None \notin Entry \cup Goroutine /\ ~Copying /\ ~Copying'
<1>1. TypeOK /\ Maps /\ Stages /\ Phases /\ Owners
  BY DEF IInv
<1>2. read.amended /\ mu = None /\ UNCHANGED <<mu, todo, cur>> /\ Moves(g, l, c, n)
  BY DEF Missed
<1>3. ~Copying /\ ~Copying' /\ Pending = {} /\ Pending' = {}
  BY <1>1, <1>2 DEF Stages, Copying, Pending
<1>4. dirty # Nil /\ Dirty = dirty
  BY <1>1, <1>2 DEF Stages, Dirty
<1>5. \/ read' = read /\ dirty' = d
      \/ read' = [m |-> d, amended |-> FALSE] /\ dirty' = Nil
  BY <1>4 DEF missLocked, Promoted
<1>6. /\ dirty' = d => Dirty' = d
      /\ dirty' = Nil => DOMAIN Dirty' = {}
  BY DEF Dirty, NoKeys
<1>7. /\ \A h \in Goroutine : h # g =>
              pc'[h] = pc[h] /\ call'[h] = call[h] /\ e'[h] = e[h] /\ old'[h] = old[h]
      /\ pc'[g] = l /\ call'[g] = c /\ e'[g] = n
  BY <1>1, <1>2 DEF Moves, TypeOK
<1> QED
  BY <1>1, <1>3, <1>4, <1>5, <1>6, <1>7, Basics

\* A miss keeps the invariant, whether it promotes dirty or not.
LEMMA MissedKeeps ==
  ASSUME IInv, NEW g \in Goroutine, NEW l, NEW c \in Call \cup {None}, NEW n \in Entry \cup {None},
         NEW d, Missed(g, l, c, n, d), missLocked(d),
         d # Nil, DOMAIN d \subseteq Key, Range(d) \subseteq Entry,
         p' \in [Entry -> Value \cup {Nil, Expunged}], e' \in [Goroutine -> Entry \cup {None}],
         old' \in [Goroutine -> Value \cup {Nil}], out' \in [Goroutine -> Value \cup {Nil}]
  PROVE  IInv'
<1> DEFINE k == call[g].key
<1>1. /\ TypeOK /\ Maps /\ Stages /\ Phases /\ Owners
      /\ dirty # Nil /\ Dirty = dirty /\ Pending = {} /\ Pending' = {}
      /\ \/ read' = read /\ dirty' = d /\ Dirty' = d
         \/ read' = [m |-> d, amended |-> FALSE] /\ dirty' = Nil /\ DOMAIN Dirty' = {}
      /\ \A j \in DOMAIN read.m : read.m[j] \in Entry /\ InMaps(read.m[j])
      /\ \A j \in DOMAIN Dirty : Dirty[j] \in Entry /\ InMaps(Dirty[j])
      /\ \A h \in Goroutine : h # g =>
           pc'[h] = pc[h] /\ call'[h] = call[h] /\ e'[h] = e[h] /\ old'[h] = old[h]
      /\ pc'[g] = l /\ call'[g] = c /\ e'[g] = n
      /\ None \notin Entry \cup Goroutine /\ ~Copying /\ ~Copying'
  BY MissedIs
<1>2. /\ pc[g] = "lock" /\ mu = None /\ mu' = None /\ k \notin DOMAIN read.m /\ read.amended
      /\ FitsAt(g, l, c, n)
      /\ DOMAIN d \subseteq DOMAIN Dirty /\ DOMAIN Dirty \ {k} \subseteq DOMAIN d
      /\ \A j \in DOMAIN d : d[j] = Dirty[j]
      /\ \/ n = None /\ k \notin DOMAIN Dirty
         \/ /\ k \in DOMAIN Dirty /\ n = Dirty[k] /\ c = call[g]
            /\ \/ l = "load" /\ k \in DOMAIN d
               \/ l = "take" /\ k \notin DOMAIN d
      /\ UNCHANGED <<todo, cur>>
      /\ \A y \in Entry : InMaps(y)' \/ (\E h \in Goroutine : e'[h] = y) => p'[y] = p[y]
  BY DEF Missed
<1>3. TypeOK'
  <2>1. /\ DOMAIN read'.m \subseteq Key /\ Range(read'.m) \subseteq Entry /\ read'.amended \in BOOLEAN
        /\ dirty' # Nil => DOMAIN dirty' \subseteq Key /\ Range(dirty') \subseteq Entry
    <3>1. CASE read' = read /\ dirty' = d
      BY <1>1, <3>1 DEF TypeOK
    <3>2. CASE read' = [m |-> d, amended |-> FALSE] /\ dirty' = Nil
      <4>1. read'.m = d /\ read'.amended = FALSE
        BY <3>2
      <4> QED
        BY <3>2, <4>1
    <3> QED
      BY <1>1, <3>1, <3>2
  <2>2. misses' \in Nat
    BY <1>1 DEF TypeOK, missLocked
  <2>3. /\ pc' \in [Goroutine -> PC] /\ call' \in [Goroutine -> Call \cup {None}]
    BY <1>1 DEF Missed, Moves, FitsAt, TypeOK
  <2>4. mu' \in Goroutine \cup {None} /\ todo' \subseteq Key /\ cur' \in Key \cup {None}
    BY <1>1, <1>2 DEF TypeOK
  <2> QED
    BY <2>1, <2>2, <2>3, <2>4 DEF TypeOK
<1>4. Maps'
  BY <1>1, <1>2 DEF Maps
<1>5. Phases'
  BY <1>1, <1>2 DEF Phases, FitsAt, NoNilMapWrite, PC
<1>6. \A y : InMaps(y)' <=> \/ \E j \in DOMAIN read'.m : read'.m[j] = y
                            \/ \E j \in DOMAIN Dirty' : Dirty'[j] = y
  BY <1>3, Basics DEF InMaps, Range
<1>7. \A y : InMaps(y) <=> \/ \E j \in DOMAIN read.m : read.m[j] = y
                           \/ \E j \in DOMAIN Dirty : Dirty[j] = y
  BY <1>1, Basics
<1>8. /\ \A j \in DOMAIN read'.m : read'.m[j] \in Entry /\ p'[read'.m[j]] = p[read'.m[j]]
      /\ \A j \in DOMAIN Dirty' : Dirty'[j] \in Entry /\ p'[Dirty'[j]] = p[Dirty'[j]]
  BY <1>1, <1>2, <1>6
<1>9. Stages'
  <2>1. CASE read' = read /\ dirty' = d /\ Dirty' = d
    <3>1. EntryStates'
      BY <1>1, <1>2, <1>8, <2>1 DEF Stages, EntryStates, InDirty
    <3> QED
      BY <1>1, <1>2, <1>8, <2>1, <3>1 DEF Stages, InDirty
  <2>2. CASE read' = [m |-> d, amended |-> FALSE] /\ dirty' = Nil /\ DOMAIN Dirty' = {}
    <3>1. EntryStates'
      BY <1>1, <1>2, <1>8, <2>2 DEF Stages, EntryStates, InDirty
    <3> QED
      BY <1>1, <1>2, <1>8, <2>2, <3>1 DEF Stages, InDirty
  <2> QED
    BY <1>1, <2>1, <2>2
<1>10. \A y : InMaps(y)' => InMaps(y)
  BY <1>1, <1>2, <1>6, <1>7
<1>11. \A y \in Entry : InMaps(y) /\ ~InMaps(y)' =>
         \/ p[y] = Expunged
         \/ k \in DOMAIN Dirty /\ y = Dirty[k] /\ n = y /\ l = "take"
  BY <1>1, <1>2, <1>6, <1>7 DEF Stages, EntryStates, InDirty, Maps
<1>12. /\ \A h \in Goroutine, j \in DOMAIN read'.m : read'.m[j] = e'[h] => j = call'[h].key
       /\ \A h \in Goroutine, j \in DOMAIN Dirty' : Dirty'[j] = e'[h] => j = call'[h].key
       /\ \A h \in Goroutine, j \in DOMAIN Dirty' \ DOMAIN read'.m :
            Dirty'[j] = e'[h] => pc'[h] = "load"
  BY <1>1, <1>2 DEF Owners, Maps
<1>13. \A h \in Goroutine : pc'[h] # "put"
  BY <1>1, <1>2 DEF Phases, FitsAt
<1>14. ASSUME NEW h \in Goroutine, NEW y \in Entry, e'[h] = y, ~InMaps(y)', p'[y] # Expunged
       PROVE  /\ pc'[h] \notin {"try", "cas", "put"}
              /\ \A i \in Goroutine :
                   e'[i] = y /\ pc'[h] \in {"take", "clear"} /\ pc'[i] \in {"take", "clear"} => i = h
              /\ Live(p'[y]) => \E i \in Goroutine : e'[i] = y /\ pc'[i] \in {"take", "clear"}
  <2>1. p'[y] = p[y] /\ p[y] # Expunged
    BY <1>2, <1>14
  <2>2. CASE InMaps(y)
    <3>1. k \in DOMAIN Dirty \ DOMAIN read.m /\ y = Dirty[k] /\ n = y /\ l = "take"
      BY <1>2, <1>11, <1>14, <2>1, <2>2
    <3>2. \A i \in Goroutine : i # g /\ e'[i] = y => pc'[i] = "load"
      BY <1>1, <3>1 DEF Owners
    <3> QED
      BY <1>1, <1>14, <3>1, <3>2
  <2>3. CASE ~InMaps(y)
    <3>1. n # y
      BY <1>1, <1>2, <2>3
    <3>2. \A i \in Goroutine : e'[i] = y <=> e[i] = y /\ i # g
      <4>1. e[g] = None
        BY <1>1, <1>2 DEF Phases
      <4> QED
        BY <1>1, <3>1, <4>1
    <3>3. \A i \in Goroutine : e'[i] = y => e[i] = y /\ pc'[i] = pc[i]
      BY <1>1, <3>2
    <3>4. \A i \in Goroutine : e[i] = y => e'[i] = y /\ pc'[i] = pc[i]
      <4>1. e[g] = None
        BY <1>1, <1>2 DEF Phases
      <4> QED
        BY <1>1, <3>2, <4>1
    <3>5. /\ pc[h] \notin {"try", "cas", "put"}
          /\ \A i \in Goroutine :
               e[i] = y /\ pc[h] \in {"take", "clear"} /\ pc[i] \in {"take", "clear"} => i = h
          /\ Live(p[y]) => \E i \in Goroutine : e[i] = y /\ pc[i] \in {"take", "clear"}
      BY <1>1, <1>14, <2>1, <2>3, <3>3 DEF Owners
    <3> QED
      BY <1>14, <2>1, <3>3, <3>4, <3>5
  <2> QED
    BY <2>2, <2>3
<1>15. Owners'
  BY <1>12, <1>13, <1>14 DEF Owners
<1> QED
  BY <1>3, <1>4, <1>5, <1>9, <1>15 DEF IInv

\* What leaves the maps is expunged, or the entry that Delete takes.
LEMMA MissedLeaves ==
  ASSUME IInv, NEW g \in Goroutine, NEW l, NEW c, NEW n, NEW d, Missed(g, l, c, n, d),
         missLocked(d), d # Nil, e' \in [Goroutine -> Entry \cup {None}]
  PROVE  /\ \A y : InMaps(y)' => InMaps(y)
         /\ \A y \in Entry : InMaps(y) /\ ~InMaps(y)' =>
              \/ p[y] = Expunged
              \/ /\ call[g].key \in DOMAIN Dirty \ DOMAIN read.m
                 /\ y = Dirty[call[g].key] /\ n = y /\ l = "take"
<1> DEFINE k == call[g].key
<1>1. /\ TypeOK /\ Maps /\ Stages /\ dirty # Nil /\ Pending = {}
      /\ \/ read' = read /\ dirty' = d /\ Dirty' = d
         \/ read' = [m |-> d, amended |-> FALSE] /\ dirty' = Nil /\ DOMAIN Dirty' = {}
  BY MissedIs
<1>2. /\ k \notin DOMAIN read.m /\ DOMAIN d \subseteq DOMAIN Dirty /\ DOMAIN Dirty \ {k} \subseteq DOMAIN d
      /\ \A j \in DOMAIN d : d[j] = Dirty[j]
      /\ \/ n = None /\ k \notin DOMAIN Dirty
         \/ /\ k \in DOMAIN Dirty /\ n = Dirty[k]
            /\ \/ l = "load" /\ k \in DOMAIN d
               \/ l = "take" /\ k \notin DOMAIN d
  BY DEF Missed
<1>3. \A y : InMaps(y)' <=> \/ \E j \in DOMAIN read'.m : read'.m[j] = y
                            \/ \E j \in DOMAIN Dirty' : Dirty'[j] = y
  BY DEF InMaps, Range
<1>4. \A y : InMaps(y) <=> \/ \E j \in DOMAIN read.m : read.m[j] = y
                           \/ \E j \in DOMAIN Dirty : Dirty[j] = y
  BY <1>1, Basics
<1>5. \A y : InMaps(y)' => InMaps(y)
  BY <1>1, <1>2, <1>3, <1>4
<1>6. \A y \in Entry : InMaps(y) /\ ~InMaps(y)' =>
        \/ p[y] = Expunged
        \/ k \in DOMAIN Dirty /\ y = Dirty[k] /\ n = y /\ l = "take"
  BY <1>1, <1>2, <1>3, <1>4 DEF Stages, EntryStates, InDirty, Maps
<1> QED
  BY <1>2, <1>5, <1>6

\* A miss changes what the map holds only as the effect of the Delete that
\* takes its entry out of dirty; a promotion drops expunged entries alone.
LEMMA MissedMapped ==
  ASSUME IInv, IInv', NEW g \in Goroutine, NEW l, NEW c, NEW n, NEW d, Missed(g, l, c, n, d),
         missLocked(d), d # Nil, e' \in [Goroutine -> Entry \cup {None}]
  PROVE  /\ l # "take" => Contents' = Contents /\ Taken' = Taken
         /\ l = "take" => /\ Contents' = [Contents EXCEPT ![call[g].key] = Nil]
                          /\ Contents[call[g].key] # Nil
                          /\ Taken' = [Taken EXCEPT ![g] = Contents[call[g].key]]
         /\ Taken[g] = Nil
         /\ call' = [call EXCEPT ![g] = c]
<1> DEFINE k == call[g].key
<1>1. /\ TypeOK /\ Maps /\ Stages /\ Phases /\ Owners
      /\ dirty # Nil /\ Dirty = dirty /\ Pending = {} /\ Pending' = {}
      /\ \/ read' = read /\ dirty' = d /\ Dirty' = d
         \/ read' = [m |-> d, amended |-> FALSE] /\ dirty' = Nil /\ DOMAIN Dirty' = {}
      /\ \A j \in DOMAIN read.m : read.m[j] \in Entry /\ InMaps(read.m[j])
      /\ \A j \in DOMAIN Dirty : Dirty[j] \in Entry /\ InMaps(Dirty[j])
      /\ \A h \in Goroutine : h # g =>
           pc'[h] = pc[h] /\ call'[h] = call[h] /\ e'[h] = e[h] /\ old'[h] = old[h]
      /\ pc'[g] = l /\ call'[g] = c /\ e'[g] = n
      /\ None \notin Entry \cup Goroutine /\ ~Copying /\ ~Copying'
  BY MissedIs
<1>2. TypeOK' /\ Maps'
  BY DEF IInv
<1>3. /\ pc[g] = "lock" /\ k \notin DOMAIN read.m /\ FitsAt(g, l, c, n)
      /\ DOMAIN d \subseteq DOMAIN Dirty /\ DOMAIN Dirty \ {k} \subseteq DOMAIN d
      /\ \A j \in DOMAIN d : d[j] = Dirty[j]
      /\ \/ n = None /\ k \notin DOMAIN Dirty
         \/ /\ k \in DOMAIN Dirty /\ n = Dirty[k] /\ c = call[g]
            /\ \/ l = "load" /\ k \in DOMAIN d
               \/ l = "take" /\ k \notin DOMAIN d
      /\ \A y \in Entry : InMaps(y)' \/ (\E h \in Goroutine : e'[h] = y) => p'[y] = p[y]
      /\ call' = [call EXCEPT ![g] = c]
  BY DEF Missed, Moves
<1>4. call[g] \in Call /\ k \in Key
  <2>1. call[g] \in Call
    BY <1>1, <1>3 DEF Phases, TypeOK
  <2> QED
    BY <2>1 DEF Call
<1>5. /\ \A y : InMaps(y)' => InMaps(y)
      /\ \A y \in Entry : InMaps(y) /\ ~InMaps(y)' =>
           \/ p[y] = Expunged
           \/ k \in DOMAIN Dirty \ DOMAIN read.m /\ y = Dirty[k] /\ n = y /\ l = "take"
  BY MissedLeaves
<1>6. \A j \in Key, y \in Entry : Has(j, y)' => InMaps(y)'
  <2>1. ContentsRight'
    BY <1>2, ContentsAt, PTL
  <2> QED
    BY <2>1 DEF ContentsRight
<1>7. ASSUME NEW j \in Key, NEW y \in Entry, Has(j, y), l = "take" => j # k
      PROVE  \/ Val(p[y]) = Val(p'[y]) /\ Has(j, y)'
             \/ Val(p[y]) = Nil /\ ~InRead(j)' /\ ~InDirty(j)'
  <2>1. j \in DOMAIN Dirty => j \in DOMAIN d /\ d[j] = Dirty[j]
    BY <1>1, <1>3, <1>7
  <2>2. Has(j, y)' => p'[y] = p[y]
    BY <1>3, <1>6
  <2>3. CASE j \in DOMAIN Dirty
    <3>1. Dirty[j] = y
      BY <1>1, <1>7, <2>3 DEF Has, Maps
    <3>2. Has(j, y)'
      BY <1>1, <2>1, <2>3, <3>1 DEF Has
    <3> QED
      BY <2>2, <3>2
  <2>4. CASE j \notin DOMAIN Dirty
    <3>1. j \in DOMAIN read.m /\ read.m[j] = y
      BY <1>7, <2>4 DEF Has
    <3>2. p[y] = Expunged
      BY <1>1, <2>4, <3>1 DEF Stages, EntryStates, InDirty
    <3>3. Val(p[y]) = Nil
      BY <3>2 DEF Val, Live
    <3>4. CASE read' = read
      <4>1. Has(j, y)'
        BY <3>1, <3>4 DEF Has
      <4> QED
        BY <2>2, <4>1
    <3>5. CASE read' = [m |-> d, amended |-> FALSE] /\ DOMAIN Dirty' = {}
      BY <1>3, <2>4, <3>3, <3>5 DEF InRead, InDirty
    <3> QED
      BY <1>1, <3>4, <3>5
  <2> QED
    BY <2>3, <2>4
<1>8. \A j \in Key : ~InRead(j) /\ ~InDirty(j) => ~InRead(j)' /\ ~InDirty(j)'
  BY <1>1, <1>3 DEF InRead, InDirty
<1>9. ASSUME l # "take"
      PROVE  Contents' = Contents
  BY <1>1, <1>2, <1>7, <1>8, <1>9, ContentsStay
<1>10. ASSUME l = "take"
       PROVE  /\ n = Dirty[k] /\ k \in DOMAIN Dirty /\ n \in Entry /\ ~InMaps(n)'
              /\ Contents' = [Contents EXCEPT ![k] = Nil]
              /\ Contents[k] = Val(p[n]) /\ Val(p[n]) = p[n] /\ p[n] # Nil /\ p'[n] = p[n]
  <2>1. n # None
    BY <1>3, <1>10 DEF FitsAt
  <2>2. n = Dirty[k] /\ k \in DOMAIN Dirty /\ n \in Entry /\ k \notin DOMAIN d
    BY <1>1, <1>3, <1>10, <2>1
  <2>3. k \notin DOMAIN read'.m /\ k \notin DOMAIN Dirty'
    BY <1>1, <1>3, <2>2
  <2>4. PICK k0 \in Key : k0 = k
    BY <1>4
  <2>5. Contents' = [Contents EXCEPT ![k0] = Nil]
    <3>1. Nil \in Value \cup {Nil}
      OBVIOUS
    <3>2. ~InRead(k0)' /\ ~InDirty(k0)'
      BY <2>3, <2>4 DEF InRead, InDirty
    <3> QED
      BY <1>1, <1>2, <1>7, <1>8, <2>4, <3>1, <3>2, ContentsBecome
  <2>6. Contents[k0] = Val(p[n])
    <3>1. Has(k0, n)
      BY <2>2, <2>4 DEF Has
    <3> QED
      BY <1>1, <2>2, <3>1, ContentsAt DEF ContentsRight
  <2>7. Val(p[n]) = p[n] /\ p[n] # Nil
    <3>1. Live(p[n])
      BY <1>1, <1>3, <2>2 DEF Stages
    <3> QED
      BY <3>1 DEF Val, Live
  <2>8. ~InMaps(n)'
    <3>1. \A y : InMaps(y)' <=> \/ \E j \in DOMAIN read'.m : read'.m[j] = y
                                \/ \E j \in DOMAIN Dirty' : Dirty'[j] = y
      BY DEF InMaps, Range
    <3> QED
      BY <1>1, <1>3, <2>2, <3>1 DEF Maps
  <2>9. p'[n] = p[n]
    BY <1>1, <1>3, <2>2
  <2> QED
    BY <2>2, <2>4, <2>5, <2>6, <2>7, <2>8, <2>9
<1>11. ASSUME NEW h \in Goroutine, h # g
       PROVE  Taken'[h] = Taken[h]
  <2>1. pc'[h] = pc[h] /\ e'[h] = e[h]
    BY <1>1, <1>11
  <2>2. CASE pc[h] \in {"take", "clear"}
    <3>1. PICK y \in Entry : y = e[h]
      BY <1>1, <2>2 DEF Phases, TypeOK
    <3>2. p'[y] = p[y] /\ (InMaps(y)' <=> InMaps(e[h])')
      BY <1>3, <2>1, <3>1, TakenAfter
    <3>3. InMaps(y) /\ ~InMaps(y)' => Val(p[y]) = Nil
      BY <1>1, <1>5, <2>2, <3>1 DEF Owners, Val, Live
    <3>4. /\ ~InMaps(y) => Taken[h] = Val(p[y])
          /\ InMaps(y) => Taken[h] = Nil
      BY <2>2, <3>1, TakenIs
    <3>5. /\ ~InMaps(y)' => Taken'[h] = Val(p[y])
          /\ InMaps(y)' => Taken'[h] = Nil
      BY <2>1, <2>2, <3>1, <3>2, TakenAfter
    <3> QED
      BY <1>5, <3>3, <3>4, <3>5
  <2>3. CASE pc[h] \notin {"take", "clear"}
    BY <2>1, <2>3, TakenIs, TakenAfter
  <2> QED
    BY <2>2, <2>3
<1>12. Taken[g] = Nil
  BY <1>3, TakenIs
<1>13. l # "take" => Taken'[g] = Nil
  <2>1. l # "take" => pc'[g] \notin {"take", "clear"}
    BY <1>1, <1>3 DEF FitsAt
  <2> QED
    BY <2>1, TakenAfter
<1>14. l = "take" => Taken'[g] = Contents[k]
  <2> SUFFICES ASSUME l = "take" PROVE Taken'[g] = Contents[k]
    OBVIOUS
  <2>1. ~InMaps(e[g])'
    BY <1>1, <1>10, TakenAfter
  <2> QED
    BY <1>1, <1>10, <2>1, TakenAfter
<1>15. /\ DOMAIN Taken = Goroutine /\ Taken = [h \in Goroutine |-> Taken[h]]
       /\ Taken' = [h \in Goroutine |-> Taken'[h]]
  BY DEF Taken
<1>16. l # "take" => Taken' = Taken
  BY <1>11, <1>12, <1>13, <1>15
<1>17. l = "take" => Taken' = [Taken EXCEPT ![g] = Contents[k]]
  BY <1>11, <1>14, <1>15
<1> QED
  BY <1>3, <1>9, <1>10, <1>12, <1>16, <1>17

\* What calls have seen stays right.
LEMMA MissedSeen ==
  ASSUME IInv, IInv', NEW g \in Goroutine, NEW l, NEW c, NEW n, NEW d, Missed(g, l, c, n, d),
         missLocked(d), d # Nil, e' \in [Goroutine -> Entry \cup {None}], SeenRight, SeenStep
  PROVE  SeenRight'
<1> DEFINE k == call[g].key
<1>1. /\ TypeOK /\ Maps /\ Stages /\ Phases /\ Owners /\ TypeOK' /\ Maps'
      /\ \A h \in Goroutine : h # g => pc'[h] = pc[h] /\ call'[h] = call[h] /\ e'[h] = e[h]
      /\ pc'[g] = l /\ call'[g] = c /\ e'[g] = n /\ None \notin Entry
      /\ \/ read' = read /\ dirty' = d /\ Dirty' = d
         \/ read' = [m |-> d, amended |-> FALSE] /\ dirty' = Nil /\ DOMAIN Dirty' = {}
  BY MissedIs DEF IInv
<1>2. /\ pc[g] = "lock" /\ \A j \in DOMAIN d : d[j] = Dirty[j]
      /\ \/ n = None /\ k \notin DOMAIN Dirty
         \/ /\ k \in DOMAIN Dirty /\ n = Dirty[k] /\ c = call[g]
            /\ \/ l = "load" /\ k \in DOMAIN d
               \/ l = "take" /\ k \notin DOMAIN d
      /\ \A y \in Entry : InMaps(y)' \/ (\E h \in Goroutine : e'[h] = y) => p'[y] = p[y]
  BY DEF Missed
<1>3. /\ \A y : InMaps(y)' => InMaps(y)
      /\ \A y \in Entry : InMaps(y) /\ ~InMaps(y)' =>
           \/ p[y] = Expunged
           \/ k \in DOMAIN Dirty \ DOMAIN read.m /\ y = Dirty[k] /\ n = y /\ l = "take"
  BY MissedLeaves
<1>4. l = "take" => Contents' = [Contents EXCEPT ![k] = Nil]
  BY MissedMapped
<1>5. \A y : InMaps(y)' <=> \/ \E j \in DOMAIN read'.m : read'.m[j] = y
                            \/ \E j \in DOMAIN Dirty' : Dirty'[j] = y
  BY DEF InMaps, Range
<1>6. ContentsRight /\ call[g] \in Call
  BY <1>1, <1>2, ContentsAt DEF Phases, TypeOK
<1>7. k \in Key /\ DOMAIN Contents = Key
  BY <1>6 DEF Call, ContentsRight
<1>8. ASSUME NEW h \in Goroutine, NEW y \in Entry, e'[h] = y, ~InMaps(y)'
      PROVE  /\ call[h] # None /\ call'[h] = call[h]
             /\ Nil \in seen[h] \/ Contents'[call[h].key] = Nil
             /\ Live(p'[y]) => p'[y] \in seen[h]
  <2>1. p'[y] = p[y]
    BY <1>2, <1>8
  <2>2. CASE h = g
    <3>1. n = y /\ l = "take" /\ k \in DOMAIN Dirty /\ n = Dirty[k] /\ c = call[g]
      BY <1>1, <1>2, <1>5, <1>8, <2>2
    <3>2. call[g] # None
      BY <1>1, <1>2 DEF Phases
    <3>3. Contents'[k] = Nil
      BY <1>4, <1>7, <3>1
    <3>4. Contents[k] = Val(p[y])
      BY <1>6, <1>7, <3>1 DEF ContentsRight, Has
    <3>5. Val(p[y]) \in seen[g]
      BY <3>2, <3>4 DEF SeenRight
    <3> QED
      BY <1>1, <2>1, <2>2, <3>1, <3>2, <3>3, <3>5 DEF Val
  <2>3. CASE h # g
    <3>1. e[h] = y /\ call'[h] = call[h] /\ e[h] # None
      BY <1>1, <1>8, <2>3
    <3>2. call[h] # None
      BY <1>1, <3>1 DEF Phases
    <3>3. Val(p[y]) \in seen[h]
      BY <3>1, ReadsSeen
    <3>4. CASE ~InMaps(y)
      BY <2>1, <3>1, <3>2, <3>4 DEF SeenRight
    <3>5. CASE p[y] = Expunged
      BY <2>1, <3>1, <3>2, <3>3, <3>5 DEF Val, Live
    <3>6. CASE k \in DOMAIN Dirty /\ y = Dirty[k] /\ l = "take"
      <4>1. call[h].key = k
        BY <1>1, <3>1, <3>6 DEF Owners
      <4>2. Contents'[k] = Nil
        BY <1>4, <1>7, <3>6
      <4> QED
        BY <2>1, <3>1, <3>2, <3>3, <4>1, <4>2 DEF Val
    <3> QED
      BY <1>3, <1>8, <3>4, <3>5, <3>6
  <2> QED
    BY <2>2, <2>3
<1> QED
  BY <1>1, <1>8, SeenKeeps

\* A Load goes on, a Delete takes the entry from dirty, or a call returns.
LEMMA MissedLinear ==
  ASSUME IInv, IInv', NEW g \in Goroutine, NEW l, NEW c, NEW n, NEW d, Missed(g, l, c, n, d),
         missLocked(d), d # Nil, e' \in [Goroutine -> Entry \cup {None}],
         \/ l = "load" /\ c = call[g] /\ out' = out
         \/ l = "take" /\ c = call[g] /\ out' = out /\ call[g].op = "Delete"
         \/ /\ l = "idle" /\ c = None /\ out' = [out EXCEPT ![g] = Nil]
            /\ call[g].op \in {"Load", "Delete"} /\ ~InDirty(call[g].key)
  PROVE  Linear
<1> SUFFICES ASSUME SeenRight, SeenStep PROVE SeenRight' /\ Step
  BY DEF Linear
<1>1. SeenRight'
  BY MissedSeen
<1>2. /\ l # "take" => Contents' = Contents /\ Taken' = Taken
      /\ l = "take" => /\ Contents' = [Contents EXCEPT ![call[g].key] = Nil]
                       /\ Contents[call[g].key] # Nil
                       /\ Taken' = [Taken EXCEPT ![g] = Contents[call[g].key]]
      /\ Taken[g] = Nil
      /\ call' = [call EXCEPT ![g] = c]
  BY MissedMapped
<1>3. TypeOK /\ pc[g] = "lock" /\ call[g] # None
  BY DEF IInv, Missed, Phases
<1>4. c = call[g] => call' = call
  BY <1>2, <1>3 DEF TypeOK
<1>5. CASE l = "load" /\ c = call[g] /\ out' = out
  BY <1>1, <1>2, <1>3, <1>4, <1>5, MapsToNothing
<1>6. CASE l = "take" /\ c = call[g] /\ out' = out /\ call[g].op = "Delete"
  BY <1>1, <1>2, <1>3, <1>4, <1>6, MapsToTake
<1>7. CASE /\ l = "idle" /\ c = None /\ out' = [out EXCEPT ![g] = Nil]
           /\ call[g].op \in {"Load", "Delete"} /\ ~InDirty(call[g].key)
  <2>1. ~InRead(call[g].key)
    BY DEF Missed, InRead
  <2>2. Nil \in seen[g]
    BY <1>3, <1>7, <2>1, AbsentSeen
  <2>3. Nil \in Value \cup {Nil}
    OBVIOUS
  <2> QED
    BY <1>1, <1>2, <1>3, <1>7, <2>2, <2>3, MapsToReturnRead
<1> QED
  BY <1>5, <1>6, <1>7

\* The key is in read by now, or nowhere.
LEMMA LockedInRead ==
  ASSUME IInv, NEW g \in Goroutine, NEW l, pc[g] = "lock",
         UNCHANGED <<mu, todo, cur>>, UNCHANGED <<read, dirty, misses>>, Heap(p),
         \/ /\ InRead(call[g].key) /\ Found(g, read.m[call[g].key], l)
            /\ UNCHANGED <<call, old, out>>
            /\ \/ l = "load" /\ call[g].op = "Load"
               \/ l = "take" /\ call[g].op = "Delete"
         \/ /\ ~InRead(call[g].key) /\ ~read.amended /\ call[g].op \in {"Load", "Delete"}
            /\ Result(g, Nil)
  PROVE  IInv' /\ Linear
<1> DEFINE k == call[g].key
<1>1. /\ TypeOK /\ e[g] = None /\ call[g] \in Call /\ None \notin Entry \cup Call
      /\ UNCHANGED maps
  BY Basics DEF IInv, Phases, TypeOK, maps
<1>2. CASE /\ InRead(k) /\ Found(g, read.m[k], l) /\ UNCHANGED <<call, old, out>>
           /\ \/ l = "load" /\ call[g].op = "Load"
              \/ l = "take" /\ call[g].op = "Delete"
  <2>1. read.m[k] \in Entry /\ k \in DOMAIN read.m
    BY <1>1, <1>2, Basics DEF InRead
  <2>2. /\ Moves(g, l, call[g], read.m[k]) /\ FitsAt(g, l, call[g], read.m[k])
        /\ e' \in [Goroutine -> Entry \cup {None}]
    BY <1>1, <1>2, <2>1 DEF Moves, FitsAt, Found, Goto, PC, TypeOK
  <2>3. \A y : InMaps(y)' <=> InMaps(y)
    BY <1>1, SameMaps
  <2>4. /\ \A y \in Entry : InMaps(y) \/ (\E h \in Goroutine : e'[h] = y) => p'[y] = p[y]
        /\ p' \in [Entry -> Value \cup {Nil, Expunged}]
    BY <1>1, <2>2, <2>3, HeapIs DEF TypeOK
  <2>5. Local(g, l, call[g], read.m[k], None, Nil)
    BY <1>1, <2>1, <2>2, <2>4 DEF Local
  <2>6. old' \in [Goroutine -> Value \cup {Nil}] /\ out' \in [Goroutine -> Value \cup {Nil}]
    BY <1>1, <1>2 DEF TypeOK
  <2>7. IInv'
    BY <1>1, <2>1, <2>4, <2>5, <2>6, LocalKeeps
  <2> QED
    BY <1>2, <2>5, <2>7, LocalQuiet
<1>3. CASE /\ ~InRead(k) /\ ~read.amended /\ call[g].op \in {"Load", "Delete"}
           /\ Result(g, Nil)
  <2>0. Return(g) /\ out' \in [Goroutine -> Value \cup {Nil}]
    BY <1>1, <1>3 DEF Result, TypeOK
  <2>1. \A y : InMaps(y)' <=> InMaps(y)
    BY <1>1, SameMaps
  <2>2. /\ \A y \in Entry : InMaps(y) \/ (\E h \in Goroutine : e'[h] = y) => p'[y] = p[y]
        /\ p' \in [Entry -> Value \cup {Nil, Expunged}]
    BY <1>1, <2>0, <2>1, HeapIs, ReturnIs DEF TypeOK
  <2>3. Local(g, "idle", None, None, None, Nil)
    BY <1>1, <2>0, <2>2, ReturnIs DEF Local
  <2>4. IInv'
    BY <1>1, <2>0, <2>2, <2>3, ReturnIs, LocalKeeps
  <2>5. ~InDirty(k) /\ call[g] # None
    BY <1>1, <1>3 DEF IInv, Stages, InRead, InDirty
  <2>6. SeenRight => Nil \in seen[g]
    BY <1>3, <2>5, AbsentSeen
  <2>7. out' = [out EXCEPT ![g] = Nil] /\ Taken[g] = Nil /\ Nil \in Value \cup {Nil}
    BY <1>3, TakenIs DEF Result
  <2> QED
    BY <1>3, <2>3, <2>4, <2>6, <2>7, LocalReturns
<1> QED
  BY <1>2, <1>3

\* It is not in read, but may be in dirty.
LEMMA LockedMisses ==
  ASSUME IInv, NEW g \in Goroutine, NEW l, NEW d, pc[g] = "lock", mu = None,
         UNCHANGED <<mu, todo, cur>>, ~InRead(call[g].key), read.amended, missLocked(d), Heap(p),
         \/ l = "load" /\ call[g].op = "Load" /\ d = Dirty
         \/ l = "take" /\ call[g].op = "Delete" /\ d = Without(Dirty, call[g].key),
         IF InDirty(call[g].key) THEN Found(g, Dirty[call[g].key], l) /\ UNCHANGED <<call, old, out>>
                                 ELSE Result(g, Nil)
  PROVE  IInv' /\ Linear
<1> DEFINE k == call[g].key
<1>1. /\ TypeOK /\ e[g] = None /\ call[g] \in Call /\ None \notin Entry \cup Call
  BY Basics DEF IInv, Phases, TypeOK
<1>2. /\ dirty # Nil /\ Dirty = dirty /\ DOMAIN Dirty \subseteq Key /\ Range(Dirty) \subseteq Entry
  BY <1>1, Basics DEF IInv, Stages, TypeOK
<1>3. /\ d # Nil /\ DOMAIN d \subseteq Key /\ Range(d) \subseteq Entry
      /\ DOMAIN d \subseteq DOMAIN Dirty /\ DOMAIN Dirty \ {k} \subseteq DOMAIN d
      /\ \A j \in DOMAIN d : d[j] = Dirty[j]
      /\ l = "load" /\ k \in DOMAIN Dirty => k \in DOMAIN d
      /\ l = "take" => k \notin DOMAIN d
  <2>1. CASE l = "load" /\ d = Dirty
    BY <1>2, <2>1
  <2>2. CASE l = "take" /\ d = Without(Dirty, k)
    <3> HIDE DEF k
    <3>1. /\ DOMAIN Without(Dirty, k) = DOMAIN Dirty \ {k}
          /\ \A j \in DOMAIN Dirty : j # k => Without(Dirty, k)[j] = Dirty[j]
          /\ DOMAIN Without(Dirty, k) \subseteq Key /\ Range(Without(Dirty, k)) \subseteq Entry
          /\ Without(Dirty, k) # Nil
      <4>1. PICK D : D = Dirty
        OBVIOUS
      <4>2. PICK K : K = k
        OBVIOUS
      <4>3. DOMAIN D \subseteq Key /\ Range(D) \subseteq Entry
        BY <1>2, <4>1
      <4>4. /\ DOMAIN Without(D, K) = DOMAIN D \ {K}
            /\ \A j \in DOMAIN D : j # K => Without(D, K)[j] = D[j]
            /\ DOMAIN Without(D, K) \subseteq Key /\ Range(Without(D, K)) \subseteq Entry
            /\ Without(D, K) # Nil
        BY <4>3, WithoutIs
      <4> QED
        BY <4>1, <4>2, <4>4
    <3> QED
      BY <2>2, <3>1
  <2> QED
    BY <2>1, <2>2
<1>4. CASE InDirty(k) /\ Found(g, Dirty[k], l) /\ UNCHANGED <<call, old, out>>
  <2>1. Dirty[k] \in Entry /\ k \in DOMAIN Dirty
    BY <1>1, <1>4, Basics DEF InDirty
  <2>2. /\ Moves(g, l, call[g], Dirty[k]) /\ FitsAt(g, l, call[g], Dirty[k])
        /\ e' \in [Goroutine -> Entry \cup {None}]
    BY <1>1, <1>4, <2>1 DEF Moves, FitsAt, Found, Goto, PC, TypeOK
  <2>3. /\ \A y \in Entry : InMaps(y)' \/ (\E h \in Goroutine : e'[h] = y) => p'[y] = p[y]
        /\ p' \in [Entry -> Value \cup {Nil, Expunged}]
    BY <1>1, <2>2, HeapIs DEF TypeOK
  <2>4. Missed(g, l, call[g], Dirty[k], d)
    BY <1>1, <1>3, <2>1, <2>2, <2>3 DEF Missed, InRead
  <2>5. old' \in [Goroutine -> Value \cup {Nil}] /\ out' \in [Goroutine -> Value \cup {Nil}]
    BY <1>1, <1>4 DEF TypeOK
  <2>6. IInv'
    BY <1>1, <1>3, <2>1, <2>2, <2>3, <2>4, <2>5, MissedKeeps
  <2> QED
    BY <1>3, <1>4, <2>2, <2>4, <2>6, MissedLinear
<1>5. CASE ~InDirty(k) /\ Result(g, Nil)
  <2>1. Return(g) /\ out' \in [Goroutine -> Value \cup {Nil}]
    BY <1>1, <1>5 DEF Result, TypeOK
  <2>2. /\ \A y \in Entry : InMaps(y)' \/ (\E h \in Goroutine : e'[h] = y) => p'[y] = p[y]
        /\ p' \in [Entry -> Value \cup {Nil, Expunged}]
    BY <1>1, <2>1, HeapIs, ReturnIs DEF TypeOK
  <2>3. Missed(g, "idle", None, None, d)
    BY <1>1, <1>3, <1>5, <2>1, <2>2, ReturnIs DEF Missed, InRead, InDirty
  <2>4. IInv'
    BY <1>1, <1>3, <2>1, <2>2, <2>3, ReturnIs, MissedKeeps
  <2>5. e' \in [Goroutine -> Entry \cup {None}] /\ out' = [out EXCEPT ![g] = Nil]
    BY <1>1, <1>5, <2>1, ReturnIs DEF Result
  <2>6. call[g].op \in {"Load", "Delete"}
    OBVIOUS
  <2> QED
    BY <1>3, <1>5, <2>3, <2>4, <2>5, <2>6, MissedLinear
<1> QED
  BY <1>4, <1>5

\* Load under mu.
LEMMA LoadLockedKeeps ==
  ASSUME IInv, NEW g \in Goroutine, LoadLocked(g)
  PROVE  IInv' /\ Linear
<1> DEFINE k == call[g].key
<1>1. pc[g] = "lock" /\ call[g].op = "Load" /\ mu = None /\ UNCHANGED <<mu, todo, cur>> /\ Heap(p)
  BY DEF LoadLocked
<1>2. CASE InRead(k) /\ Found(g, read.m[k], "load") /\ UNCHANGED <<read, dirty, misses, call, old, out>>
  BY <1>1, <1>2, LockedInRead
<1>3. CASE /\ ~InRead(k) /\ read.amended /\ missLocked(Dirty)
           /\ IF InDirty(k) THEN Found(g, Dirty[k], "load") /\ UNCHANGED <<call, old, out>>
                            ELSE Result(g, Nil)
  BY <1>1, <1>3, LockedMisses
<1>4. CASE ~InRead(k) /\ ~read.amended /\ Result(g, Nil) /\ UNCHANGED <<read, dirty, misses>>
  BY <1>1, <1>4, LockedInRead
<1> QED
  BY <1>2, <1>3, <1>4 DEF LoadLocked

\* Delete under mu.
LEMMA DeleteLockedKeeps ==
  ASSUME IInv, NEW g \in Goroutine, DeleteLocked(g)
  PROVE  IInv' /\ Linear
<1> DEFINE k == call[g].key
<1>1. pc[g] = "lock" /\ call[g].op = "Delete" /\ mu = None /\ UNCHANGED <<mu, todo, cur>> /\ Heap(p)
  BY DEF DeleteLocked
<1>2. CASE InRead(k) /\ Found(g, read.m[k], "take") /\ UNCHANGED <<read, dirty, misses, call, old, out>>
  BY <1>1, <1>2, LockedInRead
<1>3. CASE /\ ~InRead(k) /\ read.amended /\ missLocked(Without(Dirty, k))
           /\ IF InDirty(k) THEN Found(g, Dirty[k], "take") /\ UNCHANGED <<call, old, out>>
                            ELSE Result(g, Nil)
  BY <1>1, <1>3, LockedMisses
<1>4. CASE ~InRead(k) /\ ~read.amended /\ Result(g, Nil) /\ UNCHANGED <<read, dirty, misses>>
  BY <1>1, <1>4, LockedInRead
<1> QED
  BY <1>2, <1>3, <1>4 DEF DeleteLocked

-----------------------------------------------------------------------------
(***************************************************************************)
(* Store under mu.                                                         *)
(***************************************************************************)
\* g, under mu, adds entries of read to dirty, or the new entry x for its key,
\* and has no entry of its own afterwards or the one of read.
Filled(g, x) ==
  /\ mu \in {None, g} /\ pc[g] \in {"lock", "copy", "expunge"}
  /\ read' = [m |-> read.m, amended |-> read'.amended]
  /\ \A j \in DOMAIN Dirty : j \in DOMAIN Dirty' /\ Dirty'[j] = Dirty[j]
  /\ \A j \in DOMAIN Dirty' : \/ j \in DOMAIN Dirty
                              \/ j \in DOMAIN read.m /\ Dirty'[j] = read.m[j]
                              \/ j = call[g].key /\ j \notin DOMAIN read.m /\ Dirty'[j] = x
  /\ x # None => /\ x \in Entry /\ ~InMaps(x) /\ \A h \in Goroutine : e[h] # x
                 /\ call[g].key \in DOMAIN Dirty' /\ Dirty'[call[g].key] = x
  /\ x = None => \A j \in DOMAIN Dirty' : Dirty'[j] # None
  /\ \A y \in Entry : ~InMaps(y) /\ y # x => p'[y] = p[y]
  /\ \A h \in Goroutine : h # g => pc'[h] = pc[h] /\ call'[h] = call[h] /\ e'[h] = e[h]
  /\ \/ e'[g] = None /\ pc'[g] \in {"idle", "copy", "expunge"}
     \/ /\ call[g].key \in DOMAIN read.m /\ e'[g] = read.m[call[g].key]
        /\ call'[g] = call[g] /\ pc'[g] = "put" /\ p'[e'[g]] # Expunged

\* The two maps stay right.
LEMMA FilledMaps ==
  ASSUME IInv, NEW g \in Goroutine, NEW x, Filled(g, x)
  PROVE  Maps'
<1>1. TypeOK /\ Maps
  BY DEF IInv
<1>2. /\ read'.m = read.m /\ read' = [m |-> read'.m, amended |-> read'.amended]
      /\ \A j \in DOMAIN Dirty : j \in DOMAIN Dirty' /\ Dirty'[j] = Dirty[j]
      /\ \A j \in DOMAIN Dirty' : \/ j \in DOMAIN Dirty
                                  \/ j \in DOMAIN read.m /\ Dirty'[j] = read.m[j]
                                  \/ j = call[g].key /\ j \notin DOMAIN read.m /\ Dirty'[j] = x
  BY DEF Filled
<1>3. \A j \in DOMAIN Dirty' : Dirty'[j] # None
  BY <1>1, <1>2, Basics DEF Filled
<1>4. x # None => /\ \A j \in DOMAIN read.m : read.m[j] # x
                  /\ \A j \in DOMAIN Dirty : Dirty[j] # x
  BY <1>1, Basics DEF Filled
<1> QED
  BY <1>1, <1>2, <1>3, <1>4 DEF Maps

\* So do the goroutines with an entry, none of which loses its entry.
LEMMA FilledOwners ==
  ASSUME IInv, NEW g \in Goroutine, NEW x, Filled(g, x), TypeOK'
  PROVE  Owners'
<1> DEFINE k == call[g].key
<1>1. TypeOK /\ Maps /\ Phases /\ Stages /\ Owners
  BY DEF IInv
<1>2. /\ read'.m = read.m /\ mu \in {None, g} /\ pc[g] \in {"lock", "copy", "expunge"}
      /\ \A j \in DOMAIN Dirty : j \in DOMAIN Dirty' /\ Dirty'[j] = Dirty[j]
      /\ \A j \in DOMAIN Dirty' : \/ j \in DOMAIN Dirty
                                  \/ j \in DOMAIN read.m /\ Dirty'[j] = read.m[j]
                                  \/ j = k /\ j \notin DOMAIN read.m /\ Dirty'[j] = x
      /\ x # None => /\ x \in Entry /\ ~InMaps(x) /\ \A h \in Goroutine : e[h] # x
                     /\ k \in DOMAIN Dirty' /\ Dirty'[k] = x
      /\ x = None => \A j \in DOMAIN Dirty' : Dirty'[j] # None
      /\ \A y \in Entry : ~InMaps(y) /\ y # x => p'[y] = p[y]
  BY DEF Filled
<1>3. /\ \A h \in Goroutine : h # g => pc'[h] = pc[h] /\ call'[h] = call[h] /\ e'[h] = e[h]
      /\ \/ e'[g] = None /\ pc'[g] \in {"idle", "copy", "expunge"}
         \/ /\ k \in DOMAIN read.m /\ e'[g] = read.m[k]
            /\ call'[g] = call[g] /\ pc'[g] = "put" /\ p'[e'[g]] # Expunged
  BY DEF Filled
<1>4. /\ \A j \in DOMAIN read.m : read.m[j] \in Entry /\ InMaps(read.m[j])
      /\ \A j \in DOMAIN Dirty : Dirty[j] \in Entry /\ InMaps(Dirty[j])
      /\ None \notin Entry \cup Goroutine
  BY <1>1, Basics
<1>5. e[g] = None /\ \A h \in Goroutine : h # g => pc[h] # "put"
  BY <1>1, <1>2, <1>4 DEF Phases
<1>6. \A h \in Goroutine, j \in DOMAIN read.m : read.m[j] = e'[h] => j = call'[h].key
  BY <1>1, <1>3, <1>4 DEF Owners, Maps
<1>7. ASSUME NEW h \in Goroutine, NEW j \in DOMAIN Dirty', Dirty'[j] = e'[h]
      PROVE  j = call'[h].key /\ (j \notin DOMAIN read.m => pc'[h] = "load")
  <2>1. CASE j \in DOMAIN Dirty
    BY <1>1, <1>2, <1>3, <1>4, <1>7, <2>1 DEF Owners, Maps
  <2>2. CASE j \in DOMAIN read.m /\ Dirty'[j] = read.m[j]
    BY <1>6, <1>7, <2>2
  <2>3. CASE j = k /\ j \notin DOMAIN read.m /\ Dirty'[j] = x
    BY <1>2, <1>3, <1>4, <1>7, <2>3
  <2> QED
    BY <1>2, <2>1, <2>2, <2>3
<1>8. \A h \in Goroutine : pc'[h] = "put" =>
        call'[h].key \in DOMAIN read.m /\ e'[h] = read.m[call'[h].key] /\ p'[e'[h]] # Expunged
  BY <1>3, <1>5
<1>9. \A y : InMaps(y) => InMaps(y)'
  <2>1. \A y : InMaps(y) <=> \/ \E j \in DOMAIN read.m : read.m[j] = y
                             \/ \E j \in DOMAIN Dirty : Dirty[j] = y
    BY <1>1, Basics
  <2>2. \A y : InMaps(y)' <=> \/ \E j \in DOMAIN read'.m : read'.m[j] = y
                              \/ \E j \in DOMAIN Dirty' : Dirty'[j] = y
    BY DEF InMaps, Range
  <2> QED
    BY <1>2, <2>1, <2>2
<1>10. x # None => InMaps(x)'
  <2>1. \A y : InMaps(y)' <=> \/ \E j \in DOMAIN read'.m : read'.m[j] = y
                              \/ \E j \in DOMAIN Dirty' : Dirty'[j] = y
    BY DEF InMaps, Range
  <2> QED
    BY <1>2, <2>1
<1>11. ASSUME NEW h \in Goroutine, NEW y \in Entry, e'[h] = y, ~InMaps(y)', p'[y] # Expunged
       PROVE  /\ pc'[h] \notin {"try", "cas", "put"}
              /\ \A i \in Goroutine :
                   e'[i] = y /\ pc'[h] \in {"take", "clear"} /\ pc'[i] \in {"take", "clear"} => i = h
              /\ Live(p'[y]) => \E i \in Goroutine : e'[i] = y /\ pc'[i] \in {"take", "clear"}
  <2>1. ~InMaps(y) /\ y # x /\ p'[y] = p[y]
    BY <1>2, <1>4, <1>9, <1>10, <1>11
  <2>2. e'[g] # y /\ e[g] # y
    BY <1>3, <1>4, <1>5, <2>1
  <2>3. \A i \in Goroutine : (e'[i] = y <=> e[i] = y) /\ (e'[i] = y => pc'[i] = pc[i])
    BY <1>3, <2>2
  <2>4. /\ pc[h] \notin {"try", "cas", "put"}
        /\ \A i \in Goroutine :
             e[i] = y /\ pc[h] \in {"take", "clear"} /\ pc[i] \in {"take", "clear"} => i = h
        /\ Live(p[y]) => \E i \in Goroutine : e[i] = y /\ pc[i] \in {"take", "clear"}
    BY <1>1, <1>11, <2>1, <2>3 DEF Owners
  <2> QED
    BY <1>11, <2>1, <2>3, <2>4
<1> QED
  BY <1>2, <1>6, <1>7, <1>8, <1>11 DEF Owners

\* What Filled means for the entries, for what Deletes have taken and for
\* what calls have seen.
LEMMA FilledMapped ==
  ASSUME IInv, IInv', NEW g \in Goroutine, NEW x, Filled(g, x)
  PROVE  /\ \A j \in Key, y \in Entry : Has(j, y) => Has(j, y)'
         /\ \A j \in Key : ~InRead(j) /\ ~InDirty(j) /\ j # call[g].key => ~InRead(j)' /\ ~InDirty(j)'
         /\ x = None => \A j \in Key : ~InRead(j) /\ ~InDirty(j) => ~InRead(j)' /\ ~InDirty(j)'
         /\ Taken' = Taken
         /\ SeenRight /\ SeenStep => SeenRight'
<1> DEFINE k == call[g].key
<1>1. /\ TypeOK /\ Maps /\ Phases /\ Stages /\ Owners /\ TypeOK' /\ Maps' /\ None \notin Entry
  BY Basics DEF IInv
<1>2. /\ read'.m = read.m /\ mu \in {None, g} /\ pc[g] \in {"lock", "copy", "expunge"}
      /\ \A j \in DOMAIN Dirty : j \in DOMAIN Dirty' /\ Dirty'[j] = Dirty[j]
      /\ \A j \in DOMAIN Dirty' : \/ j \in DOMAIN Dirty
                                  \/ j \in DOMAIN read.m /\ Dirty'[j] = read.m[j]
                                  \/ j = k /\ j \notin DOMAIN read.m /\ Dirty'[j] = x
      /\ x # None => /\ x \in Entry /\ ~InMaps(x) /\ \A h \in Goroutine : e[h] # x
                     /\ k \in DOMAIN Dirty' /\ Dirty'[k] = x
      /\ x = None => \A j \in DOMAIN Dirty' : Dirty'[j] # None
      /\ \A y \in Entry : ~InMaps(y) /\ y # x => p'[y] = p[y]
  BY DEF Filled
<1>3. /\ \A h \in Goroutine : h # g => pc'[h] = pc[h] /\ call'[h] = call[h] /\ e'[h] = e[h]
      /\ \/ e'[g] = None /\ pc'[g] \in {"idle", "copy", "expunge"}
         \/ /\ k \in DOMAIN read.m /\ e'[g] = read.m[k]
            /\ call'[g] = call[g] /\ pc'[g] = "put" /\ p'[e'[g]] # Expunged
  BY DEF Filled
<1>4. \A j \in Key, y \in Entry : Has(j, y) => Has(j, y)'
  BY <1>2 DEF Has
<1>5. /\ \A j \in Key : ~InRead(j) /\ ~InDirty(j) /\ j # k => ~InRead(j)' /\ ~InDirty(j)'
      /\ x = None => \A j \in Key : ~InRead(j) /\ ~InDirty(j) => ~InRead(j)' /\ ~InDirty(j)'
  BY <1>2 DEF InRead, InDirty
<1>6. /\ \A y : InMaps(y) <=> \/ \E j \in DOMAIN read.m : read.m[j] = y
                              \/ \E j \in DOMAIN Dirty : Dirty[j] = y
      /\ \A y : InMaps(y)' <=> \/ \E j \in DOMAIN read'.m : read'.m[j] = y
                               \/ \E j \in DOMAIN Dirty' : Dirty'[j] = y
  BY DEF InMaps, Range
<1>7. \A y : InMaps(y) => InMaps(y)'
  BY <1>2, <1>6
<1>8. x # None => InMaps(x)'
  BY <1>2, <1>6
<1>9. \A y \in Entry : InMaps(y)' => InMaps(y) \/ y = x
  BY <1>2, <1>6
<1>10. ASSUME NEW h \in Goroutine
       PROVE  Taken'[h] = Taken[h]
  <2>1. CASE h = g
    BY <1>2, <1>3, <2>1, TakenIs, TakenAfter
  <2>2. CASE h # g /\ pc[h] \in {"take", "clear"}
    <3>1. PICK y \in Entry : y = e[h]
      BY <1>1, <2>2 DEF Phases, TypeOK
    <3>2. y # x
      BY <1>1, <1>2, <3>1
    <3>3. /\ pc'[h] = pc[h] /\ e'[h] = y /\ (InMaps(y)' <=> InMaps(e[h])')
      BY <1>3, <2>2, <3>1, TakenAfter
    <3>4. (InMaps(y)' <=> InMaps(y)) /\ (~InMaps(y) => p'[y] = p[y])
      BY <1>2, <1>7, <1>9, <3>2
    <3> QED
      BY <2>2, <3>1, <3>3, <3>4, TakenIs, TakenAfter
  <2>3. CASE h # g /\ pc[h] \notin {"take", "clear"}
    BY <1>3, <2>3, TakenIs, TakenAfter
  <2> QED
    BY <2>1, <2>2, <2>3
<1>11. Taken' = Taken
  <2>1. /\ Taken = [h \in Goroutine |-> Taken[h]] /\ Taken' = [h \in Goroutine |-> Taken'[h]]
    BY DEF Taken
  <2> QED
    BY <1>10, <2>1
<1>12. ASSUME SeenRight, SeenStep
       PROVE  SeenRight'
  <2>1. ASSUME NEW h \in Goroutine, NEW y \in Entry, e'[h] = y, ~InMaps(y)'
        PROVE  /\ call[h] # None /\ call'[h] = call[h]
               /\ Nil \in seen[h] \/ Contents'[call[h].key] = Nil
               /\ Live(p'[y]) => p'[y] \in seen[h]
    <3>1. ~InMaps(y) /\ y # x /\ p'[y] = p[y]
      BY <1>1, <1>2, <1>7, <1>8, <2>1
    <3>2. h # g
      BY <1>1, <1>3, <1>6, <2>1, <3>1
    <3>3. e[h] = y /\ call'[h] = call[h] /\ e[h] # None
      BY <1>1, <1>3, <2>1, <3>2
    <3>4. call[h] # None
      BY <1>1, <3>3 DEF Phases
    <3> QED
      BY <1>12, <3>1, <3>3, <3>4 DEF SeenRight
  <2> QED
    BY <1>1, <1>12, <2>1, SeenKeeps
<1> QED
  BY <1>4, <1>5, <1>11, <1>12

\* Entries of read go to dirty, or are expunged or unexpunged: no caller can tell.
LEMMA FilledQuiet ==
  ASSUME IInv, IInv', NEW g \in Goroutine, Filled(g, None), call' = call, out' = out,
         \A y \in Entry : Val(p'[y]) = Val(p[y])
  PROVE  Linear
<1> SUFFICES ASSUME SeenRight, SeenStep PROVE SeenRight' /\ Step
  BY DEF Linear
<1>1. TypeOK /\ Maps /\ TypeOK' /\ Maps'
  BY DEF IInv
<1>2. /\ \A j \in Key, y \in Entry : Has(j, y) => Has(j, y)'
      /\ \A j \in Key : ~InRead(j) /\ ~InDirty(j) => ~InRead(j)' /\ ~InDirty(j)'
      /\ Taken' = Taken /\ SeenRight'
  BY FilledMapped
<1>3. Contents' = Contents
  BY <1>1, <1>2, ContentsStay
<1> QED
  BY <1>1, <1>2, <1>3, MapsToNothing

\* A Store takes effect on z, the entry of its key afterwards.
LEMMA FilledWrites ==
  ASSUME IInv, IInv', NEW g \in Goroutine, NEW x, Filled(g, x), NEW z \in Entry, NEW c \in Call,
         c = call[g], c.op = "Store", call' = [call EXCEPT ![g] = None], out' = out,
         Has(c.key, z)', p'[z] = c.val, \A y \in Entry : y # z => Val(p'[y]) = Val(p[y])
  PROVE  Linear
<1> SUFFICES ASSUME SeenRight, SeenStep PROVE SeenRight' /\ Step
  BY DEF Linear
<1>1. TypeOK /\ Maps /\ TypeOK' /\ Maps' /\ Nil \notin Value /\ Expunged \notin Value /\ c # None
  BY Basics DEF IInv
<1>2. /\ \A j \in Key, y \in Entry : Has(j, y) => Has(j, y)'
      /\ \A j \in Key : ~InRead(j) /\ ~InDirty(j) /\ j # call[g].key => ~InRead(j)' /\ ~InDirty(j)'
      /\ Taken' = Taken /\ SeenRight'
  BY FilledMapped
<1>3. PICK k \in Key, v \in Value : k = c.key /\ v = c.val
  BY DEF Call
<1>4. \A j \in Key : Has(j, z)' => j = k
  BY <1>1, <1>3 DEF Maps, Has
<1>5. Contents' = [Contents EXCEPT ![k] = v]
  <2>1. v \in Value \cup {Nil} /\ Has(k, z)' /\ Val(p'[z]) = v
    BY <1>1, <1>3 DEF Val, Live
  <2>2. \A j \in Key, y \in Entry : j # k /\ Has(j, y) => Val(p[y]) = Val(p'[y]) /\ Has(j, y)'
    BY <1>2, <1>4
  <2>3. \A j \in Key : j # k /\ ~InRead(j) /\ ~InDirty(j) => ~InRead(j)' /\ ~InDirty(j)'
    BY <1>2, <1>3
  <2> QED
    BY <1>1, <2>1, <2>2, <2>3, ContentsBecome
<1> QED
  BY <1>1, <1>2, <1>3, <1>5, MapsToWrite

\* What is known of a goroutine in lock with a Store.
LEMMA StoreWaits ==
  ASSUME IInv, NEW g \in Goroutine, pc[g] = "lock", call[g].op = "Store", mu = None
  PROVE  /\ TypeOK /\ Maps /\ Stages /\ Phases /\ Owners
         /\ call[g] \in Call /\ call[g].key \in Key /\ call[g].val \in Value /\ e[g] = None
         /\ ~Copying /\ Pending = {} /\ cur = None /\ todo = {}
         /\ (dirty # Nil <=> read.amended)
         /\ g # None /\ None \notin Entry \cup Goroutine
<1>1. TypeOK /\ Maps /\ Stages /\ Phases /\ Owners
  BY DEF IInv
<1>2. ~Copying /\ Pending = {} /\ cur = None
  BY <1>1 DEF Copying, Stages
<1>3. call[g] \in Call /\ e[g] = None /\ g # None /\ None \notin Entry \cup Goroutine
  BY <1>1, Basics DEF Phases, TypeOK
<1>4. call[g].key \in Key /\ call[g].val \in Value
  BY <1>3 DEF Call
<1>5. todo = {} /\ (dirty # Nil <=> read.amended)
  BY <1>1, <1>2 DEF Pending, Stages
<1> QED
  BY <1>1, <1>2, <1>3, <1>4, <1>5

\* Store finds its key in read.
LEMMA StoreInReadKeeps ==
  ASSUME IInv, NEW g \in Goroutine, StoreInRead(g)
  PROVE  IInv' /\ Linear
<1> DEFINE k == call[g].key
<1>1. /\ pc[g] = "lock" /\ call[g].op = "Store" /\ mu = None /\ k \in DOMAIN read.m /\ mu' = g
      /\ UNCHANGED <<read, misses, todo, cur, call, old, out>>
  BY DEF StoreInRead, InRead
<1>2. /\ TypeOK /\ Maps /\ Stages /\ Phases /\ Owners
      /\ call[g] \in Call /\ k \in Key /\ call[g].val \in Value /\ e[g] = None
      /\ ~Copying /\ Pending = {} /\ cur = None /\ todo = {}
      /\ (dirty # Nil <=> read.amended)
      /\ g # None /\ None \notin Entry \cup Goroutine
  BY <1>1, StoreWaits
<1>3. PICK n \in Entry : n = read.m[k]
  BY <1>1, <1>2, Basics
<1>4. /\ \A j \in DOMAIN read.m : read.m[j] \in Entry /\ (read.m[j] = n => j = k)
      /\ \A j \in DOMAIN Dirty : Dirty[j] \in Entry /\ (Dirty[j] = n => j = k)
      /\ Nil \notin Value /\ Expunged # Nil /\ Expunged \notin Value /\ InMaps(n)
  BY <1>1, <1>2, <1>3, Basics DEF Maps
<1>5. PICK D : D = Dirty
  OBVIOUS
<1>6. /\ Found(g, n, "put") /\ (dirty # Nil => dirty' # Nil) /\ (dirty = Nil => dirty' = Nil)
      /\ dirty' # Nil => DOMAIN dirty' \subseteq Key /\ Range(dirty') \subseteq Entry
      /\ p' = [p EXCEPT ![n] = IF p[n] = Expunged THEN Nil ELSE p[n]]
      /\ IF p[n] = Expunged
           THEN /\ DOMAIN Dirty' = DOMAIN Dirty \cup {k} /\ Dirty'[k] = n /\ dirty # Nil
                /\ \A j \in DOMAIN Dirty : Dirty'[j] = Dirty[j]
           ELSE Dirty' = Dirty
  <2>1. CASE p[n] = Expunged
    <3>1. dirty # Nil /\ k \notin DOMAIN Dirty
      BY <1>1, <1>2, <1>3, <2>1 DEF Stages, EntryStates, InDirty
    <3>2. dirty' = With(D, k, n) /\ Found(g, n, "put") /\ p' = [p EXCEPT ![n] = Nil]
      BY <1>3, <1>5, <2>1, <3>1 DEF StoreInRead, CopyOfRead, Dirty
    <3>3. DOMAIN D \subseteq Key /\ Range(D) \subseteq Entry
      BY <1>2, <1>5, <3>1 DEF TypeOK, Dirty
    <3>4. /\ DOMAIN With(D, k, n) = DOMAIN D \cup {k} /\ With(D, k, n)[k] = n
          /\ \A j \in DOMAIN D : j # k => With(D, k, n)[j] = D[j]
          /\ DOMAIN With(D, k, n) \subseteq Key /\ Range(With(D, k, n)) \subseteq Entry
          /\ With(D, k, n) # Nil
      <4>1. PICK K \in Key : K = k
        BY <1>2
      <4>2. /\ DOMAIN With(D, K, n) = DOMAIN D \cup {K} /\ With(D, K, n)[K] = n
            /\ \A j \in DOMAIN D : j # K => With(D, K, n)[j] = D[j]
            /\ DOMAIN With(D, K, n) \subseteq Key /\ Range(With(D, K, n)) \subseteq Entry
            /\ With(D, K, n) # Nil
        BY <3>3, WithIs
      <4> QED
        BY <4>1, <4>2
    <3>5. Dirty' = With(D, k, n)
      BY <3>2, <3>4 DEF Dirty
    <3> QED
      BY <1>5, <2>1, <3>1, <3>2, <3>4, <3>5
  <2>2. CASE p[n] # Expunged
    <3>1. dirty' = dirty /\ Dirty' = Dirty /\ Found(g, n, "put") /\ p' = p
      BY <1>3, <2>2 DEF StoreInRead, Dirty
    <3> QED
      BY <1>2, <2>2, <3>1 DEF TypeOK
  <2> QED
    BY <2>1, <2>2
<1>7. /\ pc' = [pc EXCEPT ![g] = "put"] /\ e' = [e EXCEPT ![g] = n]
      /\ pc'[g] = "put" /\ e'[g] = n
      /\ \A h \in Goroutine : h # g => pc'[h] = pc[h] /\ e'[h] = e[h]
  BY <1>2, <1>6 DEF Found, Goto, TypeOK
<1>8. TypeOK'
  BY <1>1, <1>2, <1>6, <1>7 DEF TypeOK, PC
<1>9. \A y \in Entry : p'[y] = IF y = n THEN (IF p[n] = Expunged THEN Nil ELSE p[n]) ELSE p[y]
  BY <1>2, <1>6 DEF TypeOK
<1>10. Filled(g, None)
  <2>1. /\ \A j \in DOMAIN Dirty : j \in DOMAIN Dirty' /\ Dirty'[j] = Dirty[j]
        /\ \A j \in DOMAIN Dirty' : \/ j \in DOMAIN Dirty
                                    \/ j \in DOMAIN read.m /\ Dirty'[j] = read.m[j]
    BY <1>1, <1>3, <1>6
  <2>2. read' = [m |-> read.m, amended |-> read'.amended]
    BY <1>1, <1>2 DEF Maps
  <2>3. \A j \in DOMAIN Dirty' : Dirty'[j] # None
    BY <1>2, <1>4, <2>1
  <2> QED
    BY <1>1, <1>3, <1>4, <1>7, <1>9, <2>1, <2>2, <2>3 DEF Filled
<1>11. Maps' /\ Owners'
  BY <1>8, <1>10, FilledMaps, FilledOwners
<1>12. ~Copying' /\ Pending' = {}
  BY <1>1, <1>2, <1>7 DEF Copying, Pending
<1>13. EntryStates'
  <2> SUFFICES ASSUME NEW j \in DOMAIN read.m
               PROVE  IF p'[read.m[j]] = Expunged THEN dirty' # Nil /\ j \notin DOMAIN Dirty'
                                                  ELSE dirty' = Nil \/ j \in DOMAIN Dirty'
    BY <1>1 DEF EntryStates, InDirty
  <2>1. IF p[read.m[j]] = Expunged THEN dirty # Nil /\ j \notin DOMAIN Dirty
                                   ELSE dirty = Nil \/ j \in DOMAIN Dirty
    BY <1>2 DEF Stages, EntryStates, InDirty
  <2>2. CASE j = k
    BY SMTT(30), <1>3, <1>4, <1>6, <1>9, <2>1, <2>2
  <2>3. CASE j # k
    <3>1. p'[read.m[j]] = p[read.m[j]]
      BY <1>4, <1>9, <2>3
    <3>2. j \in DOMAIN Dirty' <=> j \in DOMAIN Dirty
      BY <1>6, <2>3
    <3> QED
      BY <1>6, <2>1, <3>1, <3>2
  <2> QED
    BY <2>2, <2>3
<1>14. /\ \A j \in DOMAIN Dirty' : p'[Dirty'[j]] # Expunged
       /\ \A j \in DOMAIN Dirty' \ DOMAIN read.m : Live(p'[Dirty'[j]])
       /\ ~read.amended => DOMAIN Dirty' \subseteq DOMAIN read.m
  BY SMTT(30), <1>1, <1>2, <1>3, <1>4, <1>6, <1>9 DEF Stages
<1>15. Stages'
  BY <1>1, <1>2, <1>6, <1>7, <1>12, <1>13, <1>14 DEF Stages
<1>16. Phases'
  BY <1>1, <1>2, <1>3, <1>7 DEF Phases, NoNilMapWrite
<1>17. IInv'
  BY <1>8, <1>11, <1>15, <1>16 DEF IInv
<1>18. \A y \in Entry : Val(p'[y]) = Val(p[y])
  BY <1>9 DEF Val, Live
<1> QED
  BY <1>1, <1>10, <1>17, <1>18, FilledQuiet

\* Store finds its key in dirty.
LEMMA StoreInDirtyKeeps ==
  ASSUME IInv, NEW g \in Goroutine, StoreInDirty(g)
  PROVE  IInv' /\ Linear
<1>1. /\ pc[g] = "lock" /\ call[g].op = "Store" /\ mu = None
      /\ Return(g) /\ UNCHANGED <<maps, mu, out>>
  BY DEF StoreInDirty
<1>2. /\ TypeOK /\ Maps /\ Stages /\ Phases /\ Owners
      /\ call[g] \in Call /\ call[g].key \in Key /\ call[g].val \in Value /\ e[g] = None
      /\ ~Copying /\ Pending = {} /\ cur = None /\ todo = {}
      /\ (dirty # Nil <=> read.amended)
      /\ g # None /\ None \notin Entry \cup Goroutine
  BY <1>1, StoreWaits
<1>3. PICK k \in Key, v \in Value : k = call[g].key /\ v = call[g].val
  BY <1>2
<1>4. k \notin DOMAIN read.m /\ k \in DOMAIN Dirty /\ p' = [p EXCEPT ![Dirty[k]] = v]
  BY <1>3 DEF StoreInDirty, InRead, InDirty
<1>5. PICK n \in Entry : n = Dirty[k]
  BY <1>2, <1>4, Basics
<1>6. /\ UNCHANGED <<read, dirty, misses, todo, cur>> /\ Dirty' = Dirty /\ Pending' = Pending
      /\ \A j : (InDirty(j)' <=> InDirty(j)) /\ (InRead(j)' <=> InRead(j))
  BY <1>1, SameMaps
<1>7. /\ \A j \in DOMAIN read.m : read.m[j] \in Entry /\ read.m[j] # n
      /\ \A j \in DOMAIN Dirty : Dirty[j] \in Entry /\ (Dirty[j] = n => j = k)
      /\ Nil \notin Value /\ Expunged # Nil /\ Expunged \notin Value /\ InMaps(n)
  BY <1>2, <1>4, <1>5, Basics DEF Maps
<1>8. /\ pc' = [pc EXCEPT ![g] = "idle"] /\ call' = [call EXCEPT ![g] = None]
      /\ e' = [e EXCEPT ![g] = None]
      /\ pc'[g] = "idle" /\ call'[g] = None /\ e'[g] = None /\ old'[g] = Nil
      /\ \A h \in Goroutine : h # g =>
           pc'[h] = pc[h] /\ call'[h] = call[h] /\ e'[h] = e[h] /\ old'[h] = old[h]
      /\ old' \in [Goroutine -> Value \cup {Nil}]
  BY <1>1, <1>2 DEF Return, Goto, TypeOK
<1>9. TypeOK'
  BY <1>1, <1>2, <1>4, <1>6, <1>8 DEF TypeOK, PC
<1>10. \A y \in Entry : p'[y] = IF y = n THEN v ELSE p[y]
  BY <1>2, <1>4, <1>5 DEF TypeOK
<1>11. Filled(g, None)
  <2>1. read' = [m |-> read.m, amended |-> read'.amended]
    BY <1>2, <1>6 DEF Maps
  <2>2. \A j \in DOMAIN Dirty' : Dirty'[j] # None
    BY <1>2, <1>6, <1>7
  <2> QED
    BY <1>1, <1>6, <1>7, <1>8, <1>10, <2>1, <2>2 DEF Filled
<1>12. Maps' /\ Owners'
  BY <1>9, <1>11, FilledMaps, FilledOwners
<1>13. ~Copying'
  BY <1>1 DEF Copying
<1>14. EntryStates'
  BY <1>2, <1>6, <1>7, <1>10 DEF Stages, EntryStates
<1>15. /\ \A j \in DOMAIN Dirty' : p'[Dirty'[j]] # Expunged
       /\ \A j \in DOMAIN Dirty' \ DOMAIN read.m : Live(p'[Dirty'[j]])
  BY <1>2, <1>6, <1>7, <1>10 DEF Stages, Live
<1>16. Stages'
  BY <1>1, <1>2, <1>6, <1>13, <1>14, <1>15 DEF Stages
<1>17. Phases'
  BY <1>1, <1>2, <1>6, <1>8 DEF Phases, NoNilMapWrite
<1>18. IInv'
  BY <1>9, <1>12, <1>16, <1>17 DEF IInv
<1>19. PICK c \in Call : c = call[g]
  BY <1>2
<1>20. c.op = "Store" /\ c.key = k /\ c.val = v
  BY <1>1, <1>3, <1>19
<1>21. Has(k, n)'
  BY <1>4, <1>5, <1>6 DEF Has
<1>22. p'[n] = c.val /\ \A y \in Entry : y # n => Val(p'[y]) = Val(p[y])
  BY <1>10, <1>20
<1>23. Has(c.key, n)'
  BY <1>20, <1>21
<1> QED
  BY <1>1, <1>8, <1>11, <1>18, <1>19, <1>20, <1>22, <1>23, FilledWrites

\* What Insert does when there is a dirty map.
LEMMA InsertIs ==
  ASSUME TypeOK, Maps, NEW g \in Goroutine, NEW k \in Key, NEW v \in Value,
         k = call[g].key, v = call[g].val, dirty # Nil, Insert(g), k \notin DOMAIN Dirty
  PROVE  \E x \in Entry :
           /\ ~InMaps(x) /\ \A h \in Goroutine : e[h] # x
           /\ dirty' # Nil /\ DOMAIN dirty' \subseteq Key /\ Range(dirty') \subseteq Entry
           /\ Dirty' = dirty' /\ DOMAIN Dirty' = DOMAIN Dirty \cup {k} /\ Dirty'[k] = x
           /\ \A j \in DOMAIN Dirty : Dirty'[j] = Dirty[j]
           /\ p' = [p EXCEPT ![x] = v] /\ Return(g)
<1>1. PICK x \in Entry : x = Fresh /\ ~InMaps(x) /\ \A h \in Goroutine : e[h] # x
  BY FreshIs
<1>2. PICK D : D = dirty
  OBVIOUS
<1>3. D = Dirty /\ dirty' = With(D, k, x) /\ p' = [p EXCEPT ![x] = v] /\ Return(g)
  BY <1>1, <1>2 DEF Insert, Dirty
<1>4. DOMAIN D \subseteq Key /\ Range(D) \subseteq Entry
  BY <1>2 DEF TypeOK
<1>5. /\ DOMAIN With(D, k, x) = DOMAIN D \cup {k} /\ With(D, k, x)[k] = x
      /\ \A j \in DOMAIN D : j # k => With(D, k, x)[j] = D[j]
      /\ DOMAIN With(D, k, x) \subseteq Key /\ Range(With(D, k, x)) \subseteq Entry
      /\ With(D, k, x) # Nil
  <2>1. PICK K \in Key : K = k
    OBVIOUS
  <2>2. /\ DOMAIN With(D, K, x) = DOMAIN D \cup {K} /\ With(D, K, x)[K] = x
        /\ \A j \in DOMAIN D : j # K => With(D, K, x)[j] = D[j]
        /\ DOMAIN With(D, K, x) \subseteq Key /\ Range(With(D, K, x)) \subseteq Entry
        /\ With(D, K, x) # Nil
    BY <1>4, WithIs
  <2> QED
    BY <2>1, <2>2
<1>6. Dirty' = dirty'
  BY <1>3, <1>5 DEF Dirty
<1> QED
  BY <1>1, <1>3, <1>5, <1>6

\* Store puts a new entry in dirty.
LEMMA InsertKeeps ==
  ASSUME IInv, NEW g \in Goroutine, Insert(g), dirty # Nil,
         pc[g] \in {"lock", "copy"}, call[g].op = "Store", mu \in {None, g}, mu' = None,
         call[g].key \notin DOMAIN read.m, ~InDirty(call[g].key), todo = {}, cur = None,
         read' = [m |-> read.m, amended |-> TRUE], UNCHANGED <<misses, todo, cur, out>>
  PROVE  IInv' /\ Linear
<1>1. /\ TypeOK /\ Maps /\ Stages /\ Phases /\ Owners /\ Pending = {}
      /\ None \notin Entry \cup Goroutine /\ Nil \notin Value /\ Expunged # Nil /\ Expunged \notin Value
  BY Basics DEF IInv, Pending
<1>2. PICK c \in Call : c = call[g]
  BY <1>1 DEF Phases, TypeOK
<1>3. PICK k \in Key, v \in Value : k = call[g].key /\ v = call[g].val
  BY <1>2 DEF Call
<1>4. PICK x \in Entry :
        /\ ~InMaps(x) /\ \A h \in Goroutine : e[h] # x
        /\ dirty' # Nil /\ DOMAIN dirty' \subseteq Key /\ Range(dirty') \subseteq Entry
        /\ Dirty' = dirty' /\ DOMAIN Dirty' = DOMAIN Dirty \cup {k} /\ Dirty'[k] = x
        /\ \A j \in DOMAIN Dirty : Dirty'[j] = Dirty[j]
        /\ p' = [p EXCEPT ![x] = v] /\ Return(g)
  BY <1>1, <1>3, InsertIs DEF InDirty
<1>5. /\ pc' = [pc EXCEPT ![g] = "idle"] /\ call' = [call EXCEPT ![g] = None]
      /\ e' = [e EXCEPT ![g] = None]
      /\ pc'[g] = "idle" /\ call'[g] = None /\ e'[g] = None /\ old'[g] = Nil
      /\ \A h \in Goroutine : h # g =>
           pc'[h] = pc[h] /\ call'[h] = call[h] /\ e'[h] = e[h] /\ old'[h] = old[h]
      /\ old' \in [Goroutine -> Value \cup {Nil}]
  BY <1>1, <1>4 DEF Return, Goto, TypeOK
<1>6. read'.m = read.m /\ read'.amended = TRUE
  OBVIOUS
<1>7. TypeOK'
  <2>1. p' \in [Entry -> Value \cup {Nil, Expunged}]
    BY <1>1, <1>4 DEF TypeOK
  <2> QED
    BY <1>1, <1>4, <1>5, <1>6, <2>1 DEF TypeOK, PC
<1>8. /\ \A j \in DOMAIN read.m : read.m[j] \in Entry /\ read.m[j] # x
      /\ \A j \in DOMAIN Dirty : Dirty[j] \in Entry /\ Dirty[j] # x
  BY <1>1, <1>4, Basics
<1>9. \A y \in Entry : p'[y] = IF y = x THEN v ELSE p[y]
  BY <1>1, <1>4 DEF TypeOK
<1>10. k \notin DOMAIN read.m /\ k \notin DOMAIN Dirty
  BY <1>3 DEF InDirty
<1>11. Filled(g, x)
  BY <1>1, <1>3, <1>4, <1>5, <1>6, <1>8, <1>9, <1>10 DEF Filled
<1>12. Maps' /\ Owners'
  BY <1>7, <1>11, FilledMaps, FilledOwners
<1>13. ~Copying' /\ Pending' = {}
  BY <1>1 DEF Copying, Pending
<1>14. EntryStates'
  BY <1>1, <1>4, <1>6, <1>8, <1>9, <1>10 DEF Stages, EntryStates, InDirty
<1>15. /\ \A j \in DOMAIN Dirty' : p'[Dirty'[j]] # Expunged
       /\ \A j \in DOMAIN Dirty' \ DOMAIN read.m : Live(p'[Dirty'[j]])
  BY <1>1, <1>4, <1>8, <1>9, <1>10 DEF Stages, Live
<1>16. Stages'
  BY <1>1, <1>4, <1>6, <1>13, <1>14, <1>15 DEF Stages
<1>17. Phases'
  BY <1>1, <1>5, <1>6 DEF Phases, NoNilMapWrite
<1>18. IInv'
  BY <1>7, <1>12, <1>16, <1>17 DEF IInv
<1>19. c.op = "Store" /\ c.key = k /\ c.val = v
  BY <1>2, <1>3
<1>20. Has(k, x)'
  BY <1>4 DEF Has
<1>21. p'[x] = c.val /\ \A y \in Entry : y # x => Val(p'[y]) = Val(p[y])
  BY <1>9, <1>19
<1>22. Has(c.key, x)'
  BY <1>19, <1>20
<1> QED
  BY <1>2, <1>5, <1>11, <1>18, <1>19, <1>21, <1>22, FilledWrites

\* Store has filled the new dirty and inserts.
LEMMA StoreInsertKeeps ==
  ASSUME IInv, NEW g \in Goroutine, StoreInsert(g)
  PROVE  IInv' /\ Linear
<1>1. /\ pc[g] = "copy" /\ todo = {} /\ Insert(g) /\ mu' = None /\ read' = Amended(read)
      /\ UNCHANGED <<misses, todo, cur, out>>
  BY DEF StoreInsert
<1>2. TypeOK /\ Maps /\ Phases /\ Stages /\ g # None
  BY Basics DEF IInv
<1>3. mu = g /\ Copying
  BY <1>1, <1>2 DEF Phases, Copying
<1>4. /\ cur = None /\ dirty # Nil /\ call[g].op = "Store" /\ call[g].key \notin DOMAIN read.m
      /\ ~InDirty(call[g].key)
  BY <1>1, <1>2, <1>3 DEF Stages, Phases, InDirty
<1>5. read' = [m |-> read.m, amended |-> TRUE]
  BY <1>1, <1>2 DEF Amended, Maps
<1> QED
  BY <1>1, <1>3, <1>4, <1>5, InsertKeeps

\* Store finds its key nowhere, and inserts or starts to fill a new dirty.
LEMMA StoreNewKeeps ==
  ASSUME IInv, NEW g \in Goroutine, StoreNew(g)
  PROVE  IInv' /\ Linear
<1> DEFINE k == call[g].key
<1>1. /\ pc[g] = "lock" /\ call[g].op = "Store" /\ mu = None
      /\ k \notin DOMAIN read.m /\ ~InDirty(k) /\ UNCHANGED <<read, misses, cur, out>>
  BY DEF StoreNew, InRead
<1>2. /\ TypeOK /\ Maps /\ Stages /\ Phases /\ Owners
      /\ call[g] \in Call /\ k \in Key /\ call[g].val \in Value /\ e[g] = None
      /\ ~Copying /\ Pending = {} /\ cur = None /\ todo = {}
      /\ (dirty # Nil <=> read.amended)
      /\ g # None /\ None \notin Entry \cup Goroutine
  BY <1>1, StoreWaits
<1>3. CASE read.amended /\ Insert(g) /\ UNCHANGED <<mu, todo>>
  <2>1. read' = [m |-> read.m, amended |-> TRUE]
    <3>1. read.amended = TRUE
      BY <1>2, <1>3 DEF TypeOK
    <3> QED
      BY <1>1, <1>2, <3>1 DEF Maps
  <2> QED
    BY <1>1, <1>2, <1>3, <2>1, InsertKeeps
<1>4. CASE /\ ~read.amended /\ mu' = g
           /\ IF dirty = Nil THEN dirty' = NoKeys /\ todo' = DOMAIN read.m
                             ELSE UNCHANGED <<dirty, todo>>
           /\ Goto(g, "copy") /\ UNCHANGED <<p, call, e, old>>
  <2>1. /\ dirty' = NoKeys /\ todo' = DOMAIN read.m /\ DOMAIN Dirty = {} /\ DOMAIN Dirty' = {}
        /\ dirty' # Nil /\ DOMAIN dirty' = {} /\ Range(dirty') = {}
    BY <1>2, <1>4, NoKeysIs DEF Dirty
  <2>2. /\ pc' = [pc EXCEPT ![g] = "copy"] /\ pc'[g] = "copy"
        /\ \A h \in Goroutine : h # g => pc'[h] = pc[h]
    BY <1>2, <1>4 DEF Goto, TypeOK
  <2>3. TypeOK'
    BY <1>1, <1>2, <1>4, <2>1, <2>2 DEF TypeOK, PC
  <2>4. Filled(g, None)
    <3>1. read' = [m |-> read.m, amended |-> read'.amended]
      BY <1>1, <1>2 DEF Maps
    <3> QED
      BY <1>1, <1>2, <1>4, <2>1, <2>2, <3>1 DEF Filled
  <2>5. Maps' /\ Owners'
    BY <2>3, <2>4, FilledMaps, FilledOwners
  <2>6. Copying' /\ Pending' = DOMAIN read.m /\ cur' = None /\ read' = read
    BY <1>1, <1>2, <1>4, <2>1, <2>2 DEF Copying, Pending
  <2>7. EntryStates'
    BY <2>6 DEF EntryStates
  <2>8. Stages'
    <3>1. \A j \in DOMAIN read.m : p[read.m[j]] # Expunged
      BY <1>2, <1>4 DEF Stages, EntryStates
    <3>2. \A j \in Pending' : j \in DOMAIN read'.m /\ ~InDirty(j)' /\ p'[read'.m[j]] # Expunged
      BY <1>4, <2>1, <2>6, <3>1 DEF InDirty
    <3>3. cur' \notin todo'
      BY <1>2, <2>1, <2>6, Basics
    <3> QED
      BY <1>2, <1>4, <2>1, <2>2, <2>6, <2>7, <3>2, <3>3 DEF Stages
  <2>9. Phases'
    BY <1>1, <1>2, <1>4, <2>2 DEF Phases, NoNilMapWrite
  <2>10. IInv'
    BY <2>3, <2>5, <2>8, <2>9 DEF IInv
  <2> QED
    BY <1>1, <1>4, <2>4, <2>10, FilledQuiet
<1> QED
  BY <1>3, <1>4 DEF StoreNew

\* A step of the loop that fills dirty: it takes up a key, or decides on z.
Visited(g, l, z) ==
  /\ mu = g /\ pc[g] \in {"copy", "expunge"} /\ z \in Pending
  /\ pc' = [pc EXCEPT ![g] = l] /\ l \in {"copy", "expunge"}
  /\ cur' # None <=> l = "expunge"
  /\ todo' \subseteq todo /\ cur' \in Key \cup {None} /\ cur' \notin todo'
  /\ UNCHANGED <<read, misses, mu, call, e, old, out>>
  /\ \/ Pending' = Pending /\ UNCHANGED <<p, dirty>>
     \/ /\ Pending' = Pending \ {z} /\ p[read.m[z]] = Nil /\ dirty' = dirty
        /\ p' = [p EXCEPT ![read.m[z]] = Expunged]
     \/ Pending' = Pending \ {z} /\ p[read.m[z]] # Expunged /\ p' = p /\ dirty' = CopyOfRead(z)

\* A step of the loop keeps the invariant.
LEMMA VisitedKeeps ==
  ASSUME IInv, NEW g \in Goroutine, NEW l, NEW z, Visited(g, l, z)
  PROVE  IInv' /\ Linear
<1>1. /\ TypeOK /\ Maps /\ Stages /\ Phases /\ Owners
      /\ None \notin Entry \cup Goroutine /\ Nil \notin Value /\ Expunged # Nil /\ Expunged \notin Value
  BY Basics DEF IInv
<1>2. /\ mu = g /\ pc[g] \in {"copy", "expunge"} /\ z \in Pending
      /\ pc' = [pc EXCEPT ![g] = l] /\ l \in {"copy", "expunge"}
      /\ cur' # None <=> l = "expunge"
      /\ todo' \subseteq todo /\ cur' \in Key \cup {None} /\ cur' \notin todo'
      /\ UNCHANGED <<read, misses, mu, call, e, old, out>>
  BY DEF Visited
<1>3. /\ Copying /\ ~read.amended /\ dirty # Nil /\ Dirty = dirty
      /\ z \in DOMAIN read.m /\ z \notin DOMAIN Dirty
  BY <1>1, <1>2 DEF Copying, Stages, InDirty, Dirty
<1>4. PICK n \in Entry : n = read.m[z]
  BY <1>1, <1>3, Basics
<1>5. /\ \A j \in DOMAIN read.m : read.m[j] \in Entry /\ (read.m[j] = n => j = z)
      /\ \A j \in DOMAIN Dirty : Dirty[j] \in Entry /\ Dirty[j] # n
      /\ InMaps(n)
  BY <1>1, <1>3, <1>4, Basics DEF Maps
<1>6. PICK D : D = dirty
  OBVIOUS
<1>7. DOMAIN D \subseteq Key /\ Range(D) \subseteq Entry
  BY <1>1, <1>3, <1>6 DEF TypeOK
<1>8. PICK K \in Key : K = z
  BY <1>1, <1>3, Basics
<1>9. /\ DOMAIN With(D, K, n) = DOMAIN D \cup {K} /\ With(D, K, n)[K] = n
      /\ \A j \in DOMAIN D : j # K => With(D, K, n)[j] = D[j]
      /\ DOMAIN With(D, K, n) \subseteq Key /\ Range(With(D, K, n)) \subseteq Entry
      /\ With(D, K, n) # Nil
  BY <1>7, WithIs
<1>10. /\ dirty' # Nil /\ DOMAIN dirty' \subseteq Key /\ Range(dirty') \subseteq Entry
       /\ \A j \in DOMAIN Dirty : j \in DOMAIN Dirty' /\ Dirty'[j] = Dirty[j]
       /\ \A y \in Entry : y # n => p'[y] = p[y]
       /\ p' \in [Entry -> Value \cup {Nil, Expunged}]
       /\ \/ Pending' = Pending /\ DOMAIN Dirty' = DOMAIN Dirty /\ p' = p
          \/ Pending' = Pending \ {z} /\ DOMAIN Dirty' = DOMAIN Dirty /\ p'[n] = Expunged
          \/ /\ Pending' = Pending \ {z} /\ DOMAIN Dirty' = DOMAIN Dirty \cup {z}
             /\ Dirty'[z] = n /\ p'[n] # Expunged
  <2>1. CASE Pending' = Pending /\ UNCHANGED <<p, dirty>>
    BY <1>1, <1>3, <1>6, <1>7, <2>1 DEF Dirty, TypeOK
  <2>2. CASE /\ Pending' = Pending \ {z} /\ p[read.m[z]] = Nil /\ dirty' = dirty
             /\ p' = [p EXCEPT ![read.m[z]] = Expunged]
    <3>1. Dirty' = Dirty
      BY <2>2 DEF Dirty
    <3>2. /\ \A y \in Entry : p'[y] = IF y = n THEN Expunged ELSE p[y]
          /\ p' \in [Entry -> Value \cup {Nil, Expunged}]
      BY <1>1, <1>4, <2>2 DEF TypeOK
    <3> QED
      BY <1>3, <1>4, <1>6, <1>7, <2>2, <3>1, <3>2
  <2>3. CASE /\ Pending' = Pending \ {z} /\ p[read.m[z]] # Expunged /\ p' = p
             /\ dirty' = CopyOfRead(z)
    <3>1. dirty' = With(D, K, n)
      BY <1>4, <1>6, <1>8, <2>3 DEF CopyOfRead
    <3>2. Dirty' = With(D, K, n)
      BY <1>9, <3>1 DEF Dirty
    <3> QED
      BY <1>1, <1>3, <1>4, <1>6, <1>8, <1>9, <2>3, <3>1, <3>2 DEF TypeOK
  <2> QED
    BY <2>1, <2>2, <2>3 DEF Visited
<1>11. /\ pc'[g] = l
       /\ \A h \in Goroutine : h # g => pc'[h] = pc[h]
  BY <1>1, <1>2 DEF TypeOK
<1>12. TypeOK'
  BY <1>1, <1>2, <1>10 DEF TypeOK, PC
<1>13. e[g] = None
  BY <1>1, <1>2 DEF Phases
<1>14. Filled(g, None)
  <2>1. read' = [m |-> read.m, amended |-> read'.amended]
    BY <1>1, <1>2 DEF Maps
  <2>2. \A j \in DOMAIN Dirty' : \/ j \in DOMAIN Dirty
                                 \/ j \in DOMAIN read.m /\ Dirty'[j] = read.m[j]
    BY <1>3, <1>4, <1>10
  <2>3. \A j \in DOMAIN Dirty' : Dirty'[j] # None
    BY <1>1, <1>5, <1>10, <2>2
  <2> QED
    BY <1>2, <1>5, <1>10, <1>11, <1>13, <2>1, <2>2, <2>3 DEF Filled
<1>15. Maps' /\ Owners'
  BY <1>12, <1>14, FilledMaps, FilledOwners
<1>16. Copying'
  BY <1>1, <1>2, <1>11 DEF Copying
<1>17. EntryStates'
  <2> SUFFICES ASSUME NEW j \in DOMAIN read.m, j \notin Pending'
               PROVE  IF p'[read.m[j]] = Expunged THEN dirty' # Nil /\ j \notin DOMAIN Dirty'
                                                  ELSE dirty' = Nil \/ j \in DOMAIN Dirty'
    BY <1>2 DEF EntryStates, InDirty
  <2>1. CASE j = z
    BY <1>2, <1>3, <1>4, <1>10, <2>1
  <2>2. CASE j # z
    <3>1. p'[read.m[j]] = p[read.m[j]] /\ (j \in DOMAIN Dirty' <=> j \in DOMAIN Dirty) /\ j \notin Pending
      BY <1>4, <1>5, <1>10, <2>2
    <3>2. IF p[read.m[j]] = Expunged THEN dirty # Nil /\ j \notin DOMAIN Dirty
                                     ELSE dirty = Nil \/ j \in DOMAIN Dirty
      BY <1>1, <3>1 DEF Stages, EntryStates, InDirty
    <3> QED
      BY <1>3, <1>10, <3>1, <3>2
  <2> QED
    BY <2>1, <2>2
<1>18. /\ DOMAIN Dirty' \subseteq DOMAIN read.m
       /\ \A j \in Pending' : /\ j \in DOMAIN read.m /\ j \notin DOMAIN Dirty'
                              /\ p'[read.m[j]] # Expunged
       /\ \A j \in DOMAIN Dirty' : p'[Dirty'[j]] # Expunged
  BY <1>1, <1>3, <1>4, <1>5, <1>10 DEF Stages, InDirty
<1>19. Stages'
  BY <1>1, <1>2, <1>3, <1>10, <1>11, <1>16, <1>17, <1>18 DEF Stages, InDirty
<1>20. Phases'
  BY <1>1, <1>2, <1>11 DEF Phases, NoNilMapWrite
<1>21. IInv'
  BY <1>12, <1>15, <1>19, <1>20 DEF IInv
<1>22. \A y \in Entry : Val(p'[y]) = Val(p[y])
  <2>1. \A y \in Entry : y # n => Val(p'[y]) = Val(p[y])
    BY <1>10
  <2>2. Val(p'[n]) = Val(p[n])
    BY <1>1, <1>4 DEF Visited, Val, Live, TypeOK
  <2> QED
    BY <2>1, <2>2
<1> QED
  BY <1>2, <1>14, <1>21, <1>22, FilledQuiet

\* tryExpungeLocked loads the pointer.
LEMMA DirtyVisitKeeps ==
  ASSUME IInv, NEW g \in Goroutine, NEW k \in todo, DirtyVisit(g, k)
  PROVE  IInv' /\ Linear
<1>1. TypeOK /\ Stages /\ Phases /\ pc[g] = "copy" /\ todo' = todo \ {k} /\ k \in Key /\ None \notin Key
      /\ UNCHANGED <<read, misses, mu, call, e, old, out, p>>
  BY Basics DEF IInv, DirtyVisit, TypeOK
<1>2. mu = g /\ cur = None /\ Pending = todo
  BY <1>1 DEF Stages, Phases, Pending
<1>3. CASE p[read.m[k]] = Nil
  <2>1. cur' = k /\ Goto(g, "expunge") /\ UNCHANGED dirty
    BY <1>3 DEF DirtyVisit
  <2>2. Pending' = Pending
    BY <1>1, <1>2, <2>1 DEF Pending
  <2>3. Visited(g, "expunge", k)
    BY <1>1, <1>2, <2>1, <2>2 DEF Visited, Goto
  <2> QED
    BY <2>3, VisitedKeeps
<1>4. CASE p[read.m[k]] # Nil
  <2>1. /\ dirty' = IF p[read.m[k]] = Expunged THEN dirty ELSE CopyOfRead(k)
        /\ UNCHANGED <<cur, pc>>
    BY <1>4 DEF DirtyVisit
  <2>2. Pending' = Pending \ {k}
    BY <1>1, <1>2, <2>1 DEF Pending
  <2>3. pc' = [pc EXCEPT ![g] = "copy"]
    BY <1>1, <2>1 DEF TypeOK
  <2>4. p[read.m[k]] # Expunged
    BY <1>1, <1>2 DEF Stages
  <2>5. Visited(g, "copy", k)
    <3>1. /\ cur' = None /\ p' = p /\ dirty' = CopyOfRead(k) /\ todo' \subseteq todo
          /\ cur' \notin todo'
      BY <1>1, <1>2, <2>1, <2>4 DEF TypeOK
    <3> QED
      BY <1>1, <1>2, <2>2, <2>3, <2>4, <3>1 DEF Visited
  <2> QED
    BY <2>5, VisitedKeeps
<1> QED
  BY <1>3, <1>4

\* tryExpungeLocked swaps nil for expunged, or finds a value.
LEMMA DirtyExpungeKeeps ==
  ASSUME IInv, NEW g \in Goroutine, DirtyExpunge(g)
  PROVE  IInv' /\ Linear
<1>1. /\ TypeOK /\ Stages /\ Phases /\ pc[g] = "expunge" /\ cur' = None /\ Goto(g, "copy")
      /\ UNCHANGED <<read, misses, mu, todo, call, e, old, out>> /\ None \notin Key \cup Goroutine
  BY Basics DEF IInv, DirtyExpunge, TypeOK
<1>2. mu = g /\ cur # None /\ cur \notin todo /\ Pending = todo \cup {cur} /\ Pending' = todo
  BY <1>1 DEF Stages, Phases, Pending
<1>3. Copying
  BY <1>1, <1>2 DEF Copying
<1>4. Pending' = Pending \ {cur} /\ None \notin todo
  BY <1>1, <1>2 DEF TypeOK
<1>5. CASE p[read.m[cur]] = Nil
  <2>1. p' = [p EXCEPT ![read.m[cur]] = Expunged] /\ dirty' = dirty
    BY <1>5 DEF DirtyExpunge
  <2>2. Visited(g, "copy", cur)
    BY <1>1, <1>2, <1>4, <1>5, <2>1 DEF Visited, Goto
  <2> QED
    BY <2>2, VisitedKeeps
<1>6. CASE p[read.m[cur]] # Nil
  <2>1. dirty' = CopyOfRead(cur) /\ p' = p
    BY <1>6 DEF DirtyExpunge
  <2>2. p[read.m[cur]] # Expunged
    BY <1>1, <1>2 DEF Stages
  <2>3. Visited(g, "copy", cur)
    BY <1>1, <1>2, <1>4, <2>1, <2>2 DEF Visited, Goto
  <2> QED
    BY <2>3, VisitedKeeps
<1> QED
  BY <1>5, <1>6

-----------------------------------------------------------------------------
(***************************************************************************)
(* The invariant holds.                                                    *)
(***************************************************************************)
LEMMA InitIs == Init => IInv
<1> SUFFICES ASSUME Init PROVE IInv
  OBVIOUS
<1>1. /\ DOMAIN read.m = {} /\ Range(read.m) = {} /\ read.amended = FALSE
      /\ read = [m |-> read.m, amended |-> read.amended] /\ dirty = Nil /\ DOMAIN Dirty = {}
  BY NoKeysIs DEF Init, Dirty
<1>2. TypeOK
  BY <1>1 DEF Init, TypeOK, PC
<1>3. Maps
  BY <1>1 DEF Maps
<1>4. ~Copying /\ Pending = {}
  BY DEF Init, Copying, Pending
<1>5. Stages
  BY <1>1, <1>4 DEF Init, Stages, EntryStates
<1>6. Phases
  BY <1>2, Basics DEF Init, Phases, NoNilMapWrite
<1>7. Owners
  BY <1>1, <1>2, Basics DEF Init, Owners
<1> QED
  BY <1>2, <1>3, <1>5, <1>6, <1>7 DEF IInv

\* Every step keeps the invariant and is one of AtomicMap's, or none.
LEMMA NextKeeps == IInv /\ [Next]_vars => IInv' /\ (Next => Linear)
<1> SUFFICES ASSUME IInv, [Next]_vars PROVE IInv' /\ (Next => Linear)
  OBVIOUS
<1>1. ASSUME UNCHANGED vars
      PROVE  IInv'
  <2>1. /\ UNCHANGED <<p, read, dirty, misses, mu, todo, cur, pc, call, e, old, out>>
        /\ Dirty' = Dirty /\ Pending' = Pending /\ (Copying' <=> Copying)
        /\ \A n : InMaps(n)' <=> InMaps(n)
        /\ \A k : InDirty(k)' <=> InDirty(k)
    BY <1>1 DEF vars, Dirty, Pending, Copying, InMaps, InDirty
  <2>2. TypeOK' /\ Maps' /\ Phases' /\ Owners'
    BY <2>1 DEF IInv, TypeOK, Maps, Phases, NoNilMapWrite, Owners
  <2>3. Stages'
    BY <2>1 DEF IInv, Stages, EntryStates
  <2> QED
    BY <2>2, <2>3 DEF IInv
<1>2. ASSUME Next
      PROVE  IInv' /\ Linear
  <2>1. ASSUME NEW g \in Goroutine, NEW c \in Call, Begin(g, c)
        PROVE  IInv' /\ Linear
    BY <2>1, BeginKeeps
  <2>2. ASSUME NEW g \in Goroutine, Unlocked(g)
        PROVE  IInv' /\ Linear
    BY <2>2, LookupKeeps, LoadEntryKeeps, DeleteLoadKeeps, DeleteCASKeeps, TryStoreLoadKeeps,
       TryStoreCASKeeps DEF Unlocked
  <2>3. ASSUME NEW g \in Goroutine, Locked(g)
        PROVE  IInv' /\ Linear
    BY <2>3, LoadLockedKeeps, DeleteLockedKeeps, StoreInReadKeeps, StoreInDirtyKeeps,
       StoreNewKeeps DEF Locked
  <2>4. ASSUME NEW g \in Goroutine, Holding(g)
        PROVE  IInv' /\ Linear
    BY <2>4, StorePutKeeps, StoreInsertKeeps, DirtyVisitKeeps, DirtyExpungeKeeps DEF Holding
  <2> QED
    BY <1>2, <2>1, <2>2, <2>3, <2>4 DEF Next
<1> QED
  BY <1>1, <1>2

\* The invariant holds of every state of the map.
THEOREM Invariance == Spec => []IInv
<1>1. IInv /\ [Next]_vars => IInv'
  BY NextKeeps
<1> QED
  BY <1>1, InitIs, PTL DEF Spec

\* A key has one entry, the same in both maps, read says so when dirty has more
\* (map.go:69), and no Store assigns to a key of a nil map (map_store.go:52).
THEOREM MapWellFormed == Spec => []WellFormed
<1>1. IInv => WellFormed
  <2> SUFFICES ASSUME IInv PROVE WellFormed
    OBVIOUS
  <2>1. TypeOK /\ Maps /\ Stages /\ Phases
    BY DEF IInv
  <2>2. SameEntry
    BY <2>1 DEF Maps, SameEntry
  <2>3. AmendedSaysSo
    BY <2>1 DEF Stages, AmendedSaysSo
  <2> QED
    BY <2>1, <2>2, <2>3 DEF WellFormed, Phases
<1> QED
  BY <1>1, Invariance, PTL

\* Entries are in the states that map.go:46 and :80 document, and one that was
\* removed with its value belongs to one Delete (map_delete.go:28).
THEOREM EntriesAreRight == Spec => []EntriesRight
<1>1. IInv => EntriesRight
  <2> SUFFICES ASSUME IInv PROVE EntriesRight
    OBVIOUS
  <2>1. TypeOK /\ Stages /\ Owners
    BY DEF IInv
  <2>2. OrphanHasOneOwner
    <3> SUFFICES ASSUME NEW n \in Range(e) \ ({None} \cup Range(read.m) \cup Range(Dirty)),
                        Live(p[n])
                 PROVE  /\ \A g \in Goroutine : e[g] = n => pc[g] \notin {"try", "cas", "put"}
                        /\ \E g \in Goroutine :
                             /\ e[g] = n /\ pc[g] \in {"take", "clear"}
                             /\ \A h \in Goroutine :
                                  e[h] = n /\ pc[h] \in {"take", "clear"} => h = g
      BY DEF OrphanHasOneOwner
    <3>1. PICK h \in Goroutine : e[h] = n
      BY <2>1 DEF Range, TypeOK
    <3>2. n \in Entry /\ ~InMaps(n) /\ p[n] # Expunged
      BY <2>1, <3>1 DEF TypeOK, InMaps, Live
    <3>3. PICK g \in Goroutine : e[g] = n /\ pc[g] \in {"take", "clear"}
      BY <2>1, <3>1, <3>2 DEF Owners
    <3>4. /\ \A i \in Goroutine : e[i] = n => pc[i] \notin {"try", "cas", "put"}
          /\ \A i \in Goroutine : e[i] = n /\ pc[i] \in {"take", "clear"} => i = g
      BY <2>1, <3>2, <3>3 DEF Owners
    <3> QED
      BY <3>3, <3>4
  <2> QED
    BY <2>1, <2>2 DEF EntriesRight, Stages
<1> QED
  BY <1>1, Invariance, PTL

\* The map is linearizable: every step is the effect of one pending call, the
\* return of one, or nothing that a caller can see.
THEOREM MapIsLinearizable == LinSpec => Linearizable
<1>1. LinInit => IInv /\ SeenRight
  <2> SUFFICES ASSUME LinInit PROVE IInv /\ SeenRight
    OBVIOUS
  <2>1. IInv
    BY InitIs DEF LinInit
  <2>2. SeenRight
    BY <2>1, Basics DEF IInv, LinInit, Init, SeenRight
  <2> QED
    BY <2>1, <2>2
<1>2. IInv /\ SeenRight /\ [LinNext]_linvars => IInv' /\ SeenRight'
  <2> SUFFICES ASSUME IInv, SeenRight, [LinNext]_linvars PROVE IInv' /\ SeenRight'
    OBVIOUS
  <2>1. CASE LinNext
    BY <2>1, NextKeeps DEF LinNext, Linear, SeenStep
  <2>2. CASE UNCHANGED linvars
    <3>1. UNCHANGED vars /\ seen' = seen
      BY <2>2 DEF linvars
    <3>2. IInv'
      BY <3>1, NextKeeps
    <3>3. /\ UNCHANGED <<p, e, call, read, dirty>> /\ Contents' = Contents
          /\ \A n : InMaps(n)' <=> InMaps(n)
      BY <3>1 DEF vars, Contents, InMaps, InRead, InDirty, Dirty
    <3> QED
      BY <3>1, <3>2, <3>3 DEF SeenRight
  <2> QED
    BY <2>1, <2>2
<1>3. IInv /\ SeenRight /\ [LinNext]_linvars => Step
  <2> SUFFICES ASSUME IInv, SeenRight, [LinNext]_linvars PROVE Step
    OBVIOUS
  <2>1. CASE LinNext
    BY <2>1, NextKeeps DEF LinNext, Linear, SeenStep
  <2>2. CASE UNCHANGED linvars
    <3>1. UNCHANGED <<Contents, call, Taken, seen, out>>
      BY <2>2 DEF linvars, vars, Contents, Taken, InRead, InDirty, Dirty
    <3> QED
      BY <3>1 DEF Step
  <2> QED
    BY <2>1, <2>2
<1>4. LinInit => Atomic!Init
  <2> SUFFICES ASSUME LinInit PROVE Atomic!Init
    OBVIOUS
  <2>1. IInv
    BY <1>1
  <2>2. \A k \in Key : Contents[k] = Nil
    <3>1. \A k \in Key : ~InRead(k) /\ ~InDirty(k)
      BY NoKeysIs DEF LinInit, Init, InRead, InDirty, Dirty
    <3> QED
      BY <2>1, <3>1, ContentsAt DEF IInv, ContentsRight
  <2>3. \A g \in Goroutine : Taken[g] = Nil
    BY TakenIs DEF LinInit, Init
  <2>4. Contents = [k \in Key |-> Contents[k]] /\ Taken = [g \in Goroutine |-> Taken[g]]
    BY DEF Contents, Taken
  <2>5. Contents = [k \in Key |-> Nil] /\ Taken = [g \in Goroutine |-> Nil]
    BY <2>2, <2>3, <2>4
  <2> QED
    BY <2>5 DEF LinInit, Init, Atomic!Init
<1> QED
  BY <1>1, <1>2, <1>3, <1>4, PTL DEF LinSpec, Linearizable, Atomic!Spec, Atomic!amap, Step
=============================================================================
