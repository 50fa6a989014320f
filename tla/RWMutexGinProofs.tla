-------------------------- MODULE RWMutexGinProofs --------------------------
(***************************************************************************)
(* The proofs about two models that share nothing, RWMutex and Gin.        *)
(***************************************************************************)
EXTENDS RWMutex, Gin, FiniteSetTheorems, TLAPS

(***************************************************************************)
(* The safety of RWMutex, for any number of goroutines below MaxReaders,   *)
(* when the semaphores of Sema do what their contract says.                *)
(***************************************************************************)
\* Moving one goroutine changes the population of the two labels it moves
\* between, by one, and no other.
LEMMA NumMove ==
  ASSUME pc \in [Goroutine -> PC], NEW g \in Goroutine,
         NEW k, NEW l, pc[g] = k, k # l, Goto(g, l)
  PROVE  /\ Num(l)' = Num(l) + 1
         /\ Num(k)' = Num(k) - 1
         /\ \A m : m # l /\ m # k => Num(m)' = Num(m)
         /\ \A m : Num(m) \in Nat /\ Num(m)' \in Nat
<1> DEFINE At(m) == {h \in Goroutine : pc[h] = m}
           Next_At(m) == {h \in Goroutine : pc'[h] = m}
<1>1. \A m : IsFiniteSet(At(m))
  BY RWMutexAssumption, FS_Subset
<1>2. Next_At(l) = At(l) \cup {g} /\ g \notin At(l)
  BY DEF Goto
<1>3. Next_At(k) = At(k) \ {g} /\ g \in At(k)
  BY DEF Goto
<1>4. \A m : m # l /\ m # k => Next_At(m) = At(m)
  BY DEF Goto
<1>5. \A m : Num(m) = Cardinality(At(m)) /\ Num(m)' = Cardinality(Next_At(m))
  BY DEF Num
<1> HIDE DEF At, Next_At
<1>T. \A m : Cardinality(At(m)) \in Nat /\ Cardinality(Next_At(m)) \in Nat
  <2>1. \A m : IsFiniteSet(Next_At(m))
    BY RWMutexAssumption, FS_Subset DEF Next_At
  <2> QED BY <1>1, <2>1, FS_CardinalityType
<1>6. Cardinality(At(l) \cup {g}) = Cardinality(At(l)) + 1
  BY <1>1, <1>2, FS_AddElement
<1>7. Cardinality(At(k) \ {g}) = Cardinality(At(k)) - 1
  BY <1>1, <1>3, FS_RemoveElement
<1> QED BY <1>2, <1>3, <1>4, <1>5, <1>6, <1>7, <1>T

\* Populations are numbers; three different labels share the goroutines.
LEMMA NumFacts ==
  /\ \A l : Num(l) \in Nat
  /\ \A g \in Goroutine : Num(pc[g]) >= 1
  /\ \A l : Num(l) = 0 => \A g \in Goroutine : pc[g] # l
  /\ \A k, l, m : k # l /\ l # m /\ k # m => Num(k) + Num(l) + Num(m) < MaxReaders
<1> DEFINE P(l) == {g \in Goroutine : pc[g] = l}
<1>1. \A l : IsFiniteSet(P(l)) /\ Cardinality(P(l)) \in Nat
  BY RWMutexAssumption, FS_Subset, FS_CardinalityType
<1>2. \A l : Num(l) = Cardinality(P(l))
  BY DEF Num
<1>3. \A l : Num(l) = 0 => P(l) = {}
  BY <1>1, <1>2, FS_EmptySet
<1>4. \A g \in Goroutine : Num(pc[g]) # 0
  <2> TAKE g \in Goroutine
  <2>1. g \in P(pc[g]) OBVIOUS
  <2> QED BY <2>1, <1>3
<1>5. ASSUME NEW k, NEW l, NEW m, k # l, l # m, k # m
      PROVE  Num(k) + Num(l) + Num(m) < MaxReaders
  <2> DEFINE U == P(k) \cup P(l)
             V == U \cup P(m)
  <2>1. P(k) \cap P(l) = {} /\ U \cap P(m) = {} /\ V \subseteq Goroutine
    BY <1>5
  <2> HIDE DEF P
  <2>2. /\ IsFiniteSet(U)
        /\ Cardinality(U) =
             Cardinality(P(k)) + Cardinality(P(l)) - Cardinality(P(k) \cap P(l))
    BY <1>1, FS_Union
  <2> HIDE DEF U
  <2>3. Cardinality(V) = Cardinality(U) + Cardinality(P(m)) - Cardinality(U \cap P(m))
    BY <1>1, <2>2, FS_Union
  <2> HIDE DEF V
  <2>0. Cardinality(P(k) \cap P(l)) = 0 /\ Cardinality(U \cap P(m)) = 0
    BY <2>1, FS_EmptySet
  <2>4. Cardinality(V) <= Cardinality(Goroutine)
    BY <2>1, RWMutexAssumption, FS_Subset
  <2>5. Cardinality(Goroutine) \in Nat
    BY RWMutexAssumption, FS_CardinalityType
  <2>6. Cardinality(U) = Num(k) + Num(l) /\ Cardinality(V) = Num(k) + Num(l) + Num(m)
    BY <1>1, <1>2, <2>0, <2>2, <2>3
  <2> QED BY <1>1, <1>2, <2>4, <2>5, <2>6, RWMutexAssumption
<1> HIDE DEF P
<1>6. \A l : Num(l) = 0 => \A g \in Goroutine : pc[g] # l
  BY <1>4
<1> QED BY <1>1, <1>2, <1>4, <1>5, <1>6
\* Nothing but zeros adds up to zero.
LEMMA ZeroSum ==
  ASSUME NEW a \in Nat, NEW b \in Nat, NEW d \in Nat, a + b + d = 0
  PROVE  a = 0 /\ b = 0 /\ d = 0
BY SMT

-----------------------------------------------------------------------------
\* Each step preserves the invariant.

LEMMA InitStep == Init => IInv
<1> SUFFICES ASSUME Init PROVE IInv
  OBVIOUS
<1>1. \A l : l # "idle" => Num(l) = 0
  <2>1. \A l : l # "idle" => {g \in Goroutine : pc[g] = l} = {}
    BY DEF Init
  <2> QED BY <2>1, FS_EmptySet DEF Num
<1>2. TypeOK /\ NoPanic
  BY DEF Init, TypeOK, NoPanic, PC
<1>3. CountInv
  BY <1>1, RWMutexAssumption DEF Init, CountInv, Announced, OwnerPC
<1>4. QuietInv /\ DrainInv
  BY <1>1 DEF Init, QuietInv, DrainInv, Announced, Owed
<1> QED BY <1>2, <1>3, <1>4 DEF IInv

\* A step of a goroutine that does not own the inner mutex leaves the
\* owner's part of the state alone.
LEMMA OtherMoves ==
  ASSUME IInv, NEW g \in Goroutine, NEW k, NEW l \in PC \ (OwnerPC \cup {"panic"}),
         pc[g] = k, k \notin OwnerPC, Goto(g, l), UNCHANGED <<w, r>>
  PROVE  /\ pc' \in [Goroutine -> PC]
         /\ NoPanic'
         /\ Announced' <=> Announced
         /\ Owed' = Owed /\ Owed \in Int
         /\ w # g
         /\ w # None => r[w] \in Int
         /\ w # None => pc'[w] = pc[w]
         /\ \A h \in Goroutine : pc'[h] \in OwnerPC <=> w' = h
<1> USE DEF IInv, CountInv, TypeOK, Goto
<1>1. w # g /\ (w # None => pc'[w] = pc[w])
  OBVIOUS
<1>2. pc' \in [Goroutine -> PC] /\ NoPanic'
  BY DEF NoPanic
<1>3. \A h \in Goroutine : pc'[h] \in OwnerPC <=> w' = h
  OBVIOUS
<1> QED BY <1>1, <1>2, <1>3 DEF Announced, Owed

LEMMA RLockStep ==
  ASSUME IInv, NEW g \in Goroutine, RLock(g)
  PROVE  IInv'
<1> USE DEF IInv
<1>0. PICK l \in {"rSem", "reading"} : l = AfterRLock(readerCount + 1)
  BY DEF AfterRLock
<1>1. /\ pc \in [Goroutine -> PC] /\ pc[g] = "idle" /\ Goto(g, l)
      /\ readerCount' = readerCount + 1
      /\ UNCHANGED <<w, writerSem, readerSem, readerWait, r>>
  BY <1>0 DEF RLock, TypeOK
<1>2. /\ Num(l)' = Num(l) + 1
      /\ \A m : m # l /\ m # "idle" => Num(m)' = Num(m)
      /\ \A m : Num(m) \in Nat /\ Num(m)' \in Nat
  BY <1>1, NumMove
<1>3. /\ pc' \in [Goroutine -> PC] /\ NoPanic'
      /\ Announced' <=> Announced
      /\ Owed' = Owed /\ Owed \in Int
      /\ w # None => pc'[w] = pc[w] /\ r[w] \in Int
      /\ \A h \in Goroutine : pc'[h] \in OwnerPC <=> w' = h
  BY <1>1, OtherMoves DEF PC, OwnerPC, ReaderPC
<1>4. l = IF Announced THEN "rSem" ELSE "reading"
  <2>1. Num("rSem") + Num("reading") + 1 < MaxReaders
    <3>1. Num("idle") >= 1 BY <1>1, NumFacts
    <3> QED BY <1>2, <3>1, NumFacts, RWMutexAssumption
  <2> QED BY <1>0, <1>2, <2>1, RWMutexAssumption DEF CountInv, AfterRLock
<1>5. TypeOK'
  BY <1>1, <1>3 DEF TypeOK
<1>6. CountInv'
  BY <1>1, <1>2, <1>3, RWMutexAssumption DEF CountInv, TypeOK
<1>7. QuietInv'
  BY <1>1, <1>2, <1>3, <1>4 DEF QuietInv, TypeOK
<1>8. DrainInv'
  BY <1>1, <1>2, <1>3, <1>4 DEF DrainInv, Active, Announced, TypeOK
<1> QED BY <1>3, <1>5, <1>6, <1>7, <1>8

LEMMA RLockAcquireStep ==
  ASSUME IInv, NEW g \in Goroutine, RLockAcquire(g)
  PROVE  IInv'
<1> USE DEF IInv
<1>1. /\ pc \in [Goroutine -> PC] /\ pc[g] = "rSem" /\ Goto(g, "reading")
      /\ readerSem > 0 /\ readerSem' = readerSem - 1
      /\ UNCHANGED <<w, writerSem, readerCount, readerWait, r>>
  BY DEF RLockAcquire, TypeOK, CanAcquire, Acquired, Released
<1>2. /\ Num("reading")' = Num("reading") + 1
      /\ Num("rSem")' = Num("rSem") - 1
      /\ \A m : m # "reading" /\ m # "rSem" => Num(m)' = Num(m)
      /\ \A m : Num(m) \in Nat /\ Num(m)' \in Nat
  BY <1>1, NumMove
<1>3. /\ pc' \in [Goroutine -> PC] /\ NoPanic'
      /\ Announced' <=> Announced
      /\ Owed' = Owed /\ Owed \in Int
      /\ w # None => pc'[w] = pc[w] /\ r[w] \in Int
      /\ \A h \in Goroutine : pc'[h] \in OwnerPC <=> w' = h
  BY <1>1, OtherMoves DEF PC, OwnerPC, ReaderPC
<1>4. Num("rSem") >= 1
  BY <1>1, NumFacts
<1>5. TypeOK'
  BY <1>1, <1>3 DEF TypeOK
<1>6. CountInv'
  BY <1>1, <1>2, <1>3, RWMutexAssumption DEF CountInv, TypeOK
<1>7. QuietInv'
  BY <1>1, <1>2, <1>3, <1>4 DEF QuietInv, TypeOK
<1>8. DrainInv'
  <2>1. Active \in Int /\ Active' = Active
    BY <1>1, <1>2 DEF Active, TypeOK
  <2>2. ~(w # None /\ pc[w] \in {"wWait", "wSem", "writing"}) => Num("rSlow") = 0 /\ Num("rWake") = 0
    BY DEF QuietInv, Announced
  <2> QED BY <1>1, <1>2, <1>3, <1>4, <2>1, <2>2 DEF DrainInv, TypeOK
<1> QED BY <1>3, <1>5, <1>6, <1>7, <1>8

LEMMA RUnlockWakeStep ==
  ASSUME IInv, NEW g \in Goroutine, RUnlockWake(g)
  PROVE  IInv'
<1> USE DEF IInv
<1>1. /\ pc \in [Goroutine -> PC] /\ pc[g] = "rWake" /\ Goto(g, "idle")
      /\ writerSem' = writerSem + 1
      /\ UNCHANGED <<w, readerSem, readerCount, readerWait, r>>
  BY DEF RUnlockWake, TypeOK, CanAcquire, Acquired, Released
<1>2. /\ Num("idle")' = Num("idle") + 1
      /\ Num("rWake")' = Num("rWake") - 1
      /\ \A m : m # "idle" /\ m # "rWake" => Num(m)' = Num(m)
      /\ \A m : Num(m) \in Nat /\ Num(m)' \in Nat
  BY <1>1, NumMove
<1>3. /\ pc' \in [Goroutine -> PC] /\ NoPanic'
      /\ Announced' <=> Announced
      /\ Owed' = Owed /\ Owed \in Int
      /\ w # None => pc'[w] = pc[w] /\ r[w] \in Int
      /\ \A h \in Goroutine : pc'[h] \in OwnerPC <=> w' = h
  BY <1>1, OtherMoves DEF PC, OwnerPC, ReaderPC
<1>4. Num("rWake") >= 1
  BY <1>1, NumFacts
<1>5. TypeOK'
  BY <1>1, <1>3 DEF TypeOK
<1>6. CountInv'
  BY <1>1, <1>2, <1>3, RWMutexAssumption DEF CountInv, TypeOK
<1>7. QuietInv'
  BY <1>1, <1>2, <1>3, <1>4 DEF QuietInv, TypeOK
<1>8. DrainInv'
  <2>1. Active \in Int /\ Active' = Active
    BY <1>1, <1>2 DEF Active, TypeOK
  <2>2. ~(w # None /\ pc[w] \in {"wWait", "wSem", "writing"}) => Num("rSlow") = 0 /\ Num("rWake") = 0
    BY DEF QuietInv, Announced
  <2> QED BY <1>1, <1>2, <1>3, <1>4, <2>1, <2>2 DEF DrainInv, TypeOK
<1> QED BY <1>3, <1>5, <1>6, <1>7, <1>8

LEMMA LockCallStep ==
  ASSUME IInv, NEW g \in Goroutine, LockCall(g)
  PROVE  IInv'
<1> USE DEF IInv
<1>1. /\ pc \in [Goroutine -> PC] /\ pc[g] = "idle" /\ Goto(g, "wMutex")
      /\ UNCHANGED <<w, writerSem, readerSem, readerCount, readerWait, r>>
  BY DEF LockCall, TypeOK, CanAcquire, Acquired, Released
<1>2. /\ Num("wMutex")' = Num("wMutex") + 1
      /\ Num("idle")' = Num("idle") - 1
      /\ \A m : m # "wMutex" /\ m # "idle" => Num(m)' = Num(m)
      /\ \A m : Num(m) \in Nat /\ Num(m)' \in Nat
  BY <1>1, NumMove
<1>3. /\ pc' \in [Goroutine -> PC] /\ NoPanic'
      /\ Announced' <=> Announced
      /\ Owed' = Owed /\ Owed \in Int
      /\ w # None => pc'[w] = pc[w] /\ r[w] \in Int
      /\ \A h \in Goroutine : pc'[h] \in OwnerPC <=> w' = h
  BY <1>1, OtherMoves DEF PC, OwnerPC, ReaderPC
<1>4. Num("idle") >= 1
  BY <1>1, NumFacts
<1>5. TypeOK'
  BY <1>1, <1>3 DEF TypeOK
<1>6. CountInv'
  BY <1>1, <1>2, <1>3, RWMutexAssumption DEF CountInv, TypeOK
<1>7. QuietInv'
  BY <1>1, <1>2, <1>3, <1>4 DEF QuietInv, TypeOK
<1>8. DrainInv'
  <2>1. Active \in Int /\ Active' = Active
    BY <1>1, <1>2 DEF Active, TypeOK
  <2>2. ~(w # None /\ pc[w] \in {"wWait", "wSem", "writing"}) => Num("rSlow") = 0 /\ Num("rWake") = 0
    BY DEF QuietInv, Announced
  <2> QED BY <1>1, <1>2, <1>3, <1>4, <2>1, <2>2 DEF DrainInv, TypeOK
<1> QED BY <1>3, <1>5, <1>6, <1>7, <1>8

LEMMA RUnlockStep ==
  ASSUME IInv, NEW g \in Goroutine, RUnlock(g)
  PROVE  IInv'
<1> USE DEF IInv
<1>0. PICK l \in {"idle", "panic", "rSlow"} : l = AfterRUnlock(readerCount - 1)
  BY DEF AfterRUnlock
<1>1. /\ pc \in [Goroutine -> PC] /\ pc[g] = "reading" /\ Goto(g, l)
      /\ readerCount' = readerCount - 1
      /\ UNCHANGED <<w, writerSem, readerSem, readerWait, r>>
  BY <1>0 DEF RUnlock, RUnlockBody, TypeOK
<1>2. /\ Num(l)' = Num(l) + 1
      /\ Num("reading")' = Num("reading") - 1
      /\ \A m : m # l /\ m # "reading" => Num(m)' = Num(m)
      /\ \A m : Num(m) \in Nat /\ Num(m)' \in Nat
  BY <1>1, NumMove
<1>3. Num("reading") >= 1
  BY <1>1, NumFacts
\* The count of the readers, whether or not MaxReaders was taken off it, is
\* that of at least one reader: none of the checks can fire.
<1>4. l = IF Announced THEN "rSlow" ELSE "idle"
  <2>1. Num("rSem") + Num("reading") < MaxReaders
    <3>1. Num("rSem") + Num("reading") + Num("idle") < MaxReaders
      BY NumFacts
    <3> QED BY <1>2, <3>1, RWMutexAssumption
  <2> QED BY <1>0, <1>2, <1>3, <2>1, RWMutexAssumption DEF CountInv, AfterRUnlock
<1>5. /\ pc' \in [Goroutine -> PC] /\ NoPanic'
      /\ Announced' <=> Announced
      /\ Owed' = Owed /\ Owed \in Int
      /\ w # None => pc'[w] = pc[w] /\ r[w] \in Int
      /\ \A h \in Goroutine : pc'[h] \in OwnerPC <=> w' = h
  BY <1>1, <1>4, OtherMoves DEF PC, OwnerPC, ReaderPC
<1>6. TypeOK'
  BY <1>1, <1>5 DEF TypeOK
<1>7. CountInv'
  BY <1>1, <1>2, <1>4, <1>5, RWMutexAssumption DEF CountInv, TypeOK
<1>8. QuietInv'
  BY <1>1, <1>2, <1>3, <1>4, <1>5 DEF QuietInv, TypeOK
<1>9. DrainInv'
  <2>1. Announced => Active \in Int /\ Active' = Active
    BY <1>1, <1>2, <1>4 DEF Active, TypeOK
  <2>2. w # None /\ pc[w] = "writing" => Active # 0
    BY <1>1, <1>2, <1>3 DEF Active, TypeOK
  <2>3. w # None /\ pc[w] \in {"wWait", "wSem", "writing"} => Announced
    BY DEF Announced
  <2> QED BY <1>1, <1>2, <1>3, <1>4, <1>5, <2>1, <2>2, <2>3 DEF DrainInv, TypeOK
<1> QED BY <1>5, <1>6, <1>7, <1>8, <1>9

LEMMA RUnlockSlowStep ==
  ASSUME IInv, NEW g \in Goroutine, RUnlockSlow(g)
  PROVE  IInv'
<1> USE DEF IInv
<1>0. PICK l \in {"idle", "rWake"} : l = AfterDeparture(readerWait - 1)
  BY DEF AfterDeparture
<1>1. /\ pc \in [Goroutine -> PC] /\ pc[g] = "rSlow" /\ Goto(g, l)
      /\ readerWait' = readerWait - 1
      /\ UNCHANGED <<w, writerSem, readerSem, readerCount, r>>
  BY <1>0 DEF RUnlockSlow, TypeOK
<1>2. /\ Num(l)' = Num(l) + 1
      /\ Num("rSlow")' = Num("rSlow") - 1
      /\ \A m : m # l /\ m # "rSlow" => Num(m)' = Num(m)
      /\ \A m : Num(m) \in Nat /\ Num(m)' \in Nat
  BY <1>1, NumMove
<1>3. Num("rSlow") >= 1
  BY <1>1, NumFacts
<1>4. /\ pc' \in [Goroutine -> PC] /\ NoPanic'
      /\ Announced' <=> Announced
      /\ Owed' = Owed /\ Owed \in Int
      /\ w # None => pc'[w] = pc[w] /\ r[w] \in Int
      /\ \A h \in Goroutine : pc'[h] \in OwnerPC <=> w' = h
  BY <1>1, OtherMoves DEF PC, OwnerPC, ReaderPC
<1>5. TypeOK'
  BY <1>1, <1>4 DEF TypeOK
<1>6. CountInv'
  BY <1>1, <1>2, <1>4, RWMutexAssumption DEF CountInv, TypeOK
<1>7. QuietInv'
  BY <1>1, <1>2, <1>3, <1>4 DEF QuietInv, TypeOK
<1>8. DrainInv'
  <2>1. Active \in Int /\ Active' = Active - 1 /\ Active >= 1
    BY <1>1, <1>2, <1>3 DEF Active, TypeOK
  <2>2. l = IF readerWait = 1 THEN "rWake" ELSE "idle"
    BY <1>0 DEF AfterDeparture, TypeOK
  <2> QED BY <1>1, <1>2, <1>3, <1>4, <2>1, <2>2 DEF DrainInv, TypeOK
<1> QED BY <1>4, <1>5, <1>6, <1>7, <1>8

LEMMA LockMutexStep ==
  ASSUME IInv, NEW g \in Goroutine, LockMutex(g)
  PROVE  IInv'
<1> USE DEF IInv
<1>1. /\ pc \in [Goroutine -> PC] /\ pc[g] = "wMutex" /\ Goto(g, "wAnnounce")
      /\ w = None /\ w' = g /\ g # None
      /\ UNCHANGED <<writerSem, readerSem, readerCount, readerWait, r>>
  BY RWMutexAssumption DEF LockMutex, TypeOK
<1>2. /\ \A m : m # "wMutex" /\ m # "wAnnounce" => Num(m)' = Num(m)
      /\ \A m : Num(m) \in Nat /\ Num(m)' \in Nat
  BY <1>1, NumMove
<1>3. pc' = [pc EXCEPT ![g] = "wAnnounce"] /\ pc'[g] = "wAnnounce"
  BY <1>1 DEF Goto
<1>4. ~Announced /\ ~Announced' /\ Owed = 0 /\ Owed' = 0
  BY <1>1, <1>3 DEF Announced, Owed
<1>5. TypeOK' /\ NoPanic'
  BY <1>1, <1>3 DEF TypeOK, NoPanic, PC, OwnerPC
<1>6. CountInv'
  <2>1. \A h \in Goroutine : pc'[h] \in OwnerPC <=> w' = h
    BY <1>1, <1>3, RWMutexAssumption DEF CountInv, OwnerPC
  <2> QED BY <1>1, <1>2, <1>4, <2>1 DEF CountInv, TypeOK
<1>7. QuietInv'
  BY <1>1, <1>2, <1>4 DEF QuietInv, TypeOK
<1>8. DrainInv'
  BY <1>1, <1>3 DEF DrainInv
<1> QED BY <1>5, <1>6, <1>7, <1>8

\* A step of the owner of the inner mutex that keeps it.
LEMMA OwnerMoves ==
  ASSUME IInv, NEW g \in Goroutine, NEW k \in OwnerPC, NEW l \in OwnerPC,
         pc[g] = k, Goto(g, l), UNCHANGED w
  PROVE  /\ w = g /\ g # None
         /\ pc'[g] = l
         /\ pc' \in [Goroutine -> PC]
         /\ NoPanic'
         /\ \A h \in Goroutine : pc'[h] \in OwnerPC <=> w' = h
<1> USE DEF IInv, CountInv, TypeOK, Goto
<1>1. w = g /\ g # None /\ pc'[g] = l
  BY RWMutexAssumption
<1>2. pc' \in [Goroutine -> PC] /\ NoPanic'
  BY DEF NoPanic, PC, OwnerPC
<1>3. \A h \in Goroutine : pc'[h] \in OwnerPC <=> w' = h
  BY <1>1
<1> QED BY <1>1, <1>2, <1>3

LEMMA LockAnnounceStep ==
  ASSUME IInv, NEW g \in Goroutine, LockAnnounce(g)
  PROVE  IInv'
<1> USE DEF IInv
<1>0. PICK l \in {"wWait", "writing"} : l = IF readerCount # 0 THEN "wWait" ELSE "writing"
  OBVIOUS
<1>1. /\ pc \in [Goroutine -> PC] /\ pc[g] = "wAnnounce" /\ Goto(g, l)
      /\ readerCount' = readerCount - MaxReaders
      /\ r' = [r EXCEPT ![g] = readerCount]
      /\ UNCHANGED <<w, writerSem, readerSem, readerWait>>
  BY <1>0 DEF LockAnnounce, TypeOK
<1>2. /\ \A m : m # l /\ m # "wAnnounce" => Num(m)' = Num(m)
      /\ \A m : Num(m) \in Nat /\ Num(m)' \in Nat
  BY <1>1, NumMove
<1>3. /\ w = g /\ g # None
      /\ pc'[g] = l
      /\ pc' \in [Goroutine -> PC]
      /\ NoPanic'
      /\ \A h \in Goroutine : pc'[h] \in OwnerPC <=> w' = h
  BY <1>1, OwnerMoves DEF OwnerPC
<1>4. ~Announced /\ Announced' /\ Owed = 0
  BY <1>1, <1>3 DEF Announced, Owed
<1>5. TypeOK'
  <2>1. readerCount' \in Int /\ readerCount \in Int
    BY <1>1, RWMutexAssumption DEF TypeOK
  <2>2. r' \in [Goroutine -> Int]
    BY <1>1, <2>1 DEF TypeOK
  <2> QED BY <1>1, <1>3, <2>1, <2>2 DEF TypeOK
<1>6. CountInv'
  BY <1>1, <1>2, <1>3, <1>4, RWMutexAssumption DEF CountInv, TypeOK
<1>7. QuietInv'
  BY <1>4 DEF QuietInv
<1>8. DrainInv'
  <2>1. r'[g] = readerCount
    BY <1>1 DEF TypeOK
  <2>2. Active' = readerCount /\ Num("rWake")' = 0 /\ readerWait = 0 /\ writerSem = 0
    BY <1>1, <1>2, <1>4 DEF QuietInv, CountInv, Active, TypeOK
  <2> QED BY <1>0, <1>1, <1>3, <2>1, <2>2 DEF DrainInv, TypeOK
<1> QED BY <1>3, <1>5, <1>6, <1>7, <1>8

LEMMA LockWaitStep ==
  ASSUME IInv, NEW g \in Goroutine, LockWait(g)
  PROVE  IInv'
<1> USE DEF IInv
<1>0. PICK l \in {"wSem", "writing"} : l = AfterLockWait(readerWait + r[g])
  BY DEF AfterLockWait
<1>1. /\ pc \in [Goroutine -> PC] /\ pc[g] = "wWait" /\ Goto(g, l)
      /\ readerWait' = readerWait + r[g]
      /\ UNCHANGED <<w, writerSem, readerSem, readerCount, r>>
  BY <1>0 DEF LockWait, TypeOK
<1>2. /\ \A m : m # l /\ m # "wWait" => Num(m)' = Num(m)
      /\ \A m : Num(m) \in Nat /\ Num(m)' \in Nat
  BY <1>1, NumMove
<1>3. /\ w = g /\ g # None
      /\ pc'[g] = l
      /\ pc' \in [Goroutine -> PC]
      /\ NoPanic'
      /\ \A h \in Goroutine : pc'[h] \in OwnerPC <=> w' = h
  BY <1>1, OwnerMoves DEF OwnerPC
<1>4. Announced /\ Announced'
  BY <1>1, <1>3 DEF Announced
<1>5. TypeOK'
  BY <1>1, <1>3 DEF TypeOK
<1>6. CountInv'
  BY <1>1, <1>2, <1>3, <1>4, RWMutexAssumption DEF CountInv, TypeOK
<1>7. QuietInv'
  BY <1>4 DEF QuietInv
<1>8. DrainInv'
  <2>1. Active' = Active /\ Active \in Nat
    BY <1>1, <1>2 DEF Active, TypeOK
  <2>2. readerWait + r[g] = Active /\ Num("rWake") = 0 /\ writerSem = 0
    BY <1>1, <1>3 DEF DrainInv
  <2>3. l = IF Active = 0 THEN "writing" ELSE "wSem"
    BY <1>0, <2>2 DEF AfterLockWait
  <2> QED BY <1>1, <1>2, <1>3, <2>1, <2>2, <2>3 DEF DrainInv, TypeOK
<1> QED BY <1>3, <1>5, <1>6, <1>7, <1>8

LEMMA LockAcquireStep ==
  ASSUME IInv, NEW g \in Goroutine, LockAcquire(g)
  PROVE  IInv'
<1> USE DEF IInv
<1>1. /\ pc \in [Goroutine -> PC] /\ pc[g] = "wSem" /\ Goto(g, "writing")
      /\ writerSem > 0 /\ writerSem' = writerSem - 1
      /\ UNCHANGED <<w, readerSem, readerCount, readerWait, r>>
  BY DEF LockAcquire, TypeOK, CanAcquire, Acquired
<1>2. /\ \A m : m # "writing" /\ m # "wSem" => Num(m)' = Num(m)
      /\ \A m : Num(m) \in Nat /\ Num(m)' \in Nat
  BY <1>1, NumMove
<1>3. /\ w = g /\ g # None
      /\ pc'[g] = "writing"
      /\ pc' \in [Goroutine -> PC]
      /\ NoPanic'
      /\ \A h \in Goroutine : pc'[h] \in OwnerPC <=> w' = h
  BY <1>1, OwnerMoves DEF OwnerPC
<1>4. Announced /\ Announced'
  BY <1>1, <1>3 DEF Announced
<1>5. TypeOK'
  BY <1>1, <1>3 DEF TypeOK
<1>6. CountInv'
  BY <1>1, <1>2, <1>3, <1>4, RWMutexAssumption DEF CountInv, TypeOK
<1>7. QuietInv'
  BY <1>4 DEF QuietInv
<1>8. DrainInv'
  <2>1. Active' = Active /\ Active \in Nat
    BY <1>1, <1>2 DEF Active, TypeOK
  \* A token is there only once the last active reader has left.
  <2>2. readerWait = 0 /\ Active = 0 /\ writerSem + Num("rWake") = 1
    BY <1>1, <1>2, <1>3 DEF DrainInv, TypeOK
  <2> QED BY <1>1, <1>2, <1>3, <2>1, <2>2 DEF DrainInv, TypeOK
<1> QED BY <1>3, <1>5, <1>6, <1>7, <1>8

LEMMA UnlockStep ==
  ASSUME IInv, NEW g \in Goroutine, Unlock(g)
  PROVE  IInv'
<1> USE DEF IInv
<1>0. PICK l \in {"panic", "wWake"} :
        l = IF readerCount + MaxReaders >= MaxReaders THEN "panic" ELSE "wWake"
  OBVIOUS
<1>1. /\ pc \in [Goroutine -> PC] /\ pc[g] = "writing" /\ Goto(g, l)
      /\ readerCount' = readerCount + MaxReaders
      /\ r' = [r EXCEPT ![g] = readerCount + MaxReaders]
      /\ UNCHANGED <<w, writerSem, readerSem, readerWait>>
  BY <1>0 DEF Unlock, Waiters, TypeOK
<1>2. /\ \A m : m # l /\ m # "writing" => Num(m)' = Num(m)
      /\ \A m : Num(m) \in Nat /\ Num(m)' \in Nat
  BY <1>1, NumMove
<1>3. w = g /\ Announced
  BY <1>1, RWMutexAssumption DEF CountInv, OwnerPC, Announced, TypeOK
<1>4. /\ readerWait = 0 /\ writerSem = 0 /\ readerSem = 0
      /\ Num("reading") = 0 /\ Num("rSlow") = 0 /\ Num("rWake") = 0
  <2>1. /\ readerWait = 0 /\ Num("reading") + readerSem + Num("rSlow") = 0
        /\ writerSem + Num("rWake") = 0
    BY <1>1, <1>3, RWMutexAssumption DEF DrainInv, Active
  <2>2. readerSem \in Nat /\ writerSem \in Nat
    BY DEF TypeOK
  <2>3. /\ Num("reading") \in Nat /\ Num("rSlow") \in Nat /\ Num("rWake") \in Nat
    BY <1>2
  <2>4. writerSem + Num("rWake") + 0 = 0
    BY <2>1, <2>2, <2>3
  <2> QED BY ZenonT(60), <2>1, <2>2, <2>3, <2>4, ZeroSum
<1>5. readerCount + MaxReaders = Num("rSem")
  BY <1>2, <1>3, <1>4, RWMutexAssumption DEF CountInv
<1>6. l = "wWake"
  <2>1. Num("rSem") + Num("reading") + Num("idle") < MaxReaders
    BY NumFacts
  <2> QED BY <1>0, <1>2, <1>4, <1>5, <2>1, RWMutexAssumption
<1>7. /\ pc'[g] = "wWake" /\ g # None
      /\ pc' \in [Goroutine -> PC]
      /\ NoPanic'
      /\ \A h \in Goroutine : pc'[h] \in OwnerPC <=> w' = h
  BY <1>1, <1>6, OwnerMoves DEF OwnerPC
<1>8. ~Announced' /\ Owed' = Num("rSem")
  BY <1>1, <1>3, <1>5, <1>7 DEF Announced, Owed, TypeOK
<1>9. TypeOK'
  <2>1. readerCount' \in Int
    BY <1>1, RWMutexAssumption DEF TypeOK
  <2>2. r' \in [Goroutine -> Int]
    BY <1>1, <2>1 DEF TypeOK
  <2> QED BY <1>1, <1>7, <2>1, <2>2 DEF TypeOK
<1>10. CountInv'
  BY <1>1, <1>2, <1>4, <1>5, <1>6, <1>7, <1>8 DEF CountInv
<1>11. QuietInv'
  BY <1>1, <1>2, <1>4, <1>6, <1>8 DEF QuietInv
<1>12. DrainInv'
  BY <1>1, <1>3, <1>7 DEF DrainInv
<1> QED BY <1>7, <1>9, <1>10, <1>11, <1>12

LEMMA UnlockWakeStep ==
  ASSUME IInv, NEW g \in Goroutine, UnlockWake(g)
  PROVE  IInv'
<1> USE DEF IInv
<1>1. /\ pc[g] = "wWake" /\ r[g] > 0 /\ r[g] \in Int
      /\ readerSem' = readerSem + 1
      /\ r' = [r EXCEPT ![g] = r[g] - 1]
      /\ UNCHANGED <<w, writerSem, readerCount, readerWait, pc>>
  BY DEF UnlockWake, TypeOK, Released
<1>2. \A m : Num(m)' = Num(m) /\ Num(m) \in Nat
  BY <1>1, NumFacts DEF Num
<1>3. w = g /\ g # None
  BY <1>1, RWMutexAssumption DEF CountInv, OwnerPC, TypeOK
<1>4. ~Announced /\ ~Announced' /\ Owed = r[g] /\ Owed' = r[g] - 1
  BY <1>1, <1>3 DEF Announced, Owed, TypeOK
<1>5. TypeOK' /\ NoPanic'
  BY <1>1 DEF TypeOK, NoPanic
<1>6. QuietInv'
  BY <1>1, <1>2, <1>4 DEF QuietInv, TypeOK
<1>7. CountInv'
  BY <1>1, <1>2, <1>4 DEF CountInv, QuietInv, TypeOK
<1>8. DrainInv'
  BY <1>1, <1>3 DEF DrainInv
<1> QED BY <1>5, <1>6, <1>7, <1>8

LEMMA UnlockMutexStep ==
  ASSUME IInv, NEW g \in Goroutine, UnlockMutex(g)
  PROVE  IInv'
<1> USE DEF IInv
<1>1. /\ pc \in [Goroutine -> PC] /\ pc[g] = "wWake" /\ Goto(g, "idle")
      /\ r[g] <= 0 /\ w' = None
      /\ UNCHANGED <<writerSem, readerSem, readerCount, readerWait, r>>
  BY DEF UnlockMutex, TypeOK
<1>2. /\ \A m : m # "idle" /\ m # "wWake" => Num(m)' = Num(m)
      /\ \A m : Num(m) \in Nat /\ Num(m)' \in Nat
  BY <1>1, NumMove
<1>3. w = g /\ g # None /\ pc' = [pc EXCEPT ![g] = "idle"]
  BY <1>1, RWMutexAssumption DEF CountInv, OwnerPC, TypeOK, Goto
<1>4. ~Announced /\ ~Announced' /\ Owed = r[g] /\ Owed' = 0
  BY <1>1, <1>3 DEF Announced, Owed
<1>5. TypeOK' /\ NoPanic'
  BY <1>1, <1>3 DEF TypeOK, NoPanic, PC
<1>6. \A h \in Goroutine : pc'[h] \in OwnerPC <=> w' = h
  BY <1>1, <1>3, RWMutexAssumption DEF CountInv, OwnerPC, TypeOK
<1>7. QuietInv'
  BY <1>1, <1>2, <1>4 DEF QuietInv, TypeOK
<1>8. CountInv'
  BY <1>1, <1>2, <1>4, <1>6 DEF CountInv, TypeOK
<1>9. DrainInv'
  BY <1>1 DEF DrainInv
<1> QED BY <1>5, <1>7, <1>8, <1>9

LEMMA StutterStep == IInv /\ UNCHANGED vars => IInv'
<1> SUFFICES ASSUME IInv, UNCHANGED vars PROVE IInv'
  OBVIOUS
<1>1. \A m : Num(m)' = Num(m)
  BY DEF Num, vars
<1>2. (Announced' <=> Announced) /\ Owed' = Owed
  BY DEF Announced, Owed, vars
<1>3. Active' = Active
  BY <1>1 DEF Active, vars
<1> QED BY <1>1, <1>2, <1>3 DEF IInv, vars, TypeOK, NoPanic, CountInv, QuietInv, DrainInv
-----------------------------------------------------------------------------
(***************************************************************************)
(* The theorems.                                                           *)
(***************************************************************************)

\* The inductive invariant holds in every behaviour: the counters always say
\* where the readers are, whatever the interleaving of lock and unlock.
THEOREM Invariance == Spec => []IInv
<1>1. IInv /\ [Next]_vars => IInv'
  <2> SUFFICES ASSUME IInv, Next PROVE IInv'
    BY StutterStep
  <2>1. PICK g \in Goroutine : Call(g) \/ LockMutex(g) \/ Proceed(g)
    BY DEF Next
  <2>2. CASE Call(g)
    BY <2>2, RLockStep, LockCallStep, RUnlockStep, UnlockStep DEF Call
  <2>3. CASE LockMutex(g)
    BY <2>3, LockMutexStep
  <2>4. CASE Proceed(g)
    BY <2>4, RLockAcquireStep, RUnlockSlowStep, RUnlockWakeStep,
       LockAnnounceStep, LockWaitStep, LockAcquireStep, UnlockWakeStep,
       UnlockMutexStep DEF Proceed
  <2> QED BY <2>1, <2>2, <2>3, <2>4
<1> QED BY <1>1, InitStep, PTL DEF Spec

\* The variables have their types; no semaphore goes below zero.
THEOREM TypeCorrect == Spec => []TypeOK
BY Invariance, PTL DEF IInv

\* The checks of RUnlock and Unlock never fire for a client that follows the
\* protocol.
THEOREM PanicFree == Spec => []NoPanic
BY Invariance, PTL DEF IInv

\* What the invariant says while a goroutine executes between Lock and Unlock.
LEMMA WriterAlone ==
  ASSUME IInv, NEW g \in Goroutine, pc[g] = "writing"
  PROVE  /\ w = g
         /\ readerSem = 0 /\ writerSem = 0
         /\ \A h \in Goroutine :
              pc[h] \notin {"reading", "rSlow", "rWake"} /\ (pc[h] \in OwnerPC => h = g)
<1> USE DEF IInv
<1>1. w = g
  BY DEF CountInv, OwnerPC
<1>2. Num("reading") \in Nat /\ Num("rSlow") \in Nat /\ Num("rWake") \in Nat
  BY NumFacts
<1>3. Num("reading") + readerSem + Num("rSlow") = 0 /\ writerSem + Num("rWake") = 0
  BY <1>1, RWMutexAssumption DEF DrainInv, Active
<1>7. readerSem \in Nat /\ writerSem \in Nat
  BY DEF TypeOK
<1>4. /\ readerSem = 0 /\ writerSem = 0
      /\ Num("reading") = 0 /\ Num("rSlow") = 0 /\ Num("rWake") = 0
  <2>1. writerSem + Num("rWake") + 0 = 0
    BY <1>2, <1>3, <1>7
  <2>2. readerSem = 0 /\ Num("reading") = 0 /\ Num("rSlow") = 0
    BY <1>2, <1>3, <1>7, ZeroSum
  <2>3. writerSem = 0 /\ Num("rWake") = 0
    BY <1>2, <1>7, <2>1, ZeroSum
  <2> QED BY <2>2, <2>3
<1>5. \A h \in Goroutine : pc[h] \notin {"reading", "rSlow", "rWake"}
  BY <1>4, NumFacts
<1>6. \A h \in Goroutine : pc[h] \in OwnerPC => h = g
  BY <1>1 DEF CountInv
<1> QED BY <1>1, <1>4, <1>5, <1>6

\* Readers and writers exclude each other, and writers exclude writers.
THEOREM MutualExclusion == Spec => []Exclusion
<1>1. IInv => Exclusion
  BY WriterAlone DEF Exclusion, OwnerPC
<1> QED BY <1>1, Invariance, PTL

\* No wake-up survives the round it was meant for.
THEOREM NoWakeupLeft == Spec => []NoStaleWakeup
<1>1. IInv => NoStaleWakeup
  BY WriterAlone DEF NoStaleWakeup, OwnerPC
<1> QED BY <1>1, Invariance, PTL
-----------------------------------------------------------------------------
(***************************************************************************)
(* The refinement.  A step that makes a goroutine a reader or a writer is  *)
(* a legal acquisition because Exclusion holds after it.                   *)
(***************************************************************************)
Readers == {g \in Goroutine : pc[g] = "reading"}
Writer == IF \E g \in Goroutine : pc[g] = "writing" THEN w ELSE None

LEMMA WriterIs ==
  ASSUME IInv
  PROVE  /\ \A g \in Goroutine : pc[g] = "writing" => w = g /\ Writer = g
         /\ (\A g \in Goroutine : pc[g] # "writing") => Writer = None
         /\ \A g \in Goroutine : pc[g] \in OwnerPC => w = g
<1>1. \A g \in Goroutine : pc[g] = "writing" => w = g
  BY WriterAlone
<1> QED BY <1>1 DEF Writer, IInv, CountInv

\* A step inside a call that neither starts nor ends a critical section.
LEMMA Inside ==
  ASSUME NEW g \in Goroutine, NEW l, pc' = [pc EXCEPT ![g] = l], w' = w,
         pc \in [Goroutine -> PC],
         pc[g] \notin {"reading", "writing"}, l \notin {"reading", "writing"}
  PROVE  Readers' = Readers /\ Writer' = Writer
<1>1. \A h \in Goroutine : /\ pc'[h] = "reading" <=> pc[h] = "reading"
                           /\ pc'[h] = "writing" <=> pc[h] = "writing"
  OBVIOUS
<1>2. Readers' = Readers
  BY <1>1 DEF Readers
<1>3. Writer' = Writer
  BY <1>1 DEF Writer
<1> QED BY <1>2, <1>3

LEMMA StartsReading ==
  ASSUME IInv, Exclusion', NEW g \in Goroutine, pc' = [pc EXCEPT ![g] = "reading"], w' = w,
         pc[g] \notin {"reading", "writing"}
  PROVE  Writer = None /\ Writer' = None /\ g \notin Readers /\ Readers' = Readers \cup {g}
<1>1. pc'[g] = "reading" /\ \A h \in Goroutine : h # g => pc'[h] = pc[h]
  BY DEF IInv, TypeOK
<1>2. \A h \in Goroutine : pc'[h] # "writing"
  BY <1>1 DEF Exclusion
<1>3. \A h \in Goroutine : pc[h] # "writing"
  BY <1>1, <1>2
<1>4. Readers' = Readers \cup {g} /\ g \notin Readers
  BY <1>1 DEF Readers
<1> QED BY <1>2, <1>3, <1>4 DEF Writer

LEMMA StartsWriting ==
  ASSUME IInv, Exclusion', NEW g \in Goroutine, pc' = [pc EXCEPT ![g] = "writing"], w' = w,
         pc[g] \in OwnerPC \ {"writing"}
  PROVE  Writer = None /\ Writer' = g /\ Readers = {} /\ Readers' = {}
<1>1. pc'[g] = "writing" /\ \A h \in Goroutine : h # g => pc'[h] = pc[h]
  BY DEF IInv, TypeOK
<1>2. w = g /\ \A h \in Goroutine : pc[h] # "writing"
  BY WriterIs DEF IInv, CountInv, OwnerPC
<1>3. \A h \in Goroutine : pc'[h] # "reading"
  BY <1>1 DEF Exclusion
<1>4. \A h \in Goroutine : pc[h] # "reading"
  BY <1>1, <1>3 DEF OwnerPC
<1> QED BY <1>1, <1>2, <1>3, <1>4 DEF Writer, Readers

LEMMA StepRefines ==
  ASSUME IInv, Exclusion', Next
  PROVE  \/ \E g \in Goroutine :
              \/ /\ Writer = None /\ g \notin Readers
                 /\ Readers' = Readers \cup {g} /\ Writer' = Writer
              \/ /\ g \in Readers
                 /\ Readers' = Readers \ {g} /\ Writer' = Writer
              \/ /\ Writer = None /\ Readers = {}
                 /\ Writer' = g /\ Readers' = Readers
              \/ /\ Writer = g
                 /\ Writer' = None /\ Readers' = Readers
         \/ Readers' = Readers /\ Writer' = Writer
<1> USE DEF Goto
<1>0. PICK g \in Goroutine : Call(g) \/ LockMutex(g) \/ Proceed(g)
  BY DEF Next
<1>1. pc \in [Goroutine -> PC] /\ g # None
  BY RWMutexAssumption DEF IInv, TypeOK
<1>2. CASE RLock(g)
  <2>1. CASE pc' = [pc EXCEPT ![g] = "reading"]
    BY <1>2, <2>1, StartsReading DEF RLock
  <2>2. CASE pc' = [pc EXCEPT ![g] = "rSem"]
    BY <1>1, <1>2, <2>2, Inside DEF RLock
  <2> QED BY <1>2, <2>1, <2>2 DEF RLock, AfterRLock
<1>3. CASE RLockAcquire(g)
  BY <1>3, StartsReading DEF RLockAcquire
<1>4. CASE RUnlock(g)
  <2>1. /\ pc[g] = "reading" /\ w' = w
        /\ pc'[g] \notin {"reading", "writing"}
        /\ \A h \in Goroutine : h # g => pc'[h] = pc[h]
    BY <1>1, <1>4 DEF RUnlock, RUnlockBody, AfterRUnlock
  <2>2. g \in Readers /\ Readers' = Readers \ {g}
    BY <2>1 DEF Readers
  <2>3. Writer' = Writer
    BY <2>1 DEF Writer
  <2> QED BY <2>2, <2>3
<1>5. CASE RUnlockSlow(g)
  <2>1. AfterDeparture(readerWait - 1) \notin {"reading", "writing"}
    BY DEF AfterDeparture
  <2> QED BY <1>1, <1>5, <2>1, Inside DEF RUnlockSlow
<1>6. CASE RUnlockWake(g)
  BY <1>1, <1>6, Inside DEF RUnlockWake
<1>7. CASE LockCall(g)
  BY <1>1, <1>7, Inside DEF LockCall
<1>8. CASE LockMutex(g)
  <2>1. /\ \A h \in Goroutine : pc'[h] \in {"reading", "writing"} <=> pc[h] \in {"reading", "writing"}
        /\ \A h \in Goroutine : pc'[h] = "reading" <=> pc[h] = "reading"
    BY <1>1, <1>8 DEF LockMutex
  <2>2. \A h \in Goroutine : pc[h] # "writing"
    BY <1>8, WriterIs, RWMutexAssumption DEF LockMutex
  <2> QED BY <2>1, <2>2 DEF Readers, Writer
<1>9. CASE LockAnnounce(g)
  <2>1. CASE pc' = [pc EXCEPT ![g] = "writing"]
    BY <1>9, <2>1, StartsWriting DEF LockAnnounce, OwnerPC
  <2>2. CASE pc' = [pc EXCEPT ![g] = "wWait"]
    BY <1>1, <1>9, <2>2, Inside DEF LockAnnounce
  <2> QED BY <1>9, <2>1, <2>2 DEF LockAnnounce
<1>10. CASE LockWait(g)
  <2>1. CASE pc' = [pc EXCEPT ![g] = "writing"]
    BY <1>10, <2>1, StartsWriting DEF LockWait, OwnerPC
  <2>2. CASE pc' = [pc EXCEPT ![g] = "wSem"]
    BY <1>1, <1>10, <2>2, Inside DEF LockWait
  <2> QED BY <1>10, <2>1, <2>2 DEF LockWait, AfterLockWait
<1>11. CASE LockAcquire(g)
  BY <1>11, StartsWriting DEF LockAcquire, OwnerPC
<1>12. CASE Unlock(g)
  <2>1. /\ pc[g] = "writing" /\ w' = w
        /\ pc'[g] \notin {"reading", "writing"}
        /\ \A h \in Goroutine : h # g => pc'[h] = pc[h]
    BY <1>1, <1>12 DEF Unlock
  <2>2. Writer = g /\ \A h \in Goroutine : pc[h] = "writing" => h = g
    BY <2>1, WriterIs
  <2>3. Readers' = Readers
    BY <2>1 DEF Readers
  <2>4. Writer' = None
    BY <2>1, <2>2 DEF Writer
  <2> QED BY <2>2, <2>3, <2>4
<1>13. CASE UnlockWake(g)
  BY <1>13 DEF UnlockWake, Readers, Writer
<1>14. CASE UnlockMutex(g)
  <2>1. /\ pc[g] = "wWake" /\ pc' = [pc EXCEPT ![g] = "idle"]
        /\ \A h \in Goroutine : pc[h] # "writing"
    BY <1>14, WriterIs DEF UnlockMutex, OwnerPC
  <2>2. \A h \in Goroutine : /\ pc'[h] # "writing"
                             /\ pc'[h] = "reading" <=> pc[h] = "reading"
    BY <1>1, <2>1
  <2> QED BY <2>1, <2>2 DEF Readers, Writer
<1> QED BY <1>0, <1>2, <1>3, <1>4, <1>5, <1>6, <1>7, <1>8, <1>9, <1>10,
           <1>11, <1>12, <1>13, <1>14 DEF Call, Proceed

\* RWMutex implements the abstract reader/writer lock.
THEOREM Refinement == Spec => ImplementsRWLock
<1>1. Init => RW!Init
  BY DEF Init, RW!Init
<1>2. IInv /\ Exclusion' /\ [Next]_vars => [RW!Next]_(RW!lock)
  <2> SUFFICES ASSUME IInv, Exclusion', [Next]_vars
               PROVE  [RW!Next]_(RW!lock)
    OBVIOUS
  <2>1. CASE UNCHANGED vars
    BY <2>1 DEF vars, RW!lock
  <2>2. CASE Next
    BY <2>2, StepRefines
    DEF Readers, Writer, RW!Next, RW!AcquireRead, RW!ReleaseRead,
        RW!AcquireWrite, RW!ReleaseWrite, RW!lock
  <2> QED BY <2>1, <2>2
<1> QED BY <1>1, <1>2, Invariance, MutualExclusion, PTL
        DEF Spec, ImplementsRWLock, RW!Spec

-----------------------------------------------------------------------------
(***************************************************************************)
(* Gin is correct for every set of requests, Contexts and handlers and for *)
(* every number of calls.  Three invariants are inductive: DataInv, which  *)
(* says whose Context it is and does not depend on the index; OrderInv,    *)
(* which follows the index of a request along its chain while it is in     *)
(* range; and AnswerInv, which relates a response writer to what its       *)
(* client has.  The last two rest on the first.                            *)
(***************************************************************************)
-----------------------------------------------------------------------------
(***************************************************************************)
(* The operators of the model.                                             *)
(***************************************************************************)
LEMMA WrapInt == \A i \in Int : Wrap(i) \in Int
  BY GinAssumption, SMT DEF Wrap

LEMMA WrapSmall == \A i \in Int : -Half <= i /\ i < Half => Wrap(i) = i
  BY GinAssumption, SMT DEF Wrap

LEMMA SomeSeq ==
  \A s \in Some : s \in Seq(Handler) /\ Len(s) \in Nat /\ Len(s) <= MaxHandlers
<1> TAKE s \in Some
<1>1. PICK n \in 0 .. MaxHandlers : s \in [1 .. n -> Handler]
  BY DEF Some
<1> QED
  BY <1>1, GinAssumption

LEMMA SeqSome ==
  ASSUME NEW s \in Seq(Handler), Len(s) <= MaxHandlers PROVE s \in Some
<1>1. s \in [1 .. Len(s) -> Handler] /\ Len(s) \in 0 .. MaxHandlers
  BY GinAssumption
<1> QED
  BY <1>1, GinAssumption DEF Some

\* What the response writer does to a Context leaves the request its data.
Kin(x, y) ==
  /\ y \in Context /\ y.rw = x.rw /\ y.keys = x.keys
  /\ y.handlers = x.handlers /\ y.index = x.index

LEMMA WriterKin ==
  ASSUME NEW x \in Context
  PROVE  /\ \A code \in Int : Kin(x, WriteHeader(x, code))
         /\ Kin(x, WriteHeaderNow(x))
         /\ \A n \in Nat : Kin(x, WriteBytes(x, n))
         /\ Kin(x, Hijacked(x))
<1>1. \A code \in Int : Kin(x, WriteHeader(x, code))
  BY DEF Kin, WriteHeader, Context
<1>2. Kin(x, WriteHeaderNow(x))
  BY DEF Kin, WriteHeaderNow, Context
<1>3. \A n \in Nat : Kin(x, WriteBytes(x, n))
  BY <1>2 DEF Kin, WriteBytes, Context
<1>4. Kin(x, Hijacked(x))
  BY DEF Kin, Hijacked, Context
<1> QED
  BY <1>1, <1>2, <1>3, <1>4

LEMMA MissedType ==
  ASSUME NEW x, NEW rs \in Response
  PROVE  Missed(x, rs) \in Response /\ Missed(x, rs).body = rs.body
  BY DEF Missed, Response

LEMMA HeaderType ==
  ASSUME NEW x \in Context, NEW rs \in Response
  PROVE  Header(x, rs) \in Response /\ Header(x, rs).body = rs.body
<1> DEFINE late == rs.disorder \/ rs.hijacked
           codes == Append(rs.codes, x.status)
<1>1. codes \in Seq(Int) /\ late \in BOOLEAN
  BY DEF Context, Response
<1>2. \/ Header(x, rs) = rs \/ Header(x, rs) = Missed(x, rs)
      \/ Header(x, rs) = [rs EXCEPT !.codes = codes, !.disorder = late]
  BY DEF Header
<1> HIDE DEF late, codes
<1>3. ASSUME Header(x, rs) = [rs EXCEPT !.codes = codes, !.disorder = late]
      PROVE  Header(x, rs) \in Response /\ Header(x, rs).body = rs.body
  BY <1>1, <1>3 DEF Response
<1> QED
  BY <1>2, <1>3, MissedType

LEMMA ImplicitType ==
  ASSUME NEW rs \in Response
  PROVE  Implicit(rs) \in Response /\ Implicit(rs).body = rs.body
<1>1. <<defaultStatus>> \in Seq(Int)
  BY DEF defaultStatus
<1> DEFINE codes == <<defaultStatus>>
<1>2. Implicit(rs) = rs \/ Implicit(rs) = [rs EXCEPT !.codes = codes]
  BY DEF Implicit
<1> HIDE DEF codes
<1> QED
  BY <1>1, <1>2 DEF Response, codes

LEMMA BodyType ==
  ASSUME NEW x \in Context, NEW rs \in Response, NEW q \in Request, NEW n \in Nat
  PROVE  /\ Body(x, rs, q, n) \in Response
         /\ ToSet(rs.body) \subseteq {q} => ToSet(Body(x, rs, q, n).body) \subseteq {q}
<1> DEFINE h == Implicit(Header(x, rs))
           more == [i \in 1 .. n |-> q]
<1>1. h \in Response /\ h.body = rs.body
  BY HeaderType, ImplicitType
<1>2. more \in Seq(Request) /\ rs.body \in Seq(Request) /\ rs.body \o more \in Seq(Request)
  BY <1>1 DEF Response
<1>3. Body(x, rs, q, n) \in Response /\ Body(x, rs, q, n).body = rs.body \o more
  <2>1. Body(x, rs, q, n) = [h EXCEPT !.body = h.body \o more]
    BY DEF Body
  <2> HIDE DEF h, more
  <2> QED
    BY <1>1, <1>2, <2>1 DEF Response
<1>4. ASSUME ToSet(rs.body) \subseteq {q} PROVE ToSet(rs.body \o more) \subseteq {q}
  <2> SUFFICES ASSUME NEW k \in DOMAIN (rs.body \o more) PROVE (rs.body \o more)[k] = q
    BY DEF ToSet
  <2>1. rs.body \in Seq(Request) /\ more \in Seq(Request) /\ Len(more) = n
    BY <1>2
  <2>2. k \in 1 .. Len(rs.body) + n
    BY <2>1
  <2>3. CASE k <= Len(rs.body)
    <3>1. k \in DOMAIN rs.body /\ (rs.body \o more)[k] = rs.body[k]
      BY <2>1, <2>2, <2>3
    <3> QED
      BY <3>1, <1>4 DEF ToSet
  <2>4. CASE k > Len(rs.body)
    <3>1. k - Len(rs.body) \in 1 .. n /\ (rs.body \o more)[k] = more[k - Len(rs.body)]
      BY <2>1, <2>2, <2>4
    <3> QED
      BY <3>1
  <2> QED
    BY <2>1, <2>2, <2>3, <2>4
<1> QED
  BY <1>3, <1>4

\* The innermost frame changes its state.
SetTop(s, v) == [s EXCEPT ![Len(s)].next = v]

LEMMA SetTopType ==
  ASSUME NEW s \in Seq(Frame), s # <<>>, NEW v \in {"in", "called", "cut"}
  PROVE  /\ SetTop(s, v) \in Seq(Frame) /\ Len(SetTop(s, v)) = Len(s)
         /\ \A k \in 1 .. Len(s) :
              /\ SetTop(s, v)[k].pos = s[k].pos
              /\ SetTop(s, v)[k].next = IF k = Len(s) THEN v ELSE s[k].next
<1> DEFINE f == [s[Len(s)] EXCEPT !.next = v]
<1>1. Len(s) \in 1 .. Len(s) /\ \A k \in 1 .. Len(s) : s[k] \in Frame
  OBVIOUS
<1>2. f \in Frame /\ f.pos = s[Len(s)].pos /\ f.next = v
  BY <1>1 DEF Frame
<1>3. SetTop(s, v) = [s EXCEPT ![Len(s)] = f]
  BY DEF SetTop
<1> HIDE DEF f
<1>4. /\ SetTop(s, v) \in Seq(Frame) /\ Len(SetTop(s, v)) = Len(s)
      /\ \A k \in 1 .. Len(s) : SetTop(s, v)[k] = IF k = Len(s) THEN f ELSE s[k]
  BY <1>1, <1>2, <1>3
<1> QED
  BY <1>2, <1>4

LEMMA ResumedType ==
  ASSUME NEW fs \in Seq(Frame)
  PROVE  /\ Resumed(fs) \in Seq(Frame)
         /\ fs = <<>> => Resumed(fs) = <<>>
         /\ fs # <<>> => Resumed(fs) = SetTop(fs, "called")
<1>1. CASE fs = <<>>
  BY <1>1 DEF Resumed
<1>2. CASE fs # <<>>
  BY <1>2, SetTopType DEF Resumed, SetTop
<1> QED
  BY <1>1, <1>2

-----------------------------------------------------------------------------
(***************************************************************************)
(* What a request finds in its Context.                                    *)
(***************************************************************************)
\* What each request keeps to itself.
DataInv == GinTypeOK /\ Owners /\ OwnData

\* Only the data of the running handlers and of the Context of q change, and the
\* Context still serves q.
OnlyContext(q) ==
  /\ UNCHANGED <<setup, pool, c>>
  /\ \E y \in Context :
       /\ y.rw = q /\ y.keys \subseteq {q}
       /\ context' = [context EXCEPT ![c[q]] = y]
  /\ \A p \in Request : ToSet(resp'[p].body) \subseteq {p}

LEMMA ContextServes ==
  ASSUME DataInv, NEW q \in Request, rpc[q] # "idle"
  PROVE  /\ c[q] \in Contexts /\ Mine(q) \in Context
         /\ Mine(q).rw = q /\ Mine(q).keys \subseteq {q}
         /\ Client(q) = resp[q] /\ Client(q) \in Response
         /\ ToSet(Client(q).body) \subseteq {q}
<1>1. c[q] \in Contexts
  BY GinAssumption DEF DataInv, GinTypeOK
<1>2. c[q] # Nil
  BY <1>1, GinAssumption
<1>3. Mine(q) \in Context
  BY <1>1 DEF DataInv, GinTypeOK, Mine
<1>4. Mine(q).rw = q /\ Mine(q).keys \subseteq {q} /\ ToSet(resp[q].body) \subseteq {q}
  BY <1>2 DEF DataInv, Owners, OwnData
<1>5. Client(q) = resp[q] /\ resp[q] \in Response
  BY <1>4 DEF DataInv, GinTypeOK, Client
<1> QED
  BY <1>1, <1>3, <1>4, <1>5

LEMMA DataKept ==
  ASSUME DataInv, NEW q \in Request, rpc[q] # "idle", OnlyContext(q)
  PROVE  Owners' /\ OwnData' /\ context' \in [Contexts -> Context]
<1>1. c[q] \in Contexts
  BY ContextServes
<1>2. PICK y \in Context : /\ y.rw = q /\ y.keys \subseteq {q}
                           /\ context' = [context EXCEPT ![c[q]] = y]
  BY DEF OnlyContext
<1>3. /\ UNCHANGED <<phase, pool, c>>
      /\ \A p \in Request : ToSet(resp'[p].body) \subseteq {p}
  BY DEF OnlyContext, setup
<1>4. context' \in [Contexts -> Context]
  BY <1>1, <1>2 DEF DataInv, GinTypeOK
<1>5. ASSUME NEW p \in Request, c[p] # Nil
      PROVE  context'[c[p]].rw = p /\ context'[c[p]].keys \subseteq {p}
  <2>1. c[p] \in Contexts
    BY <1>5 DEF DataInv, GinTypeOK
  <2>2. CASE p = q
    BY <1>1, <1>2, <2>2 DEF DataInv, GinTypeOK
  <2>3. CASE p # q
    <3>1. c[p] # c[q]
      BY <1>5, <2>3 DEF DataInv, Owners
    <3> QED
      BY <1>2, <1>5, <2>1, <3>1 DEF DataInv, GinTypeOK, Owners, OwnData, Mine
  <2> QED
    BY <2>2, <2>3
<1>6. Owners'
  BY <1>3, <1>5 DEF DataInv, Owners, Mine
<1>7. OwnData'
  BY <1>3, <1>5 DEF OwnData, Mine
<1> QED
  BY <1>4, <1>6, <1>7

\* Next never touches what the handlers store.
LEMMA AdvanceData ==
  ASSUME DataInv, NEW q \in Request, rpc[q] # "idle",
         NEW x \in Context, x.rw = q, x.keys \subseteq {q},
         NEW fs \in Seq(Frame), Advance(q, x, fs), UNCHANGED <<setup, pool, c, answer>>,
         nexts' \in [Request -> Nat]
  PROVE  DataInv'
<1> DEFINE i == Wrap(x.index + 1)
<1>1. i \in Int
  BY WrapInt DEF Context
<1>2. OnlyContext(q)
  <2> DEFINE y == [x EXCEPT !.index = i]
  <2>1. y \in Context /\ y.rw = q /\ y.keys \subseteq {q}
    BY <1>1 DEF Context
  <2>2. context' = [context EXCEPT ![c[q]] = y]
    BY DEF Advance
  <2>3. \A p \in Request : ToSet(resp'[p].body) \subseteq {p}
    BY DEF DataInv, OwnData, answer
  <2> QED
    BY <2>1, <2>2, <2>3 DEF OnlyContext
<1>3. Owners' /\ OwnData' /\ context' \in [Contexts -> Context]
  BY <1>2, DataKept
<1>4. Resumed(fs) \in Seq(Frame)
  BY ResumedType
<1>5. i \in Nat => Append(fs, [pos |-> i, next |-> "no"]) \in Seq(Frame)
  BY DEF Frame
<1>6. /\ frames' \in [Request -> Seq(Frame)] /\ ran' \in [Request -> Seq(Nat)]
      /\ wrapped' \in [Request -> BOOLEAN]
      /\ \E s \in {"handler", "panic", "header"} : rpc' = [rpc EXCEPT ![q] = s]
  <2> USE DEF DataInv, GinTypeOK
  <2>1. CASE i >= Wrap(Len(x.handlers))
    <3>1. /\ frames' = [frames EXCEPT ![q] = Resumed(fs)]
          /\ rpc' = [rpc EXCEPT ![q] = IF fs = <<>> THEN "header" ELSE "handler"]
          /\ UNCHANGED <<ran, wrapped>>
      BY <2>1 DEF Advance
    <3> QED
      BY <3>1, <1>4
  <2>2. CASE ~(i >= Wrap(Len(x.handlers))) /\ i < 0
    <3>1. /\ rpc' = [rpc EXCEPT ![q] = "panic"]
          /\ frames' = [frames EXCEPT ![q] = fs]
          /\ wrapped' = [wrapped EXCEPT ![q] = TRUE] /\ UNCHANGED ran
      BY <2>2 DEF Advance
    <3> QED
      BY <3>1
  <2>3. CASE ~(i >= Wrap(Len(x.handlers))) /\ ~(i < 0)
    <3>1. /\ frames' = [frames EXCEPT ![q] = Append(fs, [pos |-> i, next |-> "no"])]
          /\ ran' = [ran EXCEPT ![q] = Append(@, i)]
          /\ rpc' = [rpc EXCEPT ![q] = "handler"]
          /\ UNCHANGED wrapped
      BY <2>3 DEF Advance
    <3>2. i \in Nat /\ Append(ran[q], i) \in Seq(Nat)
      BY <1>1, <2>3
    <3> QED
      BY <3>1, <3>2, <1>5
  <2> QED
    BY <2>1, <2>2, <2>3
<1>7. GinTypeOK'
  BY SMTT(30), <1>3, <1>6 DEF DataInv, GinTypeOK, setup, answer
<1> QED
  BY <1>3, <1>7 DEF DataInv

\* A call stores in the Context of the request and writes to its client.
LEMMA CallsData ==
  ASSUME DataInv, NEW q \in Request,
         NEW x \in Context, x.rw = q, x.keys \subseteq {q},
         NEW rs \in Response, ToSet(rs.body) \subseteq {q},
         NEW l \in Failed, Calls(q, x, rs, l), asked' \in [Request -> Int]
  PROVE  DataInv'
<1>1. rpc[q] # "idle" /\ c[q] \in Contexts
  BY ContextServes DEF Calls, InHandler
<1>2. resp' \in [Request -> Response] /\ \A p \in Request : ToSet(resp'[p].body) \subseteq {p}
  BY DEF Calls, DataInv, GinTypeOK, OwnData
<1>3. OnlyContext(q)
  BY <1>2 DEF OnlyContext, Calls
<1>4. Owners' /\ OwnData' /\ context' \in [Contexts -> Context]
  BY <1>1, <1>3, DataKept
<1>5. /\ calls' \in [Request -> Nat] /\ rpc' = [rpc EXCEPT ![q] = l]
      /\ l \in {"handler", "panic"} /\ UNCHANGED <<setup, pool, c, frames, ran, nexts, wrapped>>
  BY DEF Calls, Failed, DataInv, GinTypeOK
<1>6. GinTypeOK'
  BY <1>1, <1>2, <1>4, <1>5 DEF DataInv, GinTypeOK, setup
<1> QED
  BY <1>4, <1>6 DEF DataInv

\* The Context of a request that is over serves nobody.
LEMMA OverData ==
  ASSUME DataInv, NEW q \in Request, rpc[q] # "idle", NEW b \in BOOLEAN, Over(q, b)
  PROVE  DataInv'
<1>1. c[q] \in Contexts
  BY ContextServes
<1>2. NoResponse \in Response /\ ToSet(NoResponse.body) = {}
  BY DEF NoResponse, Response, ToSet
<1>3. /\ c' = [c EXCEPT ![q] = Nil] /\ rpc' = [rpc EXCEPT ![q] = "idle"]
      /\ pool' \subseteq pool \cup {c[q]}
      /\ frames' = [frames EXCEPT ![q] = <<>>] /\ ran' = [ran EXCEPT ![q] = <<>>]
      /\ calls' = [calls EXCEPT ![q] = 0] /\ resp' = [resp EXCEPT ![q] = NoResponse]
      /\ asked' = [asked EXCEPT ![q] = defaultStatus]
      /\ nexts' = [nexts EXCEPT ![q] = 0] /\ wrapped' = [wrapped EXCEPT ![q] = FALSE]
      /\ UNCHANGED <<phase, Handlers, route, context>>
  BY DEF Over, setup
<1>4. GinTypeOK'
  <2>1. c' \in [Request -> Contexts \cup {Nil}] /\ pool' \subseteq Contexts
    BY <1>1, <1>3 DEF DataInv, GinTypeOK
  <2>2. \A p \in Request : rpc'[p] = "idle" <=> c'[p] = Nil
    BY <1>3 DEF DataInv, GinTypeOK
  <2>3. /\ frames' \in [Request -> Seq(Frame)] /\ ran' \in [Request -> Seq(Nat)]
        /\ nexts' \in [Request -> Nat] /\ wrapped' \in [Request -> BOOLEAN]
    BY <1>3 DEF DataInv, GinTypeOK
  <2>4. calls' \in [Request -> Nat] /\ asked' \in [Request -> Int] /\ resp' \in [Request -> Response]
    BY <1>2, <1>3 DEF DataInv, GinTypeOK, defaultStatus
  <2>5. rpc' \in [Request -> {"idle", "lookup", "handler", "panic", "header", "put"}]
    BY <1>3 DEF DataInv, GinTypeOK
  <2> QED
    BY <1>3, <2>1, <2>2, <2>3, <2>4, <2>5 DEF DataInv, GinTypeOK
<1>5. Owners'
  <2>1. Nil \notin pool' /\ \A p \in Request : c[p] # Nil => c[p] \in Contexts
    BY <1>4, GinAssumption DEF DataInv, GinTypeOK
  <2>2. \A p \in Request : c'[p] = IF p = q THEN Nil ELSE c[p]
    BY <1>3 DEF DataInv, GinTypeOK
  <2>3. \A p \in Request : c'[p] \notin pool'
    BY <1>3, <2>1, <2>2 DEF DataInv, Owners
  <2> QED
    BY <1>3, <2>2, <2>3 DEF DataInv, Owners, Mine
<1>6. OwnData'
  <2>1. \A p \in Request : ToSet(resp'[p].body) \subseteq {p}
    BY ZenonT(60), <1>2, <1>3 DEF DataInv, GinTypeOK, OwnData
  <2>2. \A p \in Request : c'[p] # Nil => c'[p] = c[p]
    BY <1>3 DEF DataInv, GinTypeOK
  <2> QED
    BY <1>3, <2>1, <2>2 DEF DataInv, OwnData, Mine
<1> QED
  BY <1>4, <1>5, <1>6 DEF DataInv

LEMMA ResetType ==
  ASSUME NEW x \in Context
  PROVE  /\ Reset(x) \in Context /\ Reset(x).rw = x.rw
         /\ Reset(x).keys = {} /\ Reset(x).index = -1 /\ Reset(x).handlers = Nil
         /\ Reset(x).size = x.size /\ Reset(x).status = x.status
<1> DEFINE y == [x EXCEPT !.handlers = Nil]
           z == [y EXCEPT !.index = -1]
           wr == [z EXCEPT !.keys = {}]
           Same(t) == t \in Context /\ t.rw = x.rw /\ t.size = x.size /\ t.status = x.status
<1>1. Same(y) /\ y.handlers = Nil
  BY DEF Context
<1> HIDE DEF y
<1>2. Same(z) /\ z.handlers = Nil /\ z.index = -1
  BY <1>1 DEF Context
<1> HIDE DEF z
<1>3. Same(wr) /\ wr.handlers = Nil /\ wr.index = -1 /\ wr.keys = {}
  BY <1>2 DEF Context
<1>4. Reset(x) = wr
  BY DEF Reset, y, z
<1> HIDE DEF wr
<1> QED
  BY <1>3, <1>4

LEMMA WriterResetType ==
  ASSUME NEW x \in Context, NEW q \in Request
  PROVE  /\ WriterReset(x, q) \in Context /\ WriterReset(x, q).rw = q
         /\ WriterReset(x, q).size = noWritten /\ WriterReset(x, q).status = defaultStatus
<1> DEFINE y == [x EXCEPT !.rw = q]
           z == [y EXCEPT !.size = noWritten]
           wr == [z EXCEPT !.status = defaultStatus]
<1>1. y \in Context /\ y.rw = q
  BY DEF Context
<1> HIDE DEF y
<1>2. z \in Context /\ z.rw = q /\ z.size = noWritten
  BY <1>1 DEF Context, noWritten
<1> HIDE DEF z
<1>3. wr \in Context /\ wr.rw = q /\ wr.size = noWritten /\ wr.status = defaultStatus
  BY <1>2 DEF Context, defaultStatus
<1>4. WriterReset(x, q) = wr
  BY DEF WriterReset, y, z
<1> HIDE DEF wr
<1> QED
  BY <1>3, <1>4

\* A Context is taken, from the pool or new, when it serves nobody.
LEMMA ServeData ==
  ASSUME DataInv, NEW q \in Request, ServeHTTP(q)
  PROVE  DataInv'
<1>1. PICK x \in Contexts \ {c[p] : p \in Request} :
        /\ c' = [c EXCEPT ![q] = x]
        /\ pool' = pool \ {x}
        /\ context' = [context EXCEPT
             ![x] = Reset(WriterReset(IF x \in pool THEN @ ELSE NewContext, q))]
  BY DEF ServeHTTP, AfterGet
<1> DEFINE old == IF x \in pool THEN context[x] ELSE NewContext
           y == Reset(WriterReset(old, q))
<1>2. /\ phase = "serving" /\ rpc[q] = "idle" /\ rpc' = [rpc EXCEPT ![q] = "lookup"]
      /\ UNCHANGED <<phase, Handlers, route, frames, ran, nexts, wrapped, calls, resp, asked>>
  BY DEF ServeHTTP, setup, answer
<1>3. y \in Context /\ y.rw = q /\ y.keys = {}
  <2>1. NewContext \in Context
    BY DEF NewContext, Context
  <2>2. old \in Context
    BY <2>1 DEF DataInv, GinTypeOK
  <2> HIDE DEF old
  <2>3. WriterReset(old, q) \in Context /\ WriterReset(old, q).rw = q
    BY <2>2, WriterResetType
  <2> QED
    BY <2>3, ResetType
<1>4. context' = [context EXCEPT ![x] = y]
  BY <1>1
<1> HIDE DEF y, old
<1>5. context' \in [Contexts -> Context]
  BY <1>1, <1>3, <1>4 DEF DataInv, GinTypeOK
<1>6. x # Nil /\ \A p \in Request : c[p] # x /\ c'[p] = IF p = q THEN x ELSE c[p]
  BY <1>1, GinAssumption DEF DataInv, GinTypeOK
<1>7. \A p \in Request : c'[p] # Nil =>
        context'[c'[p]].rw = p /\ context'[c'[p]].keys \subseteq {p}
  <2> SUFFICES ASSUME NEW p \in Request, c'[p] # Nil
               PROVE  context'[c'[p]].rw = p /\ context'[c'[p]].keys \subseteq {p}
    OBVIOUS
  <2>1. CASE p = q
    BY <2>1, <1>1, <1>3, <1>4, <1>6 DEF DataInv, GinTypeOK
  <2>2. CASE p # q
    <3>1. c'[p] = c[p] /\ c[p] # x /\ c[p] \in Contexts
      BY <2>2, <1>6 DEF DataInv, GinTypeOK
    <3>2. context'[c[p]] = context[c[p]]
      BY <3>1, <1>1, <1>4 DEF DataInv, GinTypeOK
    <3> QED
      BY <3>1, <3>2 DEF DataInv, Owners, OwnData, Mine
  <2> QED
    BY <2>1, <2>2
<1>8. GinTypeOK'
  <2>1. /\ c' \in [Request -> Contexts \cup {Nil}] /\ pool' \subseteq Contexts
        /\ rpc' \in [Request -> {"idle", "lookup", "handler", "panic", "header", "put"}]
    BY <1>1, <1>2 DEF DataInv, GinTypeOK
  <2>2. \A p \in Request : rpc'[p] = "idle" <=> c'[p] = Nil
    BY <1>2, <1>6 DEF DataInv, GinTypeOK
  <2> QED
    BY <1>2, <1>5, <2>1, <2>2 DEF DataInv, GinTypeOK
<1>9. Owners'
  BY <1>1, <1>2, <1>6, <1>7 DEF DataInv, Owners, Mine
<1>10. OwnData'
  BY <1>2, <1>7 DEF DataInv, OwnData, Mine
<1> QED
  BY <1>8, <1>9, <1>10 DEF DataInv

\* A step that leaves the Contexts and their requests alone.
LEMMA DataSame ==
  ASSUME DataInv, GinTypeOK', UNCHANGED <<phase, context, c, resp>>, pool' \subseteq pool
  PROVE  DataInv'
  BY DEF DataInv, Owners, OwnData, Mine

\* Registration, and the steps of a request that only move it.
LEMMA DataPlain ==
  ASSUME DataInv, \/ \E hs \in Some : Use(hs) \/ GET(hs)
                  \/ Run \/ PoolDrops
                  \/ \E q \in Request : NotFound(q) \/ HandlerPanics(q) \/ Recovers(q)
  PROVE  DataInv'
<1>1. ASSUME NEW hs \in Some, Use(hs) PROVE DataInv'
  <2>1. Handlers \o hs \in Some
    <3>1. Handlers \in Seq(Handler) /\ hs \in Seq(Handler)
      BY SomeSeq DEF DataInv, GinTypeOK
    <3>2. Len(Handlers \o hs) <= MaxHandlers /\ Handlers \o hs \in Seq(Handler)
      BY <1>1, <3>1 DEF Use
    <3> QED
      BY <3>2, SeqSome
  <2>2. GinTypeOK'
    BY <1>1, <2>1 DEF DataInv, GinTypeOK, Use, running, answer
  <2> QED
    BY <1>1, <2>2, DataSame DEF Use, running, answer
<1>2. ASSUME NEW hs \in Some, GET(hs) PROVE DataInv'
  <2>1. Handlers \o hs \in Some
    <3>1. Handlers \in Seq(Handler) /\ hs \in Seq(Handler)
      BY SomeSeq DEF DataInv, GinTypeOK
    <3>2. Len(Handlers \o hs) <= MaxHandlers /\ Handlers \o hs \in Seq(Handler)
      BY <1>2, <3>1 DEF GET, combineHandlers
    <3> QED
      BY <3>2, SeqSome
  <2>2. phase = "setup" /\ route' = Handlers \o hs
    BY <1>2 DEF GET, addRoute, combineHandlers
  <2>3. GinTypeOK'
    BY <1>2, <2>1, <2>2 DEF DataInv, GinTypeOK, GET, running, answer
  <2> QED
    BY <1>2, <2>3, DataSame DEF GET, running, answer
<1>3. ASSUME Run PROVE DataInv'
  <2>1. GinTypeOK'
    BY <1>3 DEF DataInv, GinTypeOK, Run, running, answer
  <2> QED
    BY <1>3, <2>1 DEF DataInv, Owners, OwnData, Mine, Run, running, answer
<1>4. ASSUME PoolDrops PROVE DataInv'
  <2>1. GinTypeOK'
    BY <1>4 DEF DataInv, GinTypeOK, PoolDrops, setup, running, answer
  <2> QED
    BY <1>4, <2>1, DataSame DEF PoolDrops, setup, running, answer
<1>5. ASSUME NEW q \in Request, NotFound(q) PROVE DataInv'
  <2>1. GinTypeOK'
    BY <1>5 DEF DataInv, GinTypeOK, NotFound, setup, answer
  <2> QED
    BY <1>5, <2>1, DataSame DEF NotFound, setup, answer
<1>6. ASSUME NEW q \in Request, HandlerPanics(q) PROVE DataInv'
  <2>1. GinTypeOK'
    BY <1>6 DEF DataInv, GinTypeOK, HandlerPanics, InHandler, setup, answer
  <2> QED
    BY <1>6, <2>1, DataSame DEF HandlerPanics, setup, answer
<1>7. ASSUME NEW q \in Request, Recovers(q) PROVE DataInv'
  <2>1. PICK k \in DOMAIN frames[q] :
          frames' = [frames EXCEPT ![q] = [SubSeq(@, 1, k) EXCEPT ![k].next = "cut"]]
    BY <1>7 DEF Recovers
  <2> DEFINE s == SubSeq(frames[q], 1, k)
             f == [s[k] EXCEPT !.next = "cut"]
  <2>2. frames[q] \in Seq(Frame) /\ k \in 1 .. Len(frames[q])
    BY DEF DataInv, GinTypeOK
  <2>3. s \in Seq(Frame) /\ Len(s) = k /\ s[k] \in Frame
    BY <2>2
  <2>4. f \in Frame
    BY <2>3 DEF Frame
  <2>5. [s EXCEPT ![k] = f] \in Seq(Frame)
    <3> HIDE DEF s, f
    <3> QED
      BY <2>2, <2>3, <2>4
  <2>6. frames' \in [Request -> Seq(Frame)]
    BY <2>1, <2>5 DEF DataInv, GinTypeOK
  <2>7. GinTypeOK'
    BY <1>7, <2>6 DEF DataInv, GinTypeOK, Recovers, setup, answer
  <2> QED
    BY <1>7, <2>7, DataSame DEF Recovers, setup, answer
<1> QED
  BY <1>1, <1>2, <1>3, <1>4, <1>5, <1>6, <1>7

\* The steps of Next in the chain of handlers.
LEMMA DataChain ==
  ASSUME DataInv, NEW q \in Request, Found(q) \/ CallNext(q) \/ HandlerReturns(q)
  PROVE  DataInv'
<1>1. rpc[q] # "idle" /\ Mine(q) \in Context /\ Mine(q).rw = q /\ Mine(q).keys \subseteq {q}
  BY ContextServes DEF Found, CallNext, HandlerReturns, InHandler
<1>2. frames[q] \in Seq(Frame)
  BY DEF DataInv, GinTypeOK
<1>3. ASSUME Found(q) PROVE DataInv'
  <2> DEFINE x == [Mine(q) EXCEPT !.handlers = getValue]
  <2>1. x \in Context /\ x.rw = q /\ x.keys \subseteq {q}
    BY <1>1 DEF Context, getValue, DataInv, GinTypeOK
  <2>2. /\ Advance(q, x, <<>>) /\ UNCHANGED <<setup, pool, c, answer>>
        /\ nexts' \in [Request -> Nat]
    BY <1>3 DEF Found, Mine, DataInv, GinTypeOK
  <2>3. <<>> \in Seq(Frame)
    OBVIOUS
  <2> HIDE DEF x
  <2> QED
    BY <1>1, <2>1, <2>2, <2>3, AdvanceData
<1>4. ASSUME CallNext(q) PROVE DataInv'
  <2> DEFINE fs == SetTop(frames[q], "in")
  <2>1. fs \in Seq(Frame)
    <3>1. CASE frames[q] = <<>>
      <4>1. fs = <<>>
        BY <3>1 DEF SetTop
      <4>2. <<>> \in Seq(Frame)
        OBVIOUS
      <4> HIDE DEF fs
      <4> QED
        BY <4>1, <4>2
    <3>2. CASE frames[q] # <<>>
      BY <1>2, <3>2, SetTopType
    <3> QED
      BY <3>1, <3>2
  <2>2. /\ Advance(q, Mine(q), fs) /\ UNCHANGED <<setup, pool, c, answer>>
        /\ nexts' \in [Request -> Nat]
    BY <1>4 DEF CallNext, Mine, SetTop, DataInv, GinTypeOK
  <2> HIDE DEF fs
  <2> QED
    BY <1>1, <2>1, <2>2, AdvanceData
<1>5. ASSUME HandlerReturns(q) PROVE DataInv'
  <2>1. Front(frames[q]) \in Seq(Frame)
    BY <1>2 DEF Front
  <2>2. /\ Advance(q, Mine(q), Front(frames[q])) /\ UNCHANGED <<setup, pool, c, answer>>
        /\ nexts' \in [Request -> Nat]
    BY <1>5 DEF HandlerReturns, Mine, DataInv, GinTypeOK
  <2> QED
    BY <1>1, <2>1, <2>2, AdvanceData
<1> QED
  BY <1>3, <1>4, <1>5

\* What the handlers ask of their Context.
Uses(q) ==
  Set(q) \/ SetCode(q) \/ ForceHeader(q) \/ Write(q) \/ Flush(q) \/ Hijack(q)

LEMMA DataCalls ==
  ASSUME DataInv, NEW q \in Request, Uses(q)
  PROVE  DataInv'
<1>1. rpc[q] # "idle"
  BY DEF Uses, Set, SetCode, ForceHeader, Write, Flush, Hijack, Calls, InHandler
<1>2. /\ Mine(q) \in Context /\ Mine(q).rw = q /\ Mine(q).keys \subseteq {q}
      /\ Client(q) \in Response /\ ToSet(Client(q).body) \subseteq {q}
  BY <1>1, ContextServes
<1>3. UNCHANGED asked => asked' \in [Request -> Int]
  BY DEF DataInv, GinTypeOK
<1>4. "handler" \in Failed
  BY DEF Failed
<1>5. ASSUME Set(q) PROVE DataInv'
  <2> DEFINE x == [Mine(q) EXCEPT !.keys = @ \cup {q}]
  <2>1. x \in Context /\ x.rw = q /\ x.keys \subseteq {q}
    BY <1>2 DEF Context
  <2>2. Calls(q, x, Client(q), "handler") /\ asked' \in [Request -> Int]
    BY <1>3, <1>5 DEF Set
  <2> HIDE DEF x
  <2> QED
    BY <1>2, <1>4, <2>1, <2>2, CallsData
<1>6. ASSUME SetCode(q) PROVE DataInv'
  <2>1. PICK code \in Code :
          /\ Calls(q, WriteHeader(Mine(q), code), Client(q), "handler")
          /\ asked' = [asked EXCEPT ![q] = IF code > 0 /\ resp[q] = NoResponse THEN code ELSE @]
    BY <1>6 DEF SetCode
  <2>2. code \in Int
    BY GinAssumption
  <2>3. asked' \in [Request -> Int]
    BY <2>1, <2>2 DEF DataInv, GinTypeOK
  <2>4. Kin(Mine(q), WriteHeader(Mine(q), code))
    BY <1>2, <2>2, WriterKin
  <2> QED
    BY <1>2, <1>4, <2>1, <2>3, <2>4, CallsData DEF Kin
<1>7. ASSUME Write(q) PROVE DataInv'
  <2>1. PICK n \in {0, 1} :
          Calls(q, WriteBytes(Mine(q), n), Body(Mine(q), Client(q), q, n), "handler")
    BY <1>7 DEF Write
  <2>2. asked' \in [Request -> Int]
    BY <1>3, <1>7 DEF Write
  <2>3. Kin(Mine(q), WriteBytes(Mine(q), n))
    BY <1>2, WriterKin
  <2>4. /\ Body(Mine(q), Client(q), q, n) \in Response
        /\ ToSet(Body(Mine(q), Client(q), q, n).body) \subseteq {q}
    <3>1. n \in Nat
      OBVIOUS
    <3>2. Body(Mine(q), Client(q), q, n) \in Response
      BY <1>2, <3>1, BodyType
    <3>3. ToSet(Body(Mine(q), Client(q), q, n).body) \subseteq {q}
      BY <1>2, <3>1, BodyType
    <3> QED
      BY <3>2, <3>3
  <2> QED
    BY <1>2, <1>4, <2>1, <2>2, <2>3, <2>4, CallsData DEF Kin
<1>8. /\ Kin(Mine(q), WriteHeaderNow(Mine(q))) /\ Kin(Mine(q), Hijacked(Mine(q)))
      /\ Header(Mine(q), Client(q)) \in Response
      /\ ToSet(Header(Mine(q), Client(q)).body) \subseteq {q}
  BY <1>2, WriterKin, HeaderType
<1>9. ASSUME ForceHeader(q) PROVE DataInv'
  <2>1. PICK l \in Failed : Calls(q, WriteHeaderNow(Mine(q)), Header(Mine(q), Client(q)), l)
    BY <1>9 DEF ForceHeader
  <2>2. asked' \in [Request -> Int]
    BY <1>3, <1>9 DEF ForceHeader
  <2> QED
    BY <1>2, <1>8, <2>1, <2>2, CallsData DEF Kin
<1>10. ASSUME Flush(q) PROVE DataInv'
  <2> DEFINE h == Header(Mine(q), Client(q))
  <2>1. /\ Calls(q, WriteHeaderNow(Mine(q)), Implicit(h), "handler")
        /\ asked' \in [Request -> Int]
    BY <1>3, <1>10 DEF Flush
  <2> HIDE DEF h
  <2>2. Implicit(h) \in Response /\ ToSet(Implicit(h).body) \subseteq {q}
    BY <1>8, ImplicitType DEF h
  <2> QED
    BY <1>2, <1>4, <1>8, <2>1, <2>2, CallsData DEF Kin
<1>11. ASSUME Hijack(q) PROVE DataInv'
  <2> DEFINE rs == [Client(q) EXCEPT !.hijacked = TRUE]
  <2>1. asked' \in [Request -> Int]
    BY <1>3, <1>11 DEF Hijack
  <2>2. rs \in Response /\ ToSet(rs.body) \subseteq {q}
    BY <1>2 DEF Response
  <2>3. /\ Missed(Mine(q), Client(q)) \in Response
        /\ ToSet(Missed(Mine(q), Client(q)).body) \subseteq {q}
    BY <1>2, MissedType
  <2>4. \/ Calls(q, Hijacked(Mine(q)), rs, "handler")
        \/ \E l \in Failed : Calls(q, Hijacked(Mine(q)), Missed(Mine(q), Client(q)), l)
    BY <1>11 DEF Hijack
  <2> HIDE DEF rs
  <2>5. CASE Calls(q, Hijacked(Mine(q)), rs, "handler")
    BY <1>2, <1>4, <1>8, <2>1, <2>2, <2>5, CallsData DEF Kin
  <2>6. ASSUME NEW l \in Failed, Calls(q, Hijacked(Mine(q)), Missed(Mine(q), Client(q)), l)
        PROVE  DataInv'
    BY <1>2, <1>8, <2>1, <2>3, <2>6, CallsData DEF Kin
  <2> QED
    BY <2>4, <2>5, <2>6
<1> QED
  BY <1>5, <1>6, <1>7, <1>9, <1>10, <1>11 DEF Uses

\* The end of handleHTTPRequest.
LEMMA DataLastHeader ==
  ASSUME DataInv, NEW q \in Request, LastHeader(q)
  PROVE  DataInv'
<1>1. /\ rpc[q] # "idle" /\ \E l \in {"put", "panic"} : rpc' = [rpc EXCEPT ![q] = l]
      /\ UNCHANGED <<setup, pool, c, frames, ran, nexts, wrapped, calls, asked>>
  BY DEF LastHeader
<1>2. /\ c[q] \in Contexts /\ Mine(q) \in Context /\ Mine(q).rw = q /\ Mine(q).keys \subseteq {q}
      /\ Client(q) = resp[q] /\ resp[q] \in Response /\ ToSet(resp[q].body) \subseteq {q}
  BY <1>1, ContextServes
<1>3. context' = [context EXCEPT ![c[q]] = WriteHeaderNow(Mine(q))]
  BY DEF LastHeader, Mine
<1>4. resp' = [resp EXCEPT ![q] = Header(Mine(q), resp[q])]
  BY <1>2 DEF LastHeader, Mine
<1>5. resp' \in [Request -> Response] /\ \A p \in Request : ToSet(resp'[p].body) \subseteq {p}
  <2>1. /\ Header(Mine(q), resp[q]) \in Response
        /\ ToSet(Header(Mine(q), resp[q]).body) \subseteq {q}
    BY <1>2, HeaderType
  <2> QED
    BY <1>4, <2>1 DEF DataInv, GinTypeOK, OwnData
<1>6. OnlyContext(q)
  <2>1. Kin(Mine(q), WriteHeaderNow(Mine(q)))
    BY <1>2, WriterKin
  <2> QED
    BY <1>1, <1>2, <1>3, <1>5, <2>1 DEF OnlyContext, Kin
<1>7. Owners' /\ OwnData' /\ context' \in [Contexts -> Context]
  BY <1>1, <1>6, DataKept
<1>8. GinTypeOK'
  <2>1. /\ rpc' \in [Request -> {"idle", "lookup", "handler", "panic", "header", "put"}]
        /\ \A p \in Request : rpc'[p] = "idle" <=> rpc[p] = "idle"
    BY <1>1 DEF DataInv, GinTypeOK
  <2> QED
    BY <1>1, <1>5, <1>7, <2>1 DEF DataInv, GinTypeOK, setup
<1> QED
  BY <1>7, <1>8 DEF DataInv

LEMMA DataInit == GinInit => DataInv
<1> SUFFICES ASSUME GinInit PROVE DataInv
  OBVIOUS
<1>1. /\ phase = "setup" /\ Handlers = <<>> /\ route = Nil /\ pool = {}
      /\ context = [x \in Contexts |-> NewContext]
      /\ c = [q \in Request |-> Nil] /\ rpc = [q \in Request |-> "idle"]
      /\ frames = [q \in Request |-> <<>>] /\ ran = [q \in Request |-> <<>>]
      /\ nexts = [q \in Request |-> 0] /\ calls = [q \in Request |-> 0]
      /\ resp = [q \in Request |-> NoResponse] /\ asked = [q \in Request |-> defaultStatus]
      /\ wrapped = [q \in Request |-> FALSE]
  BY DEF GinInit
<1>2. <<>> \in Some
  <2>1. <<>> \in Seq(Handler) /\ Len(<<>>) <= MaxHandlers
    BY GinAssumption
  <2> QED
    BY <2>1, SeqSome
<1>3. NewContext \in Context
  BY DEF NewContext, Context
<1>4. NoResponse \in Response /\ ToSet(NoResponse.body) = {}
  BY DEF NoResponse, Response, ToSet
<1>5. GinTypeOK
  <2>1. <<>> \in Seq(Frame) /\ <<>> \in Seq(Nat) /\ defaultStatus \in Int
    BY DEF defaultStatus
  <2>2. /\ frames \in [Request -> Seq(Frame)] /\ ran \in [Request -> Seq(Nat)]
        /\ nexts \in [Request -> Nat] /\ calls \in [Request -> Nat]
        /\ asked \in [Request -> Int] /\ wrapped \in [Request -> BOOLEAN]
        /\ resp \in [Request -> Response] /\ context \in [Contexts -> Context]
    BY <1>1, <1>3, <1>4, <2>1
  <2> QED
    BY <1>1, <1>2, <2>2 DEF GinTypeOK
<1>6. Owners
  BY <1>1 DEF Owners
<1>7. OwnData
  BY <1>1, <1>4 DEF OwnData
<1> QED
  BY <1>5, <1>6, <1>7 DEF DataInv

LEMMA DataStep == DataInv /\ [GinNext]_gvars => DataInv'
<1> SUFFICES ASSUME DataInv, [GinNext]_gvars PROVE DataInv'
  OBVIOUS
<1>1. ASSUME NEW q \in Request, ServeHTTP(q) PROVE DataInv'
  BY <1>1, ServeData
<1>2. ASSUME NEW q \in Request, LastHeader(q) PROVE DataInv'
  BY <1>2, DataLastHeader
<1>3. ASSUME NEW q \in Request, Put(q) \/ Dies(q) PROVE DataInv'
  BY <1>3, OverData DEF Put, Dies
<1>4. ASSUME NEW q \in Request, Handle(q) PROVE DataInv'
  BY <1>4, DataChain, DataCalls, DataPlain DEF Handle, Uses
<1>5. CASE UNCHANGED gvars
  BY <1>5 DEF DataInv, GinTypeOK, Owners, OwnData, Mine, gvars, setup, running, answer
<1> QED
  BY <1>1, <1>2, <1>3, <1>4, <1>5, DataPlain, DataChain DEF GinNext

THEOREM DataCorrect == GinSpec => []DataInv
<1> QED
  BY DataInit, DataStep, PTL DEF GinSpec

\* A request finds in its Context nothing that another request has stored, and what
\* it writes goes to its own client.
THEOREM OwnDataAlways == GinSpec => []OwnData
<1>1. DataInv => OwnData
  BY DEF DataInv
<1> QED
  BY <1>1, DataCorrect, PTL

-----------------------------------------------------------------------------
(***************************************************************************)
(* The order of the handlers, while the index is in range.                 *)
(***************************************************************************)
\* What InOrder says of one request.
OrderAt(q) ==
  /\ ran[q] = [k \in 1 .. Len(ran[q]) |-> k - 1]
  /\ \A k \in DOMAIN frames[q] : k > 1 => frames[q][k - 1].pos < frames[q][k].pos
  /\ rpc[q] = "header" => Len(ran[q]) = Len(route)
  /\ \A k \in DOMAIN frames[q] : frames[q][k].next = "called" => Len(ran[q]) = Len(route)

\* A request that is over leaves nothing.
Fresh(q) == frames[q] = <<>> /\ ran[q] = <<>> /\ nexts[q] = 0 /\ ~wrapped[q]

Ordered(q) ==
  /\ rpc[q] = "idle" => Fresh(q)
  /\ InRange(q) => ~wrapped[q] /\ Chain(q) /\ OrderAt(q)

OrderInv == DataInv /\ \A q \in Request : Ordered(q)

\* The loop of Next is about to increment the index, the handlers that are running,
\* fs, are all in Next, and m calls of Next have been made.
Ready(q, x, fs, m) ==
  /\ m \in Nat /\ Len(route) + m < Half
  /\ route \in Some /\ route # Nil /\ x.handlers = route
  /\ ran[q] = [k \in 1 .. Len(ran[q]) |-> k - 1]
  /\ Len(fs) <= Len(ran[q])
  /\ \/ x.index < Len(route) /\ Len(ran[q]) = x.index + 1
     \/ x.index >= Len(route) /\ Len(ran[q]) = Len(route)
  /\ x.index + 1 + Len(fs) <= m + Len(ran[q])
  /\ \A k \in 1 .. Len(fs) : fs[k].pos < Len(ran[q]) /\ fs[k].next = "in"
  /\ \A k \in 2 .. Len(fs) : fs[k - 1].pos < fs[k].pos

\* The increment stays in the range of the index.
LEMMA NoWrap ==
  ASSUME DataInv, NEW q \in Request, NEW x \in Context, NEW fs \in Seq(Frame), NEW m,
         Ready(q, x, fs, m)
  PROVE  Wrap(x.index + 1) = x.index + 1 /\ x.index + 1 \in Nat /\ Wrap(Len(x.handlers)) = Len(route)
<1>1. Len(route) \in Nat /\ Half \in Nat
  BY SomeSeq, GinAssumption DEF Ready
<1>2. x.index \in Int /\ Len(ran[q]) \in Nat /\ Len(fs) \in Nat
  BY DEF Context, DataInv, GinTypeOK
<1>3. /\ x.index + 1 \in Nat /\ Len(ran[q]) <= Len(route)
      /\ m \in Nat /\ Len(route) + m < Half /\ x.index + 1 + Len(fs) <= m + Len(ran[q])
  <2>1. /\ m \in Nat /\ Len(route) + m < Half
        /\ \/ x.index < Len(route) /\ Len(ran[q]) = x.index + 1
           \/ x.index >= Len(route) /\ Len(ran[q]) = Len(route)
        /\ x.index + 1 + Len(fs) <= m + Len(ran[q])
    BY Zenon DEF Ready
  <2> DEFINE i == x.index
             n == Len(route)
             a == Len(fs)
             b == Len(ran[q])
  <2>2. /\ n \in Nat /\ a \in Nat /\ b \in Nat /\ i \in Int /\ m \in Nat /\ n + m < Half
        /\ (i < n /\ b = i + 1) \/ (i >= n /\ b = n)
        /\ i + 1 + a <= m + b
    BY <1>1, <1>2, <2>1
  <2> HIDE DEF i, n, a, b
  <2>3. i + 1 \in Nat /\ b <= n /\ m \in Nat /\ n + m < Half /\ i + 1 + a <= m + b
    BY <2>2
  <2> QED
    BY <2>3 DEF i, n, a, b
<1>4. x.index + 1 < Half /\ Len(route) < Half /\ -Half <= x.index + 1 /\ -Half <= Len(route)
  <2> DEFINE i == x.index
             n == Len(route)
             a == Len(fs)
             b == Len(ran[q])
  <2>1. /\ n \in Nat /\ Half \in Nat /\ a \in Nat /\ b \in Nat /\ i + 1 \in Nat /\ i \in Int
        /\ b <= n /\ m \in Nat /\ n + m < Half /\ i + 1 + a <= m + b
    BY <1>1, <1>2, <1>3
  <2> HIDE DEF i, n, a, b
  <2>2. i + 1 < Half /\ n < Half /\ -Half <= i + 1 /\ -Half <= n
    BY <2>1
  <2> QED
    BY <2>2 DEF i, n
<1>5. Wrap(x.index + 1) = x.index + 1
  BY <1>2, <1>4, WrapSmall
<1>6. Wrap(Len(route)) = Len(route)
  BY <1>1, <1>4, WrapSmall
<1> QED
  BY <1>3, <1>5, <1>6 DEF Ready

\* The Context has the index that was computed.
LEMMA AdvanceContext ==
  ASSUME DataInv, NEW q \in Request, rpc[q] # "idle", NEW x \in Context, NEW fs,
         Advance(q, x, fs), UNCHANGED c
  PROVE  /\ Mine(q)'.index = Wrap(x.index + 1) /\ Mine(q)'.handlers = x.handlers
<1> DEFINE y == [x EXCEPT !.index = Wrap(x.index + 1)]
<1>1. c[q] \in Contexts /\ context' = [context EXCEPT ![c[q]] = y]
  BY ContextServes DEF Advance
<1>2. y.index = Wrap(x.index + 1) /\ y.handlers = x.handlers
  BY DEF Context
<1> HIDE DEF y
<1> QED
  BY <1>1, <1>2 DEF Mine, DataInv, GinTypeOK

\* The handlers are at an end: Next returns.
LEMMA NextReturns ==
  ASSUME DataInv, NEW q \in Request, ~wrapped[q], rpc[q] # "idle",
         NEW x \in Context, NEW fs \in Seq(Frame), NEW m, Ready(q, x, fs, m),
         Advance(q, x, fs), UNCHANGED <<route, c>>, nexts'[q] = m, x.index + 1 >= Len(route)
  PROVE  Chain(q)' /\ OrderAt(q)' /\ ~wrapped'[q]
<1> DEFINE gs == Resumed(fs)
<1>1. Len(route) \in Nat /\ Len(fs) \in Nat /\ x.index \in Int /\ Len(ran[q]) \in Nat
  BY SMTT(30), SomeSeq DEF Ready, Context, DataInv, GinTypeOK
<1>2. Wrap(x.index + 1) = x.index + 1 /\ Wrap(Len(x.handlers)) = Len(route)
  BY NoWrap
<1>3. /\ frames' = [frames EXCEPT ![q] = gs] /\ UNCHANGED <<ran, wrapped>>
      /\ rpc' = [rpc EXCEPT ![q] = IF fs = <<>> THEN "header" ELSE "handler"]
  BY <1>2 DEF Advance
<1>4. /\ frames'[q] = gs /\ ran'[q] = ran[q] /\ route' = route
      /\ rpc'[q] = IF fs = <<>> THEN "header" ELSE "handler"
      /\ Mine(q)'.index = x.index + 1 /\ Mine(q)'.handlers = route
  BY <1>2, <1>3, AdvanceContext DEF DataInv, GinTypeOK, Ready
<1>5. /\ Len(ran[q]) = Len(route) /\ Len(fs) <= Len(route)
      /\ x.index + 1 + Len(fs) <= m + Len(ran[q])
  BY <1>1 DEF Ready
<1>6. /\ gs \in Seq(Frame) /\ Len(gs) = Len(fs) /\ DOMAIN gs = 1 .. Len(fs)
      /\ fs = <<>> => gs = <<>>
      /\ \A k \in 1 .. Len(fs) : /\ gs[k].pos = fs[k].pos
                                 /\ gs[k].next = IF k = Len(fs) THEN "called" ELSE "in"
  <2>1. CASE fs = <<>>
    <3>1. gs = <<>>
      BY <2>1, ResumedType
    <3> HIDE DEF gs
    <3> QED
      BY <2>1, <3>1
  <2>2. CASE fs # <<>>
    <3>1. gs = SetTop(fs, "called")
      BY <2>2, ResumedType
    <3>2. \A k \in 1 .. Len(fs) : fs[k].next = "in"
      BY DEF Ready
    <3>3. /\ gs \in Seq(Frame) /\ Len(gs) = Len(fs)
          /\ \A k \in 1 .. Len(fs) : /\ gs[k].pos = fs[k].pos
                                     /\ gs[k].next = IF k = Len(fs) THEN "called" ELSE fs[k].next
      BY <2>2, <3>1, SetTopType
    <3> HIDE DEF gs
    <3> QED
      BY <2>2, <3>2, <3>3
  <2> QED
    BY <2>1, <2>2
<1> HIDE DEF gs
<1>7. fs # <<>> => gs # <<>>
  <2>1. fs # <<>> => Len(fs) # 0
    OBVIOUS
  <2>2. gs = <<>> => Len(gs) = 0
    OBVIOUS
  <2> QED
    BY <1>6, <2>1, <2>2
<1>8. IndexAt(q)'
  BY <1>1, <1>4, <1>5, <1>6 DEF IndexAt
<1>9. Nested(q)'
  <2>1. \A k \in 1 .. Len(fs) : /\ gs[k].pos < Len(ran[q])
                                /\ k < Len(fs) => gs[k].next = "in"
    <3>1. \A k \in 1 .. Len(fs) : fs[k].pos < Len(ran[q])
      BY DEF Ready
    <3>2. \A k \in 1 .. Len(fs) : k < Len(fs) => k # Len(fs)
      BY <1>1
    <3> QED
      BY <1>6, <3>1, <3>2
  <2>2. \A k \in DOMAIN gs : /\ gs[k].pos < Len(ran[q])
                             /\ k < Len(gs) => gs[k].next = "in"
    BY <1>6, <2>1, Zenon
  <2>3. frames'[q] = gs /\ ran'[q] = ran[q]
    BY <1>4
  <2> QED
    BY <2>2, <2>3 DEF Nested
<1>10. Chain(q)'
  BY <1>1, <1>4, <1>5, <1>6, <1>7, <1>8, <1>9 DEF Chain, Ready
<1>11. OrderAt(q)'
  <2>1. \A k \in DOMAIN gs : k > 1 => gs[k - 1].pos < gs[k].pos
    <3> SUFFICES ASSUME NEW k \in 1 .. Len(fs), k > 1 PROVE gs[k - 1].pos < gs[k].pos
      BY <1>6
    <3>a. k \in 2 .. Len(fs)
      OBVIOUS
    <3>1. fs[k - 1].pos < fs[k].pos
      BY <1>1, <3>a, Zenon DEF Ready
    <3>2. \A j \in 1 .. Len(fs) : gs[j].pos = fs[j].pos
      BY <1>6, Zenon
    <3>3. k - 1 \in 1 .. Len(fs)
      BY <1>1
    <3> QED
      BY <3>1, <3>2, <3>3
  <2> QED
    BY <1>4, <1>5, <1>6, <2>1 DEF OrderAt, Ready
<1> QED
  BY <1>3, <1>10, <1>11 DEF DataInv, GinTypeOK

\* There is a handler left, and Next calls it.
LEMMA NextCalls ==
  ASSUME DataInv, NEW q \in Request, ~wrapped[q], rpc[q] # "idle",
         NEW x \in Context, NEW fs \in Seq(Frame), NEW m, Ready(q, x, fs, m),
         Advance(q, x, fs), UNCHANGED <<route, c>>, nexts'[q] = m, x.index + 1 < Len(route)
  PROVE  Chain(q)' /\ OrderAt(q)' /\ ~wrapped'[q]
<1> DEFINE i == x.index + 1
           top == [pos |-> i, next |-> "no"]
           gs == Append(fs, top)
           rs == Append(ran[q], i)
<1>1. Len(route) \in Nat /\ Len(fs) \in Nat /\ x.index \in Int /\ ran[q] \in Seq(Nat)
  BY SomeSeq DEF Ready, Context, DataInv, GinTypeOK
<1>2. Wrap(x.index + 1) = i /\ i \in Nat /\ Wrap(Len(x.handlers)) = Len(route)
  BY NoWrap
<1>3. /\ frames' = [frames EXCEPT ![q] = gs] /\ ran' = [ran EXCEPT ![q] = rs]
      /\ rpc' = [rpc EXCEPT ![q] = "handler"] /\ UNCHANGED wrapped
  BY <1>1, <1>2 DEF Advance
<1>4. /\ frames'[q] = gs /\ ran'[q] = rs /\ route' = route /\ rpc'[q] = "handler"
      /\ Mine(q)'.index = i /\ Mine(q)'.handlers = route
  BY <1>2, <1>3, AdvanceContext DEF DataInv, GinTypeOK, Ready
<1>5. Len(ran[q]) = i /\ i < Len(route) /\ Len(fs) <= i /\ i + Len(fs) <= m + i /\ m \in Nat
  BY <1>1 DEF Ready
<1>6. /\ Len(gs) = Len(fs) + 1 /\ DOMAIN gs = 1 .. Len(fs) + 1 /\ gs # <<>>
      /\ \A k \in 1 .. Len(fs) : gs[k] = fs[k]
      /\ gs[Len(fs) + 1].pos = i /\ gs[Len(fs) + 1].next = "no"
  <2>1. top \in Frame /\ top.pos = i /\ top.next = "no"
    BY <1>2 DEF Frame
  <2> HIDE DEF top, i
  <2>2. Len(gs) = Len(fs) + 1 /\ gs \in Seq(Frame)
    BY <1>1, <2>1
  <2>3. (\A k \in 1 .. Len(fs) : gs[k] = fs[k]) /\ gs[Len(fs) + 1] = top
    BY <1>1, <2>1
  <2> HIDE DEF gs
  <2> QED
    BY <1>1, <2>1, <2>2, <2>3
<1>7. Len(rs) = i + 1 /\ rs = [k \in 1 .. Len(rs) |-> k - 1]
  <2>1. ran[q] = [k \in 1 .. i |-> k - 1]
    BY <1>5 DEF Ready
  <2>2. /\ Len(rs) = Len(ran[q]) + 1 /\ rs[Len(ran[q]) + 1] = i
        /\ \A k \in 1 .. Len(ran[q]) : rs[k] = ran[q][k]
    <3> HIDE DEF i
    <3> QED
      BY <1>1, <1>2
  <2>3. i \in Nat /\ Len(ran[q]) = i
    BY <1>2, <1>5
  <2> HIDE DEF i, rs
  <2>4. Len(rs) = i + 1 /\ rs[i + 1] = i /\ \A k \in 1 .. i : rs[k] = ran[q][k]
    BY <2>2, <2>3
  <2>5. \A k \in 1 .. i : rs[k] = k - 1
    BY <2>1, <2>4
  <2>6. \A k \in 1 .. i + 1 : rs[k] = k - 1
    <3> SUFFICES ASSUME NEW k \in 1 .. i + 1 PROVE rs[k] = k - 1
      OBVIOUS
    <3>1. CASE k = i + 1
      BY <2>3, <2>4, <3>1
    <3>2. CASE k \in 1 .. i
      BY <2>5, <3>2
    <3> QED
      BY <2>3, <3>1, <3>2
  <2>7. rs \in Seq(Nat)
    BY <1>1, <1>2 DEF rs, i
  <2> QED
    BY <2>3, <2>4, <2>6, <2>7
<1> HIDE DEF gs, rs, top
<1>8. IndexAt(q)'
  BY <1>1, <1>4, <1>5, <1>6, <1>7 DEF IndexAt
<1>9. Nested(q)'
  <2>1. \A k \in 1 .. Len(fs) : gs[k].pos < i /\ gs[k].next = "in"
    BY <1>1, <1>5, <1>6 DEF Ready
  <2>2. \A k \in 1 .. Len(fs) + 1 : gs[k].pos < i + 1 /\ (k < Len(fs) + 1 => gs[k].next = "in")
    <3> SUFFICES ASSUME NEW k \in 1 .. Len(fs) + 1
                 PROVE  gs[k].pos < i + 1 /\ (k < Len(fs) + 1 => gs[k].next = "in")
      OBVIOUS
    <3>1. CASE k = Len(fs) + 1
      BY <1>2, <1>6, <3>1
    <3>2. CASE k \in 1 .. Len(fs)
      <4>1. gs[k] \in Frame
        BY <1>6, <3>2
      <4> QED
        BY <1>2, <2>1, <3>2, <4>1 DEF Frame
    <3> QED
      BY <1>1, <3>1, <3>2
  <2>3. /\ DOMAIN frames'[q] = 1 .. Len(fs) + 1 /\ Len(frames'[q]) = Len(fs) + 1
        /\ Len(ran'[q]) = i + 1
        /\ \A k \in 1 .. Len(fs) + 1 : frames'[q][k] = gs[k]
    BY <1>4, <1>5, <1>6, <1>7
  <2> QED
    BY <2>2, <2>3 DEF Nested
<1>10. Chain(q)'
  BY <1>1, <1>4, <1>5, <1>6, <1>7, <1>8, <1>9 DEF Chain, Ready
<1>11. OrderAt(q)'
  <2>1. \A k \in DOMAIN gs : k > 1 => gs[k - 1].pos < gs[k].pos
    <3> SUFFICES ASSUME NEW k \in 1 .. Len(fs) + 1, k > 1 PROVE gs[k - 1].pos < gs[k].pos
      BY <1>6
    <3>1. CASE k = Len(fs) + 1
      <4>1. k - 1 \in 1 .. Len(fs) /\ gs[k].pos = i
        BY <1>1, <1>6, <3>1
      <4>2. gs[k - 1] = fs[k - 1] /\ fs[k - 1].pos < Len(ran[q])
        BY <1>6, <4>1 DEF Ready
      <4> QED
        BY <1>5, <4>1, <4>2
    <3>2. CASE k \in 2 .. Len(fs)
      <4>1. fs[k - 1].pos < fs[k].pos
        BY <3>2 DEF Ready
      <4>2. k - 1 \in 1 .. Len(fs) /\ k \in 1 .. Len(fs)
        BY <1>1, <3>2
      <4> QED
        BY <1>6, <4>1, <4>2, Zenon
    <3> QED
      BY <1>1, <3>1, <3>2
  <2>2. \A k \in DOMAIN gs : gs[k].next # "called"
    <3> SUFFICES ASSUME NEW k \in 1 .. Len(fs) + 1 PROVE gs[k].next # "called"
      BY <1>6
    <3>1. CASE k = Len(fs) + 1
      BY <1>6, <3>1
    <3>2. CASE k \in 1 .. Len(fs)
      <4>1. gs[k] = fs[k] /\ fs[k].next = "in"
        BY <1>6, <3>2 DEF Ready
      <4> QED
        BY <4>1
    <3> QED
      BY <1>1, <3>1, <3>2
  <2> QED
    BY <1>4, <1>7, <2>1, <2>2 DEF OrderAt
<1> QED
  BY <1>3, <1>10, <1>11 DEF DataInv, GinTypeOK

\* A request whose data stay as they are stays in order.
LEMMA OrderKept ==
  ASSUME DataInv, NEW p \in Request, Ordered(p),
         rpc'[p] = rpc[p], frames'[p] = frames[p], ran'[p] = ran[p],
         nexts'[p] = nexts[p], wrapped'[p] = wrapped[p],
         route' = route \/ rpc[p] = "idle",
         rpc[p] # "idle" => /\ Mine(p)'.index = Mine(p).index
                            /\ Mine(p)'.handlers = Mine(p).handlers
  PROVE  Ordered(p)'
<1>1. CASE rpc[p] = "idle"
  <2>1. Fresh(p)
    BY <1>1 DEF Ordered
  <2> QED
    BY <1>1, <2>1 DEF Ordered, Fresh, Chain, OrderAt
<1>2. CASE rpc[p] # "idle"
  <2>1. /\ route' = route /\ Mine(p)'.index = Mine(p).index
        /\ Mine(p)'.handlers = Mine(p).handlers
    BY <1>2
  <2>2. IndexAt(p)' <=> IndexAt(p)
    BY <2>1 DEF IndexAt
  <2>3. Nested(p)' <=> Nested(p)
    BY <2>1 DEF Nested
  <2>4. (Chain(p) => Chain(p)') /\ (OrderAt(p) => OrderAt(p)')
    BY <2>1, <2>2, <2>3 DEF Chain, OrderAt
  <2> QED
    BY <1>2, <2>1, <2>4 DEF Ordered, InRange
<1> QED
  BY <1>1, <1>2

\* A step of q leaves the other requests and their Contexts alone.
Only(q) ==
  /\ route' = route
  /\ \A p \in Request \ {q} : /\ rpc'[p] = rpc[p] /\ c'[p] = c[p]
                              /\ frames'[p] = frames[p] /\ ran'[p] = ran[p]
                              /\ nexts'[p] = nexts[p] /\ wrapped'[p] = wrapped[p]
  /\ \A y \in Contexts \ {c[q], c'[q]} : context'[y] = context[y]

LEMMA OthersKept ==
  ASSUME OrderInv, DataInv', NEW q \in Request, Only(q), Ordered(q)'
  PROVE  OrderInv'
<1>1. ASSUME NEW p \in Request \ {q} PROVE Ordered(p)'
  <2>1. DataInv /\ Ordered(p)
    BY DEF OrderInv
  <2>2. /\ route' = route /\ rpc'[p] = rpc[p] /\ c'[p] = c[p]
        /\ frames'[p] = frames[p] /\ ran'[p] = ran[p]
        /\ nexts'[p] = nexts[p] /\ wrapped'[p] = wrapped[p]
    BY DEF Only
  <2>3. rpc[p] # "idle" => Mine(p)' = Mine(p)
    <3> SUFFICES ASSUME rpc[p] # "idle" PROVE Mine(p)' = Mine(p)
      OBVIOUS
    <3>1. c[p] \in Contexts /\ c[p] # Nil
      BY <2>1, GinAssumption DEF DataInv, GinTypeOK
    <3>2. c[p] # c[q]
      BY <3>1 DEF OrderInv, DataInv, Owners
    <3>3. c'[p] # c'[q]
      BY <2>2, <3>1 DEF DataInv, Owners
    <3> QED
      BY <2>2, <3>1, <3>2, <3>3 DEF Only, Mine
  <2> QED
    BY <2>1, <2>2, <2>3, OrderKept
<1> QED
  BY <1>1 DEF OrderInv

\* The loop of Next goes on in order, and with a call of Next more out of range if so.
LEMMA AdvanceOrder ==
  ASSUME OrderInv, DataInv', NEW q \in Request, rpc[q] # "idle",
         NEW x \in Context, NEW fs \in Seq(Frame), NEW m \in Nat, m >= nexts[q],
         nexts' = [nexts EXCEPT ![q] = m],
         InRange(q)' => Ready(q, x, fs, m),
         Advance(q, x, fs), UNCHANGED <<setup, c>>
  PROVE  OrderInv'
<1>1. /\ DataInv /\ UNCHANGED <<route, c>> /\ x.index \in Int /\ nexts'[q] = m
      /\ nexts[q] \in Nat
  BY DEF OrderInv, setup, Context, DataInv, GinTypeOK
<1>2. rpc'[q] # "idle"
  BY <1>1 DEF Advance, DataInv, GinTypeOK
<1>3. ASSUME InRange(q)' PROVE Chain(q)' /\ OrderAt(q)' /\ ~wrapped'[q]
  <2>1. Ready(q, x, fs, m) /\ Len(route) \in Nat /\ Len(route) + m < Half
    BY <1>3, SomeSeq DEF Ready
  <2>2. ~wrapped[q]
    <3>1. InRange(q)
      BY <1>1, <2>1, GinAssumption DEF InRange
    <3> QED
      BY <3>1 DEF OrderInv, Ordered
  <2>3. CASE x.index + 1 >= Len(route)
    BY <1>1, <2>1, <2>2, <2>3, NextReturns
  <2>4. CASE x.index + 1 < Len(route)
    BY <1>1, <2>1, <2>2, <2>4, NextCalls
  <2> QED
    BY <1>1, <2>1, <2>3, <2>4
<1>4. Only(q)
  <2>1. /\ \E y : context' = [context EXCEPT ![c[q]] = y]
        /\ \E y : frames' = [frames EXCEPT ![q] = y]
        /\ \E y : rpc' = [rpc EXCEPT ![q] = y]
        /\ ran' = ran \/ \E y : ran' = [ran EXCEPT ![q] = y]
        /\ wrapped' = wrapped \/ \E y : wrapped' = [wrapped EXCEPT ![q] = y]
    BY DEF Advance
  <2>2. \A p \in Request \ {q} : /\ rpc'[p] = rpc[p] /\ c'[p] = c[p]
                                 /\ frames'[p] = frames[p] /\ ran'[p] = ran[p]
                                 /\ nexts'[p] = nexts[p] /\ wrapped'[p] = wrapped[p]
    <3>1. \A p \in Request \ {q} : c'[p] = c[p] /\ nexts'[p] = nexts[p]
      BY <1>1 DEF DataInv, GinTypeOK
    <3>2. \A p \in Request \ {q} : rpc'[p] = rpc[p] /\ frames'[p] = frames[p]
      BY <2>1 DEF DataInv, GinTypeOK
    <3>3. \A p \in Request \ {q} : ran'[p] = ran[p]
      <4>1. CASE ran' = ran
        BY <4>1
      <4>2. CASE \E y : ran' = [ran EXCEPT ![q] = y]
        BY <4>2 DEF DataInv, GinTypeOK
      <4> QED
        BY <2>1, <4>1, <4>2
    <3>4. \A p \in Request \ {q} : wrapped'[p] = wrapped[p]
      <4>1. CASE wrapped' = wrapped
        BY <4>1
      <4>2. CASE \E y : wrapped' = [wrapped EXCEPT ![q] = y]
        BY <4>2 DEF DataInv, GinTypeOK
      <4> QED
        BY <2>1, <4>1, <4>2
    <3> QED
      BY <3>1, <3>2, <3>3, <3>4
  <2>3. \A y \in Contexts \ {c[q], c'[q]} : context'[y] = context[y]
    BY <1>1, <2>1 DEF DataInv, GinTypeOK
  <2> QED
    BY <1>1, <2>2, <2>3 DEF Only
<1> QED
  BY <1>2, <1>3, <1>4, OthersKept DEF Ordered

\* The calls of Next only take a request out of range.
LEMMA RangeBack ==
  ASSUME DataInv, NEW q \in Request, UNCHANGED route, InRange(q)', nexts'[q] \in Nat,
         nexts'[q] >= nexts[q]
  PROVE  InRange(q)
<1>1. route \in Some => Len(route) \in Nat
  BY SomeSeq
<1> QED
  BY <1>1, GinAssumption DEF InRange, DataInv, GinTypeOK

LEMMA OrderChain ==
  ASSUME OrderInv, DataInv', NEW q \in Request,
         Found(q) \/ CallNext(q) \/ HandlerReturns(q)
  PROVE  OrderInv'
<1>1. /\ DataInv /\ route \in Some \cup {Nil} /\ nexts[q] \in Nat
      /\ InRange(q) => Chain(q) /\ OrderAt(q)
  BY DEF OrderInv, Ordered, DataInv, GinTypeOK
<1>2. /\ rpc[q] # "idle" /\ Mine(q) \in Context /\ Mine(q).index \in Int
      /\ frames[q] \in Seq(Frame) /\ Len(ran[q]) \in Nat
  <2>1. rpc[q] # "idle"
    BY DEF Found, CallNext, HandlerReturns, InHandler
  <2>2. Mine(q) \in Context
    BY <1>1, <2>1, ContextServes
  <2>3. frames[q] \in Seq(Frame) /\ ran[q] \in Seq(Nat)
    BY <1>1 DEF DataInv, GinTypeOK
  <2> QED
    BY <2>1, <2>2, <2>3 DEF Context
<1>3. ASSUME Found(q) PROVE OrderInv'
  <2> DEFINE x == [Mine(q) EXCEPT !.handlers = getValue]
             m == nexts[q]
  <2>1. route # Nil /\ route \in Some /\ Len(route) \in Nat /\ rpc[q] = "lookup"
    BY <1>1, <1>3, SomeSeq DEF Found, getValue
  <2>2. x \in Context /\ x.handlers = route /\ x.index = Mine(q).index
    BY <1>2, <2>1 DEF Context, getValue
  <2>3. /\ Advance(q, x, <<>>) /\ UNCHANGED <<setup, c, nexts>>
        /\ m \in Nat /\ m >= nexts[q] /\ nexts' = [nexts EXCEPT ![q] = m]
    BY <1>1, <1>3 DEF Found, Mine, DataInv, GinTypeOK
  <2> HIDE DEF x
  <2>4. ASSUME InRange(q)' PROVE Ready(q, x, <<>>, m)
    <3>1. InRange(q)
      BY <2>3, <2>4 DEF InRange, setup
    <3>2. ran[q] = <<>> /\ Mine(q).index = -1 /\ nexts[q] = 0
      BY <1>1, <2>1, <3>1 DEF Chain
    <3>3. ran[q] = [k \in 1 .. Len(ran[q]) |-> k - 1]
      BY <1>1, <3>1 DEF OrderAt
    <3> QED
      BY <2>1, <2>2, <3>1, <3>2, <3>3 DEF Ready, InRange
  <2>5. <<>> \in Seq(Frame)
    OBVIOUS
  <2> HIDE DEF m
  <2> QED
    BY <1>2, <2>2, <2>3, <2>4, <2>5, AdvanceOrder
<1>4. ASSUME rpc[q] = "handler", InRange(q)
      PROVE  /\ route # Nil /\ route \in Some /\ Len(route) \in Nat /\ Mine(q).handlers = route
             /\ frames[q] # <<>> /\ Len(frames[q]) \in Nat /\ Len(frames[q]) > 0
             /\ Len(frames[q]) <= Len(ran[q]) /\ IndexAt(q) /\ Nested(q)
             /\ ran[q] = [k \in 1 .. Len(ran[q]) |-> k - 1]
  BY <1>1, <1>2, <1>4, SomeSeq DEF Chain, OrderAt
<1>5. ASSUME InRange(q)
      PROVE  \A k \in 2 .. Len(frames[q]) : frames[q][k - 1].pos < frames[q][k].pos
  <2>1. DOMAIN frames[q] = 1 .. Len(frames[q]) /\ Len(frames[q]) \in Nat
    BY <1>2
  <2>2. \A k \in DOMAIN frames[q] : k > 1 => frames[q][k - 1].pos < frames[q][k].pos
    BY <1>1, <1>5 DEF OrderAt
  <2>3. \A k \in 2 .. Len(frames[q]) : k \in DOMAIN frames[q] /\ k > 1
    BY <2>1
  <2> QED
    BY <2>2, <2>3
<1>6. ASSUME CallNext(q) PROVE OrderInv'
  <2> DEFINE s == frames[q]
             fs == SetTop(s, "in")
             m == nexts[q] + 1
  <2>1. Advance(q, Mine(q), fs) /\ UNCHANGED <<setup, c>> /\ rpc[q] = "handler"
    BY <1>6 DEF CallNext, Mine, SetTop, InHandler
  <2>2. m \in Nat /\ m >= nexts[q] /\ nexts' = [nexts EXCEPT ![q] = m] /\ nexts'[q] = m
    BY <1>1, <1>6 DEF CallNext, DataInv, GinTypeOK
  <2>3. fs \in Seq(Frame)
    <3>1. CASE s = <<>>
      <4>1. fs = <<>>
        BY <3>1 DEF SetTop
      <4>2. <<>> \in Seq(Frame)
        OBVIOUS
      <4> HIDE DEF fs
      <4> QED
        BY <4>1, <4>2
    <3>2. CASE s # <<>>
      BY <1>2, <3>2, SetTopType
    <3> QED
      BY <3>1, <3>2
  <2>4. ASSUME InRange(q)' PROVE Ready(q, Mine(q), fs, m)
    <3>1. InRange(q) /\ Len(route) + m < Half
      BY <1>1, <2>1, <2>2, <2>4, RangeBack, <1>4 DEF setup, InRange
    <3>2. /\ Len(fs) = Len(s)
          /\ \A k \in 1 .. Len(s) : fs[k].pos = s[k].pos
          /\ \A k \in 1 .. Len(s) : fs[k].next = IF k = Len(s) THEN "in" ELSE s[k].next
      BY <1>2, <1>4, <2>1, <3>1, SetTopType
    <3>3. \A k \in 1 .. Len(s) : s[k].pos < Len(ran[q]) /\ (k < Len(s) => s[k].next = "in")
      BY <1>2, <1>4, <2>1, <3>1 DEF Nested
    <3>4. \A k \in 1 .. Len(fs) : fs[k].pos < Len(ran[q]) /\ fs[k].next = "in"
      <4> SUFFICES ASSUME NEW k \in 1 .. Len(s)
                   PROVE  fs[k].pos < Len(ran[q]) /\ fs[k].next = "in"
        BY <3>2
      <4>1. k = Len(s) \/ k < Len(s)
        BY <1>2
      <4> QED
        BY <3>2, <3>3, <4>1
    <3>5. \A k \in 2 .. Len(fs) : fs[k - 1].pos < fs[k].pos
      <4> SUFFICES ASSUME NEW k \in 2 .. Len(s) PROVE fs[k - 1].pos < fs[k].pos
        BY <3>2
      <4>1. k \in 1 .. Len(s) /\ k - 1 \in 1 .. Len(s)
        BY <1>2
      <4>2. fs[k - 1].pos = s[k - 1].pos /\ fs[k].pos = s[k].pos
        BY <3>2, <4>1
      <4> QED
        BY <1>5, <3>1, <4>2
    <3> HIDE DEF fs
    <3>6. /\ \/ Mine(q).index < Len(route) /\ Len(ran[q]) = Mine(q).index + 1
             \/ Mine(q).index >= Len(route) /\ Len(ran[q]) = Len(route)
          /\ Mine(q).index + 1 + Len(fs) <= m + Len(ran[q])
      <4>1. Len(fs) = Len(s) /\ Len(s) \in Nat
        BY <1>4, <2>1, <3>1, <3>2
      <4>2. /\ \/ Mine(q).index < Len(route) /\ Len(ran[q]) = Mine(q).index + 1
               \/ Mine(q).index >= Len(route) /\ Len(ran[q]) = Len(route)
            /\ Mine(q).index + Len(s) <= nexts[q] + Len(ran[q])
        BY <1>4, <2>1, <3>1 DEF IndexAt
      <4>3. Mine(q).index \in Int /\ Len(ran[q]) \in Nat /\ nexts[q] \in Nat
        BY <1>1, <1>2
      <4> DEFINE i == Mine(q).index
                 n == nexts[q]
                 d == Len(fs)
                 e == Len(s)
                 l == Len(ran[q])
      <4>4. i \in Int /\ l \in Nat /\ n \in Nat /\ e \in Nat /\ d = e /\ i + e <= n + l /\ m = n + 1
        BY <4>1, <4>2, <4>3
      <4> HIDE DEF i, n, d, e, l, m
      <4>5. i + 1 + d <= m + l
        BY <4>4
      <4> QED
        BY <4>2, <4>5 DEF i, d, l
    <3> QED
      BY <1>4, <2>1, <2>2, <3>1, <3>2, <3>4, <3>5, <3>6 DEF Ready
  <2> HIDE DEF fs, m
  <2> QED
    BY <1>2, <2>1, <2>2, <2>3, <2>4, AdvanceOrder
<1>7. ASSUME HandlerReturns(q) PROVE OrderInv'
  <2> DEFINE s == frames[q]
             fs == Front(s)
             m == nexts[q]
  <2>1. Advance(q, Mine(q), fs) /\ UNCHANGED <<setup, c, nexts>> /\ rpc[q] = "handler"
    BY <1>7 DEF HandlerReturns, Mine, InHandler
  <2>2. m \in Nat /\ m >= nexts[q] /\ nexts' = [nexts EXCEPT ![q] = m]
    BY <1>1, <2>1 DEF DataInv, GinTypeOK
  <2>3. fs \in Seq(Frame)
    BY <1>2 DEF Front
  <2>4. ASSUME InRange(q)' PROVE Ready(q, Mine(q), fs, m)
    <3>1. InRange(q)
      BY <2>1, <2>4 DEF setup, InRange
    <3>2. Len(route) + m < Half
      BY <1>4, <2>1, <3>1 DEF InRange
    <3>3. Len(s) \in Nat /\ Len(s) > 0
      BY <1>4, <2>1, <3>1
    <3>4. Len(fs) = Len(s) - 1 /\ \A k \in 1 .. Len(s) - 1 : fs[k] = s[k]
      BY <1>2, <3>3 DEF Front
    <3> HIDE DEF fs
    <3>5. \A k \in 1 .. Len(fs) : fs[k].pos < Len(ran[q]) /\ fs[k].next = "in"
      <4> SUFFICES ASSUME NEW k \in 1 .. Len(fs)
                   PROVE  fs[k].pos < Len(ran[q]) /\ fs[k].next = "in"
        OBVIOUS
      <4>1. k \in DOMAIN s /\ k < Len(s) /\ fs[k] = s[k]
        BY <1>2, <3>3, <3>4
      <4> QED
        BY <1>4, <2>1, <3>1, <4>1 DEF Nested
    <3>6. \A k \in 2 .. Len(fs) : fs[k - 1].pos < fs[k].pos
      <4> SUFFICES ASSUME NEW k \in 2 .. Len(fs) PROVE fs[k - 1].pos < fs[k].pos
        OBVIOUS
      <4>1. fs[k - 1] = s[k - 1] /\ fs[k] = s[k] /\ k \in 2 .. Len(s)
        BY <3>3, <3>4
      <4> QED
        BY <1>5, <3>1, <4>1
    <3>7. /\ \/ Mine(q).index < Len(route) /\ Len(ran[q]) = Mine(q).index + 1
             \/ Mine(q).index >= Len(route) /\ Len(ran[q]) = Len(route)
          /\ Mine(q).index + 1 + Len(fs) <= m + Len(ran[q])
      <4>1. Len(fs) = Len(s) - 1 /\ Len(s) \in Nat
        BY <1>4, <2>1, <3>1, <3>4
      <4>2. /\ \/ Mine(q).index < Len(route) /\ Len(ran[q]) = Mine(q).index + 1
               \/ Mine(q).index >= Len(route) /\ Len(ran[q]) = Len(route)
            /\ Mine(q).index + Len(s) <= nexts[q] + Len(ran[q])
        BY <1>4, <2>1, <3>1 DEF IndexAt
      <4> QED
        BY <1>1, <1>2, <4>1, <4>2
    <3>8. Len(fs) <= Len(ran[q])
      BY <1>2, <1>4, <2>1, <3>1, <3>3, <3>4
    <3> QED
      BY <1>4, <2>1, <2>2, <3>1, <3>2, <3>5, <3>6, <3>7, <3>8 DEF Ready
  <2> HIDE DEF fs, m
  <2> QED
    BY <1>2, <2>1, <2>2, <2>3, <2>4, AdvanceOrder
<1> QED
  BY <1>3, <1>6, <1>7

\* The calls of a handler leave the chain alone, also one that panics.
LEMMA OrderCalls ==
  ASSUME OrderInv, DataInv', NEW q \in Request, NEW x \in Context,
         x.index = Mine(q).index, x.handlers = Mine(q).handlers,
         NEW rs, NEW l \in Failed, Calls(q, x, rs, l)
  PROVE  OrderInv'
<1>1. /\ DataInv /\ Ordered(q) /\ rpc[q] = "handler" /\ rpc' = [rpc EXCEPT ![q] = l]
      /\ UNCHANGED <<route, c, frames, ran, nexts, wrapped>>
      /\ context' = [context EXCEPT ![c[q]] = x]
  BY DEF OrderInv, Calls, InHandler, setup
<1>2. Mine(q)' = x /\ rpc'[q] = l /\ l \in {"handler", "panic"}
  BY <1>1, ContextServes DEF Mine, DataInv, GinTypeOK, Failed
<1>3. IndexAt(q)' <=> IndexAt(q)
  BY <1>1, <1>2 DEF IndexAt
<1>4. Nested(q)' <=> Nested(q)
  BY <1>1 DEF Nested
<1>5. (Chain(q) => Chain(q)') /\ (OrderAt(q) => OrderAt(q)') /\ (InRange(q)' => InRange(q))
  BY <1>1, <1>2, <1>3, <1>4 DEF Chain, OrderAt, InRange
<1>6. Ordered(q)'
  BY <1>1, <1>2, <1>5 DEF Ordered
<1>7. Only(q)
  BY <1>1 DEF Only, DataInv, GinTypeOK
<1> QED
  BY <1>6, <1>7, OthersKept

LEMMA OrderOver ==
  ASSUME OrderInv, DataInv', NEW q \in Request, rpc[q] # "idle", NEW b \in BOOLEAN, Over(q, b)
  PROVE  OrderInv'
<1>1. /\ DataInv /\ UNCHANGED <<route, context>>
      /\ c' = [c EXCEPT ![q] = Nil] /\ rpc' = [rpc EXCEPT ![q] = "idle"]
      /\ frames' = [frames EXCEPT ![q] = <<>>] /\ ran' = [ran EXCEPT ![q] = <<>>]
      /\ nexts' = [nexts EXCEPT ![q] = 0] /\ wrapped' = [wrapped EXCEPT ![q] = FALSE]
  BY DEF OrderInv, Over, setup
<1>2. rpc'[q] = "idle" /\ Fresh(q)'
  BY <1>1 DEF DataInv, GinTypeOK, Fresh
<1>3. Ordered(q)'
  BY <1>2 DEF Ordered, Fresh, Chain, OrderAt
<1>4. Only(q)
  BY <1>1 DEF Only, DataInv, GinTypeOK
<1> QED
  BY <1>3, <1>4, OthersKept

\* A Context that is taken starts the chain anew.
LEMMA OrderServe ==
  ASSUME OrderInv, DataInv', NEW q \in Request, ServeHTTP(q)
  PROVE  OrderInv'
<1>1. PICK x \in Contexts :
        /\ c' = [c EXCEPT ![q] = x]
        /\ context' = [context EXCEPT
             ![x] = Reset(WriterReset(IF x \in pool THEN @ ELSE NewContext, q))]
  BY DEF ServeHTTP
<1> DEFINE old == IF x \in pool THEN context[x] ELSE NewContext
           y == Reset(WriterReset(old, q))
<1>2. /\ DataInv /\ Fresh(q)
      /\ rpc[q] = "idle" /\ rpc' = [rpc EXCEPT ![q] = "lookup"]
      /\ UNCHANGED <<route, frames, ran, nexts, wrapped>>
  BY DEF OrderInv, Ordered, ServeHTTP, setup, answer
<1>3. y.index = -1
  <2>1. NewContext \in Context
    BY DEF NewContext, Context
  <2>2. old \in Context
    BY <1>2, <2>1 DEF DataInv, GinTypeOK
  <2> HIDE DEF old
  <2>3. WriterReset(old, q) \in Context
    BY <2>2, WriterResetType
  <2> QED
    BY <2>3, ResetType
<1>4. context' = [context EXCEPT ![x] = y]
  BY <1>1
<1> HIDE DEF y, old
<1>5. rpc'[q] = "lookup" /\ Fresh(q)' /\ c'[q] = x /\ Mine(q)'.index = -1
  BY <1>1, <1>2, <1>3, <1>4 DEF DataInv, GinTypeOK, Fresh, Mine
<1>6. Ordered(q)'
  BY <1>5 DEF Ordered, Fresh, Chain, OrderAt
<1>7. Only(q)
  BY <1>1, <1>2, <1>4, <1>5 DEF Only, DataInv, GinTypeOK
<1> QED
  BY <1>6, <1>7, OthersKept

\* A handler panics, and a function that it or an outer one has deferred recovers.
LEMMA OrderPanics ==
  ASSUME OrderInv, DataInv', NEW q \in Request, HandlerPanics(q) \/ Recovers(q)
  PROVE  OrderInv'
<1>1. DataInv /\ Ordered(q)
  BY DEF OrderInv
<1>2. ASSUME HandlerPanics(q) PROVE OrderInv'
  <2>1. /\ rpc[q] = "handler" /\ rpc' = [rpc EXCEPT ![q] = "panic"]
        /\ UNCHANGED <<route, context, c, frames, ran, nexts, wrapped>>
    BY <1>2 DEF HandlerPanics, InHandler, setup
  <2>2. rpc'[q] = "panic" /\ Mine(q)' = Mine(q)
    BY <1>1, <2>1 DEF DataInv, GinTypeOK, Mine
  <2>3. IndexAt(q)' <=> IndexAt(q)
    BY <2>1, <2>2 DEF IndexAt
  <2>4. Nested(q)' <=> Nested(q)
    BY <2>1, <2>2 DEF Nested
  <2>5. (Chain(q) => Chain(q)') /\ (OrderAt(q) => OrderAt(q)') /\ (InRange(q)' => InRange(q))
    BY <2>1, <2>2, <2>3, <2>4 DEF Chain, OrderAt, InRange
  <2>6. Ordered(q)'
    BY <1>1, <2>1, <2>2, <2>5 DEF Ordered
  <2>7. Only(q)
    BY <1>1, <2>1 DEF Only, DataInv, GinTypeOK
  <2> QED
    BY <2>6, <2>7, OthersKept
<1>3. ASSUME Recovers(q) PROVE OrderInv'
  <2>1. PICK k \in DOMAIN frames[q] :
          /\ frames[q][k].next = "in"
          /\ frames' = [frames EXCEPT ![q] = [SubSeq(@, 1, k) EXCEPT ![k].next = "cut"]]
    BY <1>3 DEF Recovers
  <2> DEFINE s == SubSeq(frames[q], 1, k)
             gs == SetTop(s, "cut")
  <2>2. /\ rpc[q] = "panic" /\ rpc' = [rpc EXCEPT ![q] = "handler"]
        /\ UNCHANGED <<route, context, c, ran, nexts, wrapped>>
    BY <1>3 DEF Recovers, setup
  <2>3. /\ frames[q] \in Seq(Frame) /\ k \in 1 .. Len(frames[q])
        /\ Len(frames[q]) \in Nat /\ DOMAIN frames[q] = 1 .. Len(frames[q])
    BY <1>1 DEF DataInv, GinTypeOK
  <2>4. s \in Seq(Frame) /\ Len(s) = k /\ s # <<>> /\ \A j \in 1 .. k : s[j] = frames[q][j]
    BY <2>3
  <2>5. /\ gs \in Seq(Frame) /\ Len(gs) = k
        /\ \A j \in 1 .. k : gs[j].pos = s[j].pos
        /\ \A j \in 1 .. k : gs[j].next = IF j = k THEN "cut" ELSE s[j].next
    <3> HIDE DEF s
    <3> QED
      BY <2>4, SetTopType
  <2>6. [s EXCEPT ![k].next = "cut"] = gs
    BY <2>4 DEF SetTop
  <2>7. frames' = [frames EXCEPT ![q] = gs]
    BY <2>1, <2>6
  <2> HIDE DEF s, gs
  <2>8. frames'[q] = gs /\ rpc'[q] = "handler" /\ Mine(q)' = Mine(q)
    BY <1>1, <2>2, <2>7 DEF DataInv, GinTypeOK, Mine
  <2>9. ASSUME InRange(q)' PROVE Chain(q)' /\ OrderAt(q)' /\ ~wrapped'[q]
    <3>1. InRange(q)
      BY <2>2, <2>9 DEF InRange
    <3>2. /\ route # Nil /\ Mine(q).handlers = route /\ Len(frames[q]) <= Len(ran[q])
          /\ IndexAt(q) /\ Nested(q) /\ OrderAt(q) /\ ~wrapped[q]
      BY <1>1, <2>2, <3>1 DEF Chain, Ordered
    <3>3. Len(ran[q]) \in Nat /\ Mine(q).index \in Int /\ Len(route) \in Nat /\ nexts[q] \in Nat
      <4>1. Mine(q) \in Context /\ route \in Some /\ nexts[q] \in Nat
        BY <1>1, <2>2, <3>2, ContextServes DEF DataInv, GinTypeOK
      <4>2. ran[q] \in Seq(Nat)
        BY <1>1 DEF DataInv, GinTypeOK
      <4> QED
        BY <4>1, <4>2, SomeSeq DEF Context
    <3>4. gs # <<>> /\ Len(gs) <= Len(ran[q]) /\ DOMAIN gs = 1 .. k /\ Len(gs) <= Len(frames[q])
      BY <2>3, <2>5, <3>2, <3>3
    <3>5. \A j \in 1 .. k : /\ gs[j].pos < Len(ran[q])
                            /\ gs[j].next = IF j = k THEN "cut" ELSE "in"
      <4> SUFFICES ASSUME NEW j \in 1 .. k
                   PROVE  /\ gs[j].pos < Len(ran[q])
                          /\ gs[j].next = IF j = k THEN "cut" ELSE "in"
        OBVIOUS
      <4>1. frames[q][j].pos < Len(ran[q]) /\ (j # k => frames[q][j].next = "in")
        BY <2>3, <3>2 DEF Nested
      <4> QED
        BY <2>4, <2>5, <4>1
    <3>6. \A j \in 1 .. k : gs[j].next # "called" /\ (j < k => gs[j].next = "in")
      BY <2>3, <3>5
    <3>7. IndexAt(q)'
      BY <2>2, <2>3, <2>5, <2>8, <3>2, <3>3, <3>4 DEF IndexAt
    <3>8. Nested(q)'
      <4>1. \A j \in DOMAIN gs : /\ gs[j].pos < Len(ran[q])
                                 /\ j < Len(gs) => gs[j].next = "in"
        BY <2>5, <3>4, <3>5, <3>6
      <4> QED
        BY <2>2, <2>8, <4>1 DEF Nested
    <3>9. Chain(q)'
      BY <2>2, <2>8, <3>2, <3>4, <3>7, <3>8 DEF Chain
    <3>10. OrderAt(q)'
      <4>1. \A j \in DOMAIN gs : j > 1 => gs[j - 1].pos < gs[j].pos
        <5> SUFFICES ASSUME NEW j \in 1 .. k, j > 1 PROVE gs[j - 1].pos < gs[j].pos
          BY <3>4
        <5>1. frames[q][j - 1].pos < frames[q][j].pos
          <6>1. j \in DOMAIN frames[q] /\ j > 1
            BY <2>3
          <6> QED
            BY <3>2, <6>1 DEF OrderAt
        <5>2. j - 1 \in 1 .. k
          BY <2>3
        <5> QED
          BY <2>4, <2>5, <5>1, <5>2
      <4>2. \A j \in DOMAIN gs : gs[j].next # "called"
        BY <3>4, <3>6
      <4>3. ran[q] = [j \in 1 .. Len(ran[q]) |-> j - 1]
        BY <3>2 DEF OrderAt
      <4> QED
        BY <2>2, <2>8, <4>1, <4>2, <4>3 DEF OrderAt
    <3> QED
      BY <2>2, <3>2, <3>9, <3>10
  <2>10. Ordered(q)'
    BY <2>8, <2>9 DEF Ordered
  <2>11. Only(q)
    BY <1>1, <2>2, <2>7 DEF Only, DataInv, GinTypeOK
  <2> QED
    BY <2>10, <2>11, OthersKept
<1> QED
  BY <1>2, <1>3

\* The steps before requests are served, and those that only move a request.
LEMMA OrderPlain ==
  ASSUME OrderInv, DataInv', \/ \E hs \in Some : Use(hs) \/ GET(hs)
                            \/ Run \/ PoolDrops \/ UNCHANGED gvars
  PROVE  OrderInv'
<1>1. DataInv
  BY DEF OrderInv
<1>2. /\ UNCHANGED <<context, c, rpc, frames, ran, nexts, wrapped>>
      /\ UNCHANGED route \/ phase = "setup"
  BY DEF Use, GET, Run, PoolDrops, gvars, setup, running, answer
<1>3. ASSUME NEW p \in Request PROVE Ordered(p)'
  <2>1. Ordered(p)
    BY DEF OrderInv
  <2>2. phase = "setup" => rpc[p] = "idle"
    BY <1>1 DEF DataInv, GinTypeOK, Owners
  <2>3. Mine(p)' = Mine(p)
    BY <1>2 DEF Mine
  <2> QED
    BY <1>1, <1>2, <2>1, <2>2, <2>3, OrderKept
<1> QED
  BY <1>3 DEF OrderInv

LEMMA OrderEnds ==
  ASSUME OrderInv, DataInv', NEW q \in Request, NotFound(q) \/ LastHeader(q)
  PROVE  OrderInv'
<1>1. DataInv /\ Ordered(q)
  BY DEF OrderInv
<1>2. /\ UNCHANGED <<route, c, frames, ran, nexts, wrapped>>
      /\ \/ context' = context
         \/ context' = [context EXCEPT ![c[q]] = WriteHeaderNow(Mine(q))]
      /\ \/ rpc' = [rpc EXCEPT ![q] = "put"] /\ rpc[q] \in {"lookup", "header"}
         \/ rpc' = [rpc EXCEPT ![q] = "panic"] /\ rpc[q] = "header"
  BY DEF NotFound, LastHeader, setup, Mine
<1>3. /\ Mine(q)'.index = Mine(q).index /\ Mine(q)'.handlers = Mine(q).handlers
      /\ rpc[q] # "idle" /\ rpc'[q] \in {"put", "panic"}
      /\ rpc'[q] = "panic" => rpc[q] = "header"
  <2>1. c[q] \in Contexts /\ Mine(q) \in Context
    BY <1>1, <1>2, ContextServes
  <2>2. Kin(Mine(q), WriteHeaderNow(Mine(q)))
    BY <2>1, WriterKin
  <2> QED
    BY <1>1, <1>2, <2>1, <2>2 DEF Kin, Mine, DataInv, GinTypeOK
<1>4. ASSUME InRange(q)' PROVE Chain(q)' /\ OrderAt(q)' /\ ~wrapped'[q]
  <2>1. Chain(q) /\ OrderAt(q) /\ ~wrapped[q] /\ frames[q] = <<>>
    BY <1>1, <1>2, <1>4 DEF Ordered, InRange, Chain
  <2>2. IndexAt(q)' <=> IndexAt(q)
    BY <1>2, <1>3 DEF IndexAt
  <2>3. Nested(q)' <=> Nested(q)
    BY <1>2, <1>3 DEF Nested
  <2> QED
    BY <1>2, <1>3, <2>1, <2>2, <2>3 DEF Chain, OrderAt
<1>5. Only(q)
  BY <1>1, <1>2 DEF Only, DataInv, GinTypeOK
<1> QED
  BY <1>3, <1>4, <1>5, OthersKept DEF Ordered

LEMMA OrderHandlers ==
  ASSUME OrderInv, DataInv', NEW q \in Request,
         Uses(q)
  PROVE  OrderInv'
<1>1. DataInv /\ rpc[q] # "idle"
  BY DEF OrderInv, Uses, Set, SetCode, ForceHeader, Write, Flush, Hijack, Calls, InHandler
<1>2. Mine(q) \in Context /\ "handler" \in Failed
  BY <1>1, ContextServes DEF Failed
<1>3. ASSUME Set(q) PROVE OrderInv'
  <2> DEFINE x == [Mine(q) EXCEPT !.keys = @ \cup {q}]
  <2>1. x \in Context /\ x.index = Mine(q).index /\ x.handlers = Mine(q).handlers
    BY <1>2 DEF Context
  <2>2. Calls(q, x, Client(q), "handler")
    BY <1>3 DEF Set
  <2> HIDE DEF x
  <2> QED
    BY <1>2, <2>1, <2>2, OrderCalls
<1>4. ASSUME SetCode(q) PROVE OrderInv'
  <2>1. PICK code \in Code : Calls(q, WriteHeader(Mine(q), code), Client(q), "handler")
    BY <1>4 DEF SetCode
  <2>2. code \in Int
    BY GinAssumption
  <2>3. Kin(Mine(q), WriteHeader(Mine(q), code))
    BY <1>2, <2>2, WriterKin
  <2> QED
    BY <1>2, <2>1, <2>3, OrderCalls DEF Kin
<1>5. ASSUME Write(q) PROVE OrderInv'
  <2>1. PICK n \in {0, 1} :
          Calls(q, WriteBytes(Mine(q), n), Body(Mine(q), Client(q), q, n), "handler")
    BY <1>5 DEF Write
  <2>2. Kin(Mine(q), WriteBytes(Mine(q), n))
    BY <1>2, WriterKin
  <2> QED
    BY <1>2, <2>1, <2>2, OrderCalls DEF Kin
<1>6. Kin(Mine(q), WriteHeaderNow(Mine(q))) /\ Kin(Mine(q), Hijacked(Mine(q)))
  BY <1>2, WriterKin
<1>7. ASSUME ForceHeader(q) \/ Flush(q) PROVE OrderInv'
  <2>1. \E rs : \E l \in Failed : Calls(q, WriteHeaderNow(Mine(q)), rs, l)
    BY <1>2, <1>7 DEF ForceHeader, Flush
  <2> QED
    BY <1>6, <2>1, OrderCalls DEF Kin
<1>8. ASSUME Hijack(q) PROVE OrderInv'
  <2>1. \E rs : \E l \in Failed : Calls(q, Hijacked(Mine(q)), rs, l)
    BY <1>2, <1>8 DEF Hijack
  <2> QED
    BY <1>6, <2>1, OrderCalls DEF Kin
<1> QED
  BY <1>3, <1>4, <1>5, <1>7, <1>8 DEF Uses

LEMMA OrderInit == GinInit => OrderInv
<1> SUFFICES ASSUME GinInit PROVE OrderInv
  OBVIOUS
<1>1. DataInv
  BY DataInit
<1>2. ASSUME NEW q \in Request PROVE Ordered(q)
  <2>1. rpc[q] = "idle" /\ Fresh(q)
    BY DEF GinInit, Fresh
  <2> QED
    BY <2>1 DEF Ordered, Fresh, Chain, OrderAt
<1> QED
  BY <1>1, <1>2 DEF OrderInv

LEMMA OrderStep == OrderInv /\ [GinNext]_gvars => OrderInv'
<1> SUFFICES ASSUME OrderInv, [GinNext]_gvars PROVE OrderInv'
  OBVIOUS
<1>1. DataInv'
  BY DataStep DEF OrderInv
<1>2. ASSUME NEW q \in Request, ServeHTTP(q) PROVE OrderInv'
  BY <1>1, <1>2, OrderServe
<1>3. ASSUME NEW q \in Request, Found(q) PROVE OrderInv'
  BY <1>1, <1>3, OrderChain
<1>4. ASSUME NEW q \in Request, NotFound(q) \/ LastHeader(q) PROVE OrderInv'
  BY <1>1, <1>4, OrderEnds
<1>5. ASSUME NEW q \in Request, Put(q) \/ Dies(q) PROVE OrderInv'
  BY <1>1, <1>5, OrderOver DEF Put, Dies
<1>6. ASSUME NEW q \in Request, Handle(q) PROVE OrderInv'
  BY <1>1, <1>6, OrderChain, OrderHandlers, OrderPanics DEF Handle, Uses
<1>7. ASSUME NEW q \in Request, Recovers(q) PROVE OrderInv'
  BY <1>1, <1>7, OrderPanics
<1>8. ASSUME \/ \E hs \in Some : Use(hs) \/ GET(hs)
             \/ Run \/ PoolDrops \/ UNCHANGED gvars
      PROVE  OrderInv'
  BY <1>1, <1>8, OrderPlain
<1> QED
  BY <1>2, <1>3, <1>4, <1>5, <1>6, <1>7, <1>8 DEF GinNext

\* A Context serves one request or is in the pool, and the index of a request stays
\* in its chain as long as the handlers of the chain and the calls of Next that they
\* make, repeated ones included, are fewer than Half (128 in the code), however the
\* calls nest, panic and recover.
THEOREM GinCorrect == GinSpec => []GinInv
<1>1. OrderInv => GinInv
  BY DEF OrderInv, Ordered, DataInv, GinInv
<1> QED
  BY <1>1, OrderInit, OrderStep, PTL DEF GinSpec

\* Within the same limit the handlers of a chain run in its order and each once, and
\* all of them have run when the request is answered and when a Next has returned.
THEOREM InOrderAlways == GinSpec => []InOrder
<1>1. OrderInv => InOrder
  BY DEF OrderInv, Ordered, OrderAt, InOrder
<1> QED
  BY <1>1, OrderInit, OrderStep, PTL DEF GinSpec

-----------------------------------------------------------------------------
(***************************************************************************)
(* The response.                                                           *)
(***************************************************************************)
\* What the writer of x knows of the response rs, which a is to be the code of.
AnswerOf(x, rs, a) ==
  /\ x.size = noWritten => rs = NoResponse /\ x.status = a
  /\ x.size # noWritten =>
       x.size = Len(rs.body) /\ (rs.codes # <<>> \/ rs.hijacked \/ rs.missed)
  /\ rs.codes = <<>> \/ rs.codes = <<IF rs.missed THEN defaultStatus ELSE a>>
  /\ ~rs.disorder

Answered(q) ==
  /\ c[q] = Nil => resp[q] = NoResponse /\ asked[q] = defaultStatus
  /\ c[q] # Nil =>
       /\ AnswerOf(Mine(q), resp[q], asked[q])
       /\ rpc[q] = "lookup" => Mine(q).handlers = Nil
       /\ rpc[q] = "put" => Mine(q).handlers = Nil \/ Mine(q).size # noWritten

AnswerInv == DataInv /\ \A q \in Request : Answered(q)

LEMMA NoResponseIs ==
  /\ NoResponse.codes = <<>> /\ NoResponse.body = <<>> /\ ~NoResponse.hijacked
  /\ ~NoResponse.missed /\ ~NoResponse.disorder /\ Len(NoResponse.body) = 0
  BY DEF NoResponse

\* The header counts as written, and nothing has been sent.
LEMMA MissedAnswer ==
  ASSUME NEW x \in Context, NEW y \in Context, NEW rs \in Response, NEW a, AnswerOf(x, rs, a),
         y.size = IF x.size = noWritten THEN 0 ELSE x.size
  PROVE  /\ AnswerOf(y, Missed(x, rs), a) /\ y.size # noWritten
         /\ Missed(x, rs).hijacked = rs.hijacked
<1> DEFINE h == Missed(x, rs)
<1>1. CASE Written(x)
  <2>1. h = rs /\ y.size = x.size /\ x.size # noWritten
    BY <1>1 DEF Missed, Written
  <2> HIDE DEF h
  <2> QED
    BY <2>1 DEF AnswerOf, h
<1>2. CASE ~Written(x)
  <2>1. x.size = noWritten /\ y.size = 0 /\ rs = NoResponse
    BY <1>2 DEF Written, AnswerOf
  <2>2. /\ h.codes = rs.codes /\ h.body = rs.body /\ h.missed
        /\ h.hijacked = rs.hijacked /\ h.disorder = rs.disorder
    BY <1>2 DEF Missed, Response
  <2> HIDE DEF h
  <2>3. h.codes = <<>> /\ Len(h.body) = 0 /\ ~h.disorder
    BY <2>1, <2>2, NoResponseIs
  <2>4. y.size # noWritten
    BY <2>1 DEF noWritten
  <2>5. AnswerOf(y, h, a)
    BY <2>1, <2>2, <2>3, <2>4 DEF AnswerOf
  <2> QED
    BY <2>2, <2>4, <2>5 DEF h
<1> QED
  BY <1>1, <1>2

\* The code goes out once, and it is the one asked for, or net/http refuses it.
LEMMA HeaderAnswer ==
  ASSUME NEW x \in Context, NEW rs \in Response, NEW a, AnswerOf(x, rs, a)
  PROVE  /\ AnswerOf(WriteHeaderNow(x), Header(x, rs), a)
         /\ WriteHeaderNow(x).size # noWritten /\ WriteHeaderNow(x).size \in Int
         /\ Header(x, rs).hijacked = rs.hijacked
<1> DEFINE y == WriteHeaderNow(x)
           h == Header(x, rs)
<1>1. CASE Written(x)
  <2>1. y = x /\ h = rs
    BY <1>1 DEF WriteHeaderNow, Header
  <2> HIDE DEF y, h
  <2>2. AnswerOf(y, h, a) /\ y.size # noWritten /\ y.size \in Int /\ h.hijacked = rs.hijacked
    BY <1>1, <2>1 DEF Written, Context
  <2> QED
    BY <2>2 DEF y, h
<1>2. CASE ~Written(x) /\ ~ValidCode(x.status)
  <2>1. h = Missed(x, rs)
    BY <1>2 DEF Header
  <2>2. y \in Context
    BY WriterKin DEF Kin
  <2>3. y.size = 0 /\ x.size = noWritten
    BY <1>2 DEF WriteHeaderNow, Context, Written
  <2> HIDE DEF y, h
  <2>4. AnswerOf(y, h, a) /\ y.size # noWritten /\ h.hijacked = rs.hijacked
    BY <2>1, <2>2, <2>3, MissedAnswer
  <2> QED
    BY <2>3, <2>4 DEF y, h
<1>3. CASE ~Written(x) /\ ValidCode(x.status)
  <2>1. x.size = noWritten /\ rs = NoResponse /\ x.status = a /\ ~rs.hijacked /\ ~rs.missed
    BY <1>3, NoResponseIs DEF Written, AnswerOf
  <2>2. y.size = 0
    BY <1>3 DEF WriteHeaderNow, Context
  <2> DEFINE late == rs.disorder \/ rs.hijacked
             codes == Append(rs.codes, x.status)
  <2>3. h = [rs EXCEPT !.codes = codes, !.disorder = late]
    BY <1>3 DEF Header
  <2>4. /\ codes = <<a>> /\ Len(rs.body) = 0 /\ ~late /\ late \in BOOLEAN
        /\ codes # <<>>
    <3>1. rs.codes = <<>> /\ rs.body = <<>> /\ ~rs.disorder
      BY <2>1, NoResponseIs
    <3> QED
      BY <2>1, <3>1
  <2> HIDE DEF late, codes
  <2>5. /\ h.codes = <<a>> /\ h.codes # <<>> /\ Len(h.body) = 0 /\ ~h.missed
        /\ h.hijacked = rs.hijacked /\ ~h.disorder
    <3>1. /\ h.codes = codes /\ h.body = rs.body /\ h.hijacked = rs.hijacked
          /\ h.missed = rs.missed /\ h.disorder = late
      BY <2>3 DEF Response
    <3> QED
      BY <2>1, <2>4, <3>1
  <2> HIDE DEF h, y
  <2>6. AnswerOf(y, h, a)
    BY <2>2, <2>5 DEF AnswerOf, noWritten
  <2>7. y.size # noWritten /\ y.size \in Int /\ h.hijacked = rs.hijacked
    BY <2>2, <2>5 DEF noWritten
  <2> QED
    BY <2>6, <2>7 DEF y, h
<1> QED
  BY <1>1, <1>2, <1>3

\* net/http sends its own code only when the header was missed.
LEMMA ImplicitAnswer ==
  ASSUME NEW x \in Context, x.size # noWritten, NEW rs \in Response, NEW a, AnswerOf(x, rs, a)
  PROVE  AnswerOf(x, Implicit(rs), a) /\ Implicit(rs).hijacked = rs.hijacked
<1> DEFINE h == Implicit(rs)
           codes == <<defaultStatus>>
<1>1. CASE ~(rs.codes = <<>> /\ ~rs.hijacked)
  <2>1. h = rs
    BY <1>1 DEF Implicit
  <2> QED
    BY <2>1
<1>2. CASE rs.codes = <<>> /\ ~rs.hijacked
  <2>1. rs.missed /\ x.size = Len(rs.body) /\ ~rs.disorder
    BY <1>2 DEF AnswerOf
  <2>2. h = [rs EXCEPT !.codes = codes]
    BY <1>2 DEF Implicit
  <2>3. codes # <<>>
    OBVIOUS
  <2>4. codes = <<IF rs.missed THEN defaultStatus ELSE a>>
    BY <2>1
  <2> HIDE DEF codes
  <2>5. /\ h.codes = codes /\ h.body = rs.body /\ h.missed = rs.missed
        /\ h.hijacked = rs.hijacked /\ h.disorder = rs.disorder
    BY <2>2 DEF Response
  <2> HIDE DEF h
  <2>6. AnswerOf(x, h, a)
    BY <2>1, <2>3, <2>4, <2>5 DEF AnswerOf
  <2> QED
    BY <2>5, <2>6 DEF h
<1> QED
  BY <1>1, <1>2

LEMMA BodyAnswer ==
  ASSUME NEW x \in Context, NEW rs \in Response, NEW a, AnswerOf(x, rs, a),
         NEW q \in Request, NEW n \in {0, 1}
  PROVE  AnswerOf(WriteBytes(x, n), Body(x, rs, q, n), a)
<1> DEFINE y == WriteHeaderNow(x)
           h == Implicit(Header(x, rs))
           z == WriteBytes(x, n)
           b == Body(x, rs, q, n)
           more == [i \in 1 .. n |-> q]
<1>1. AnswerOf(y, Header(x, rs), a) /\ y.size # noWritten /\ y.size \in Int
  BY HeaderAnswer
<1>2. Header(x, rs) \in Response /\ y \in Context
  BY HeaderType, WriterKin DEF Kin
<1>3. z = [y EXCEPT !.size = y.size + n]
  BY DEF WriteBytes
<1>4. b = [h EXCEPT !.body = h.body \o more]
  BY DEF Body
<1>5. AnswerOf(y, h, a) /\ h \in Response
  <2> HIDE DEF y
  <2> QED
    BY <1>1, <1>2, ImplicitAnswer, ImplicitType
<1>6. Len(h.body \o more) = Len(h.body) + n /\ Len(h.body) \in Nat
  BY <1>5 DEF Response
<1> HIDE DEF y, h, z, b, more
<1>7. z.size = y.size + n
  BY <1>2, <1>3 DEF Context
<1>8. /\ b.body = h.body \o more /\ b.codes = h.codes /\ b.missed = h.missed
      /\ b.hijacked = h.hijacked /\ b.disorder = h.disorder
  BY <1>4, <1>5 DEF Response
<1>9. /\ y.size = Len(h.body) /\ (h.codes # <<>> \/ h.hijacked \/ h.missed) /\ ~h.disorder
      /\ h.codes = <<>> \/ h.codes = <<IF h.missed THEN defaultStatus ELSE a>>
  BY <1>1, <1>5 DEF AnswerOf
<1>10. z.size = Len(b.body) /\ z.size # noWritten
  BY <1>6, <1>7, <1>8, <1>9 DEF noWritten
<1>11. AnswerOf(z, b, a)
  BY <1>8, <1>9, <1>10 DEF AnswerOf
<1> QED
  BY <1>11 DEF z, b

\* Whether the connection is hijacked or not, the header counts as written.
LEMMA HijackedSize ==
  ASSUME NEW x \in Context, NEW rs \in Response, NEW a, AnswerOf(x, rs, a)
  PROVE  /\ Hijacked(x).size = IF x.size = noWritten THEN 0 ELSE x.size
         /\ Hijacked(x).size = Len(rs.body) /\ Hijacked(x).size # noWritten
<1>1. Len(rs.body) \in Nat /\ x.size \in Int
  BY DEF Response, Context
<1>2. CASE x.size = noWritten
  <2>1. Hijacked(x).size = 0
    BY <1>2 DEF Hijacked, noWritten, Context
  <2>2. Len(rs.body) = 0
    BY <1>2, NoResponseIs DEF AnswerOf
  <2> QED
    BY <1>2, <2>1, <2>2 DEF noWritten
<1>3. CASE x.size # noWritten
  <2>1. x.size = Len(rs.body)
    BY <1>3 DEF AnswerOf
  <2>2. Hijacked(x) = x
    BY <1>1, <2>1 DEF Hijacked
  <2> QED
    BY <1>3, <2>1, <2>2
<1> QED
  BY <1>2, <1>3

LEMMA HijackAnswer ==
  ASSUME NEW x \in Context, NEW rs \in Response, NEW a, AnswerOf(x, rs, a)
  PROVE  /\ AnswerOf(Hijacked(x), [rs EXCEPT !.hijacked = TRUE], a)
         /\ AnswerOf(Hijacked(x), Missed(x, rs), a)
<1> DEFINE y == Hijacked(x)
           h == [rs EXCEPT !.hijacked = TRUE]
<1>1. /\ h.codes = rs.codes /\ h.body = rs.body /\ h.hijacked = TRUE
      /\ h.missed = rs.missed /\ h.disorder = rs.disorder
  BY DEF Response
<1>2. /\ y.size = IF x.size = noWritten THEN 0 ELSE x.size
      /\ y.size = Len(rs.body) /\ y.size # noWritten
  BY HijackedSize
<1>3. (rs.codes = <<>> \/ rs.codes = <<IF rs.missed THEN defaultStatus ELSE a>>) /\ ~rs.disorder
  BY DEF AnswerOf
<1>4. y \in Context
  BY WriterKin DEF Kin
<1> HIDE DEF y, h
<1>5. AnswerOf(y, h, a)
  BY <1>1, <1>2, <1>3 DEF AnswerOf
<1>6. AnswerOf(y, Missed(x, rs), a)
  BY <1>2, <1>4, MissedAnswer
<1> QED
  BY <1>5, <1>6 DEF y, h

\* A code that is set counts until the response has begun.
LEMMA CodeAnswer ==
  ASSUME NEW x \in Context, NEW rs \in Response, NEW a, AnswerOf(x, rs, a), NEW code \in Int
  PROVE  AnswerOf(WriteHeader(x, code), rs, IF code > 0 /\ rs = NoResponse THEN code ELSE a)
<1> DEFINE y == WriteHeader(x, code)
<1>1. CASE ~(code > 0)
  BY <1>1 DEF WriteHeader
<1>2. CASE code > 0
  <2>1. y.size = x.size /\ y.status = code
    BY <1>2 DEF WriteHeader, Context
  <2>2. rs = NoResponse => x.size = noWritten /\ rs.codes = <<>> /\ ~rs.disorder
    BY NoResponseIs DEF AnswerOf
  <2> HIDE DEF y
  <2>3. CASE rs = NoResponse
    <3>1. AnswerOf(y, rs, code)
      BY <2>1, <2>2, <2>3 DEF AnswerOf
    <3> QED
      BY <1>2, <2>3, <3>1 DEF y
  <2>4. CASE rs # NoResponse
    <3>1. AnswerOf(y, rs, a)
      BY <2>1, <2>4 DEF AnswerOf
    <3> QED
      BY <2>4, <3>1 DEF y
  <2> QED
    BY <2>3, <2>4
<1> QED
  BY <1>1, <1>2

\* A step of q leaves the answers to the other requests alone.
OnlyAnswer(q) ==
  /\ \A p \in Request \ {q} : /\ rpc'[p] = rpc[p] /\ c'[p] = c[p]
                              /\ resp'[p] = resp[p] /\ asked'[p] = asked[p]
  /\ \A y \in Contexts \ {c[q], c'[q]} : context'[y] = context[y]

LEMMA OthersAnswered ==
  ASSUME AnswerInv, DataInv', NEW q \in Request, OnlyAnswer(q), Answered(q)'
  PROVE  AnswerInv'
<1>1. ASSUME NEW p \in Request \ {q} PROVE Answered(p)'
  <2>1. DataInv /\ Answered(p)
    BY DEF AnswerInv
  <2>2. /\ rpc'[p] = rpc[p] /\ c'[p] = c[p]
        /\ resp'[p] = resp[p] /\ asked'[p] = asked[p]
    BY DEF OnlyAnswer
  <2>3. CASE c[p] = Nil
    BY <2>1, <2>2, <2>3 DEF Answered
  <2>4. CASE c[p] # Nil
    <3>1. c[p] \in Contexts /\ c[p] # c[q] /\ c'[p] # c'[q]
      BY <2>1, <2>2, <2>4 DEF DataInv, GinTypeOK, Owners
    <3>2. context'[c[p]] = context[c[p]]
      BY <2>2, <3>1 DEF OnlyAnswer
    <3> QED
      BY <2>1, <2>2, <2>4, <3>2 DEF Answered, AnswerOf, Mine
  <2> QED
    BY <2>3, <2>4
<1> QED
  BY <1>1 DEF AnswerInv

\* The answer is as it was when its writer and its client have not changed.
LEMMA AnswerKept ==
  ASSUME AnswerInv, DataInv', NEW q \in Request, OnlyAnswer(q), c[q] # Nil, c'[q] = c[q],
         resp'[q] = resp[q], asked'[q] = asked[q],
         Mine(q)'.size = Mine(q).size, Mine(q)'.status = Mine(q).status,
         rpc'[q] # "lookup", rpc'[q] = "put" => Mine(q)'.handlers = Nil
  PROVE  AnswerInv'
<1>1. AnswerOf(Mine(q), resp[q], asked[q])
  BY DEF AnswerInv, Answered
<1>2. AnswerOf(Mine(q)', resp'[q], asked'[q])
  BY <1>1 DEF AnswerOf
<1>3. Answered(q)'
  BY <1>2 DEF Answered
<1> QED
  BY <1>3, OthersAnswered

LEMMA AnswerAdvance ==
  ASSUME AnswerInv, DataInv', NEW q \in Request, rpc[q] # "idle", NEW x \in Context,
         x.size = Mine(q).size, x.status = Mine(q).status,
         NEW fs, Advance(q, x, fs), UNCHANGED <<setup, pool, c, answer>>
  PROVE  AnswerInv'
<1> DEFINE y == [x EXCEPT !.index = Wrap(x.index + 1)]
<1>1. DataInv /\ c[q] \in Contexts /\ c[q] # Nil
  BY ContextServes, GinAssumption DEF AnswerInv
<1>2. context' = [context EXCEPT ![c[q]] = y] /\ UNCHANGED <<c, resp, asked>>
  BY DEF Advance, answer
<1>3. y.size = x.size /\ y.status = x.status
  BY DEF Context
<1> HIDE DEF y
<1>4. Mine(q)' = y
  BY <1>1, <1>2 DEF Mine, DataInv, GinTypeOK
<1>5. \E s \in {"handler", "panic", "header"} : rpc' = [rpc EXCEPT ![q] = s]
  BY DEF Advance
<1>6. rpc'[q] # "lookup" /\ rpc'[q] # "put" /\ OnlyAnswer(q)
  BY <1>1, <1>2, <1>5 DEF OnlyAnswer, DataInv, GinTypeOK
<1> QED
  BY <1>1, <1>2, <1>3, <1>4, <1>6, AnswerKept

LEMMA AnswerChain ==
  ASSUME AnswerInv, DataInv', NEW q \in Request, Found(q) \/ CallNext(q) \/ HandlerReturns(q)
  PROVE  AnswerInv'
<1>1. rpc[q] # "idle" /\ Mine(q) \in Context
  BY ContextServes DEF AnswerInv, Found, CallNext, HandlerReturns, InHandler
<1>2. ASSUME Found(q) PROVE AnswerInv'
  <2> DEFINE x == [Mine(q) EXCEPT !.handlers = getValue]
  <2>1. x \in Context /\ x.size = Mine(q).size /\ x.status = Mine(q).status
    BY <1>1 DEF Context, getValue, AnswerInv, DataInv, GinTypeOK
  <2>2. Advance(q, x, <<>>) /\ UNCHANGED <<setup, pool, c, answer>>
    BY <1>2 DEF Found, Mine
  <2> HIDE DEF x
  <2> QED
    BY <1>1, <2>1, <2>2, AnswerAdvance
<1>3. ASSUME CallNext(q) \/ HandlerReturns(q) PROVE AnswerInv'
  <2>1. (\E fs : Advance(q, Mine(q), fs)) /\ UNCHANGED <<setup, pool, c, answer>>
    BY <1>3 DEF CallNext, HandlerReturns, Mine
  <2> QED
    BY <1>1, <2>1, AnswerAdvance
<1> QED
  BY <1>2, <1>3

\* A call of the writer.
LEMMA AnswerCalls ==
  ASSUME AnswerInv, DataInv', NEW q \in Request, NEW x \in Context, NEW rs, NEW a,
         x.rw = q, NEW l \in Failed, Calls(q, x, rs, l), AnswerOf(x, rs, a),
         asked' = [asked EXCEPT ![q] = a]
  PROVE  AnswerInv'
<1>1. /\ DataInv /\ rpc[q] = "handler" /\ UNCHANGED c
      /\ rpc' = [rpc EXCEPT ![q] = l] /\ l \in {"handler", "panic"}
      /\ context' = [context EXCEPT ![c[q]] = x] /\ resp' = [resp EXCEPT ![q] = rs]
  BY DEF AnswerInv, Calls, InHandler, Failed
<1>2. c[q] \in Contexts /\ c[q] # Nil
  BY <1>1, ContextServes, GinAssumption
<1>3. Mine(q)' = x /\ resp'[q] = rs /\ asked'[q] = a /\ rpc'[q] = l
  BY <1>1, <1>2 DEF Mine, DataInv, GinTypeOK
<1>4. Answered(q)'
  BY <1>1, <1>2, <1>3 DEF Answered
<1>5. OnlyAnswer(q)
  BY <1>1, <1>2 DEF OnlyAnswer, DataInv, GinTypeOK
<1> QED
  BY <1>1, <1>4, <1>5, OthersAnswered

LEMMA AnswerHandlers ==
  ASSUME AnswerInv, DataInv', NEW q \in Request,
         Uses(q)
  PROVE  AnswerInv'
<1>1. DataInv /\ rpc[q] # "idle"
  BY DEF AnswerInv, Uses, Set, SetCode, ForceHeader, Write, Flush, Hijack, Calls, InHandler
<1>2. /\ Mine(q) \in Context /\ Mine(q).rw = q /\ Client(q) = resp[q]
      /\ resp[q] \in Response /\ c[q] \in Contexts /\ "handler" \in Failed
  BY <1>1, ContextServes DEF Failed
<1>3. AnswerOf(Mine(q), resp[q], asked[q])
  BY <1>2, GinAssumption DEF AnswerInv, Answered
<1>4. UNCHANGED asked => asked' = [asked EXCEPT ![q] = asked[q]]
  BY <1>1 DEF DataInv, GinTypeOK
<1>5. ASSUME Set(q) PROVE AnswerInv'
  <2> DEFINE x == [Mine(q) EXCEPT !.keys = @ \cup {q}]
  <2>1. x \in Context /\ x.rw = q /\ x.size = Mine(q).size /\ x.status = Mine(q).status
    BY <1>2 DEF Context
  <2>2. Calls(q, x, resp[q], "handler") /\ asked' = [asked EXCEPT ![q] = asked[q]]
    BY <1>2, <1>4, <1>5 DEF Set
  <2> HIDE DEF x
  <2>3. AnswerOf(x, resp[q], asked[q])
    BY <1>3, <2>1 DEF AnswerOf
  <2> QED
    BY <1>2, <2>1, <2>2, <2>3, AnswerCalls
<1>6. ASSUME SetCode(q) PROVE AnswerInv'
  <2>1. PICK code \in Code :
          /\ Calls(q, WriteHeader(Mine(q), code), Client(q), "handler")
          /\ asked' = [asked EXCEPT ![q] = IF code > 0 /\ resp[q] = NoResponse THEN code ELSE @]
    BY <1>6 DEF SetCode
  <2> DEFINE a == IF code > 0 /\ resp[q] = NoResponse THEN code ELSE asked[q]
  <2>2. code \in Int
    BY GinAssumption
  <2>3. Kin(Mine(q), WriteHeader(Mine(q), code))
    BY <1>2, <2>2, WriterKin
  <2>4. AnswerOf(WriteHeader(Mine(q), code), resp[q], a)
    BY <1>2, <1>3, <2>2, CodeAnswer
  <2>5. /\ Calls(q, WriteHeader(Mine(q), code), resp[q], "handler")
        /\ asked' = [asked EXCEPT ![q] = a]
    BY <1>2, <2>1
  <2> HIDE DEF a
  <2> QED
    BY <1>2, <2>3, <2>4, <2>5, AnswerCalls DEF Kin
<1>7. ASSUME Write(q) PROVE AnswerInv'
  <2>1. PICK n \in {0, 1} :
          Calls(q, WriteBytes(Mine(q), n), Body(Mine(q), resp[q], q, n), "handler")
    BY <1>2, <1>7 DEF Write
  <2>2. asked' = [asked EXCEPT ![q] = asked[q]]
    BY <1>4, <1>7 DEF Write
  <2>3. Kin(Mine(q), WriteBytes(Mine(q), n))
    BY <1>2, WriterKin
  <2>4. AnswerOf(WriteBytes(Mine(q), n), Body(Mine(q), resp[q], q, n), asked[q])
    BY <1>2, <1>3, <2>1, BodyAnswer
  <2> QED
    BY <1>2, <2>1, <2>2, <2>3, <2>4, AnswerCalls DEF Kin
<1>8. Kin(Mine(q), WriteHeaderNow(Mine(q))) /\ Kin(Mine(q), Hijacked(Mine(q)))
  BY <1>2, WriterKin
<1>9. AnswerOf(WriteHeaderNow(Mine(q)), Header(Mine(q), resp[q]), asked[q])
  BY <1>2, <1>3, HeaderAnswer
<1>10. ASSUME ForceHeader(q) PROVE AnswerInv'
  <2>1. PICK l \in Failed : Calls(q, WriteHeaderNow(Mine(q)), Header(Mine(q), resp[q]), l)
    BY <1>2, <1>10 DEF ForceHeader
  <2>2. asked' = [asked EXCEPT ![q] = asked[q]]
    BY <1>4, <1>10 DEF ForceHeader
  <2> QED
    BY <1>2, <1>8, <1>9, <2>1, <2>2, AnswerCalls DEF Kin
<1>11. ASSUME Flush(q) PROVE AnswerInv'
  <2>1. Calls(q, WriteHeaderNow(Mine(q)), Implicit(Header(Mine(q), resp[q])), "handler")
    BY <1>2, <1>11 DEF Flush
  <2>2. asked' = [asked EXCEPT ![q] = asked[q]]
    BY <1>4, <1>11 DEF Flush
  <2>3. AnswerOf(WriteHeaderNow(Mine(q)), Implicit(Header(Mine(q), resp[q])), asked[q])
    <3>1. /\ WriteHeaderNow(Mine(q)) \in Context /\ WriteHeaderNow(Mine(q)).size # noWritten
          /\ Header(Mine(q), resp[q]) \in Response
      BY <1>2, <1>3, <1>8, HeaderAnswer, HeaderType DEF Kin
    <3> QED
      BY <1>9, <3>1, ImplicitAnswer
  <2> QED
    BY <1>2, <1>8, <2>1, <2>2, <2>3, AnswerCalls DEF Kin
<1>12. ASSUME Hijack(q) PROVE AnswerInv'
  <2>1. asked' = [asked EXCEPT ![q] = asked[q]]
    BY <1>4, <1>12 DEF Hijack
  <2>2. /\ AnswerOf(Hijacked(Mine(q)), [resp[q] EXCEPT !.hijacked = TRUE], asked[q])
        /\ AnswerOf(Hijacked(Mine(q)), Missed(Mine(q), resp[q]), asked[q])
    BY <1>2, <1>3, HijackAnswer
  <2>3. CASE Calls(q, Hijacked(Mine(q)), [resp[q] EXCEPT !.hijacked = TRUE], "handler")
    BY <1>2, <1>8, <2>1, <2>2, <2>3, AnswerCalls DEF Kin
  <2>4. ASSUME NEW l \in Failed, Calls(q, Hijacked(Mine(q)), Missed(Mine(q), resp[q]), l)
        PROVE  AnswerInv'
    BY <1>2, <1>8, <2>1, <2>2, <2>4, AnswerCalls DEF Kin
  <2> QED
    BY <1>2, <1>12, <2>3, <2>4 DEF Hijack
<1> QED
  BY <1>5, <1>6, <1>7, <1>10, <1>11, <1>12 DEF Uses

LEMMA AnswerServe ==
  ASSUME AnswerInv, DataInv', NEW q \in Request, ServeHTTP(q)
  PROVE  AnswerInv'
<1>1. PICK x \in Contexts :
        /\ c' = [c EXCEPT ![q] = x]
        /\ context' = [context EXCEPT
             ![x] = Reset(WriterReset(IF x \in pool THEN @ ELSE NewContext, q))]
  BY DEF ServeHTTP
<1> DEFINE old == IF x \in pool THEN context[x] ELSE NewContext
           y == Reset(WriterReset(old, q))
<1>2. /\ DataInv /\ rpc[q] = "idle" /\ rpc' = [rpc EXCEPT ![q] = "lookup"]
      /\ UNCHANGED <<resp, asked>>
  BY DEF AnswerInv, ServeHTTP, answer
<1>3. y.size = noWritten /\ y.status = defaultStatus /\ y.handlers = Nil
  <2>1. NewContext \in Context
    BY DEF NewContext, Context
  <2>2. old \in Context
    BY <1>2, <2>1 DEF DataInv, GinTypeOK
  <2> HIDE DEF old
  <2> DEFINE wr == WriterReset(old, q)
  <2>3. wr \in Context /\ wr.size = noWritten /\ wr.status = defaultStatus
    BY <2>2, WriterResetType, Zenon
  <2> HIDE DEF wr
  <2>4. Reset(wr).size = wr.size /\ Reset(wr).status = wr.status /\ Reset(wr).handlers = Nil
    BY <2>3, ResetType
  <2> QED
    BY <2>3, <2>4 DEF wr
<1>4. context' = [context EXCEPT ![x] = y]
  BY <1>1
<1> HIDE DEF y, old
<1>5. Mine(q)' = y /\ c'[q] = x /\ rpc'[q] = "lookup" /\ x # Nil
  BY <1>1, <1>2, <1>4, GinAssumption DEF DataInv, GinTypeOK, Mine
<1>6. resp'[q] = NoResponse /\ asked'[q] = defaultStatus
  BY <1>2 DEF AnswerInv, Answered, DataInv, GinTypeOK
<1>7. AnswerOf(y, NoResponse, defaultStatus)
  BY <1>3, NoResponseIs DEF AnswerOf
<1>8. Answered(q)'
  BY <1>3, <1>5, <1>6, <1>7 DEF Answered
<1>9. OnlyAnswer(q)
  BY <1>1, <1>2, <1>4, <1>5 DEF OnlyAnswer, DataInv, GinTypeOK
<1> QED
  BY <1>8, <1>9, OthersAnswered

LEMMA AnswerLastHeader ==
  ASSUME AnswerInv, DataInv', NEW q \in Request, LastHeader(q)
  PROVE  AnswerInv'
<1>1. /\ DataInv /\ rpc[q] # "idle" /\ UNCHANGED <<c, asked>>
      /\ \E l \in {"put", "panic"} : rpc' = [rpc EXCEPT ![q] = l]
      /\ context' = [context EXCEPT ![c[q]] = WriteHeaderNow(Mine(q))]
  BY DEF AnswerInv, LastHeader, Mine
<1>2. /\ c[q] \in Contexts /\ c[q] # Nil /\ Mine(q) \in Context
      /\ Mine(q).rw = q /\ resp[q] \in Response
  BY <1>1, ContextServes, GinAssumption
<1>3. resp' = [resp EXCEPT ![q] = Header(Mine(q), resp[q])]
  BY <1>2 DEF LastHeader, Mine
<1>4. AnswerOf(Mine(q), resp[q], asked[q])
  BY <1>2 DEF AnswerInv, Answered
<1>5. /\ AnswerOf(WriteHeaderNow(Mine(q)), Header(Mine(q), resp[q]), asked[q])
      /\ WriteHeaderNow(Mine(q)).size # noWritten
  BY <1>2, <1>4, HeaderAnswer
<1>6. /\ Mine(q)' = WriteHeaderNow(Mine(q)) /\ resp'[q] = Header(Mine(q), resp[q])
      /\ rpc'[q] # "lookup" /\ asked'[q] = asked[q] /\ c'[q] # Nil
  BY <1>1, <1>2, <1>3 DEF Mine, DataInv, GinTypeOK
<1>7. Answered(q)'
  BY <1>5, <1>6 DEF Answered
<1>8. OnlyAnswer(q)
  BY <1>1, <1>3 DEF OnlyAnswer, DataInv, GinTypeOK
<1> QED
  BY <1>7, <1>8, OthersAnswered

LEMMA AnswerOver ==
  ASSUME AnswerInv, DataInv', NEW q \in Request, NEW b \in BOOLEAN, Over(q, b)
  PROVE  AnswerInv'
<1>1. /\ DataInv /\ UNCHANGED context
      /\ c' = [c EXCEPT ![q] = Nil] /\ rpc' = [rpc EXCEPT ![q] = "idle"]
      /\ resp' = [resp EXCEPT ![q] = NoResponse] /\ asked' = [asked EXCEPT ![q] = defaultStatus]
  BY DEF AnswerInv, Over
<1>2. Answered(q)'
  BY <1>1 DEF Answered, DataInv, GinTypeOK
<1>3. OnlyAnswer(q)
  BY <1>1 DEF OnlyAnswer, DataInv, GinTypeOK
<1> QED
  BY <1>2, <1>3, OthersAnswered

\* The steps that only move a request.
LEMMA AnswerMoves ==
  ASSUME AnswerInv, DataInv', NEW q \in Request, NotFound(q) \/ HandlerPanics(q) \/ Recovers(q)
  PROVE  AnswerInv'
<1>1. /\ DataInv /\ rpc[q] # "idle" /\ UNCHANGED <<context, c, resp, asked>>
      /\ \/ rpc[q] = "lookup" /\ rpc' = [rpc EXCEPT ![q] = "put"]
         \/ rpc' = [rpc EXCEPT ![q] = "panic"]
         \/ rpc' = [rpc EXCEPT ![q] = "handler"]
  BY DEF AnswerInv, NotFound, HandlerPanics, Recovers, InHandler, answer
<1>2. c[q] # Nil /\ Answered(q)
  BY <1>1, ContextServes, GinAssumption DEF AnswerInv
<1>3. /\ rpc'[q] # "lookup" /\ Mine(q)' = Mine(q)
      /\ rpc'[q] = "put" => Mine(q).handlers = Nil
  BY <1>1, <1>2 DEF Answered, Mine, DataInv, GinTypeOK
<1>4. OnlyAnswer(q)
  BY <1>1 DEF OnlyAnswer, DataInv, GinTypeOK
<1> QED
  BY <1>1, <1>2, <1>3, <1>4, AnswerKept

LEMMA AnswerInit == GinInit => AnswerInv
  BY DataInit DEF GinInit, AnswerInv, Answered

LEMMA AnswerStep == AnswerInv /\ [GinNext]_gvars => AnswerInv'
<1> SUFFICES ASSUME AnswerInv, [GinNext]_gvars PROVE AnswerInv'
  OBVIOUS
<1>1. DataInv'
  BY DataStep DEF AnswerInv
<1>2. ASSUME NEW q \in Request, ServeHTTP(q) PROVE AnswerInv'
  BY <1>1, <1>2, AnswerServe
<1>3. ASSUME NEW q \in Request, Found(q) PROVE AnswerInv'
  BY <1>1, <1>3, AnswerChain
<1>4. ASSUME NEW q \in Request, NotFound(q) \/ Recovers(q) PROVE AnswerInv'
  BY <1>1, <1>4, AnswerMoves
<1>5. ASSUME NEW q \in Request, LastHeader(q) PROVE AnswerInv'
  BY <1>1, <1>5, AnswerLastHeader
<1>6. ASSUME NEW q \in Request, Put(q) \/ Dies(q) PROVE AnswerInv'
  BY <1>1, <1>6, AnswerOver DEF Put, Dies
<1>7. ASSUME NEW q \in Request, Handle(q) PROVE AnswerInv'
  BY <1>1, <1>7, AnswerChain, AnswerHandlers, AnswerMoves DEF Handle, Uses
<1>8. ASSUME \/ \E hs \in Some : Use(hs) \/ GET(hs)
             \/ Run \/ PoolDrops \/ UNCHANGED gvars
      PROVE  AnswerInv'
  <2>1. UNCHANGED <<context, c, rpc, resp, asked>>
    BY <1>8 DEF Use, GET, Run, PoolDrops, gvars, setup, running, answer
  <2> QED
    BY <1>1, <2>1 DEF AnswerInv, Answered, AnswerOf, Mine
<1> QED
  BY <1>2, <1>3, <1>4, <1>5, <1>6, <1>7, <1>8 DEF GinNext

\* For any calls of the writer the client gets one status code at most, and none once
\* the connection is hijacked: the last one asked for by then, or 200 if a Hijack has
\* failed or net/http has refused a status.  Without such a failure every request that
\* is not hijacked has its code, and Size() counts the bytes that got through.
THEOREM ResponseRightAlways == GinSpec => []ResponseRight
<1>1. AnswerInv => ResponseRight
  <2> SUFFICES ASSUME AnswerInv, NEW q \in Request
               PROVE  /\ Len(resp[q].codes) <= 1
                      /\ resp[q].codes # <<>> =>
                           resp[q].codes = <<IF resp[q].missed THEN defaultStatus ELSE asked[q]>>
                      /\ ~resp[q].disorder
                      /\ rpc[q] = "put" /\ Mine(q).handlers # Nil =>
                           /\ resp[q].codes # <<>> \/ resp[q].hijacked \/ resp[q].missed
                           /\ Mine(q).size = Len(resp[q].body)
    BY DEF ResponseRight
  <2>1. CASE c[q] = Nil
    <3>1. resp[q] = NoResponse /\ rpc[q] = "idle"
      BY <2>1 DEF AnswerInv, Answered, DataInv, GinTypeOK
    <3> QED
      BY <3>1, NoResponseIs
  <2>2. CASE c[q] # Nil
    <3> DEFINE code == IF resp[q].missed THEN defaultStatus ELSE asked[q]
    <3>1. AnswerOf(Mine(q), resp[q], asked[q])
      BY <2>2 DEF AnswerInv, Answered
    <3>2. resp[q].codes = <<>> \/ resp[q].codes = <<code>>
      BY <3>1 DEF AnswerOf
    <3>3. Len(resp[q].codes) <= 1
      <4> HIDE DEF code
      <4>1. Len(<<>>) = 0 /\ Len(<<code>>) = 1
        OBVIOUS
      <4>2. CASE resp[q].codes = <<>>
        BY <4>1, <4>2
      <4>3. CASE resp[q].codes = <<code>>
        <5>1. Len(resp[q].codes) = Len(<<code>>)
          BY <4>3, Zenon
        <5> QED
          BY <4>1, <5>1
      <4> QED
        BY <3>2, <4>2, <4>3
    <3>4. rpc[q] = "put" => Mine(q).handlers = Nil \/ Mine(q).size # noWritten
      BY <2>2 DEF AnswerInv, Answered
    <3> QED
      BY <3>1, <3>2, <3>3, <3>4 DEF AnswerOf
  <2> QED
    BY <2>1, <2>2
<1> QED
  BY <1>1, AnswerInit, AnswerStep, PTL DEF GinSpec

=============================================================================
