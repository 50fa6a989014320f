---------------------------- MODULE GroupsProofs ----------------------------
(***************************************************************************)
(* The groups are right for any number of tasks, waiters, keys and rounds: *)
(* a WaitGroup's checks do not fire and Wait returns when all is done, the *)
(* first error stays, and the callers of a key get the same result.        *)
(***************************************************************************)
EXTENDS Groups, FiniteSetTheorems, TLAPS

-----------------------------------------------------------------------------
(***************************************************************************)
(* The inductive invariant.                                                *)
(***************************************************************************)
\* Who sleeps in Wait of x, who has ended a round of x and wakes them, and who
\* has been woken.
Users(x, pcs) == {g \in Goroutine : wg[g] = x /\ wgpc[g] \in pcs}
Sleeping(x) == Users(x, {"sem"})
Ending(x) == Users(x, {"check", "reset"})
Waking(x) == Users(x, {"wake"})

\* A WaitGroup between any two steps.
Sound(x) ==
  /\ \A g, h \in Ending(x) \cup Waking(x) : g = h
  /\ \A g \in Ending(x) : state[x] = loaded[g] /\ state[x].v = 0 /\ state[x].w > 0
  /\ \A g \in Waking(x) : state[x] = Zero /\ loaded[g].w > 0
                          /\ Cardinality(Sleeping(x)) = sema[x] + loaded[g].w
  /\ Waking(x) = {} => Cardinality(Sleeping(x)) = sema[x] + state[x].w
  /\ state[x].v > 0 \/ state[x].w > 0 => sema[x] = 0
  /\ state[x].v = 0 /\ state[x].w > 0 => Ending(x) # {}
  /\ \A g \in Users(x, {"awake"}) : state[x] = Zero
  /\ \A g \in Users(x, {"cas"}) : loaded[g].v > 0

\* All of them are sound, and a goroutine is in a call or in none.
WGSound ==
  /\ \A g \in Goroutine : wgpc[g] = "idle" <=> wg[g] = NoWG
  /\ \A x \in WG : Sound(x)

\* Who calls which WaitGroup.
Callers ==
  /\ \A w \in Waiter : wgpc[w] # "idle" =>
       wg[w] = Group /\ wpc[w] = "wait" /\ wgpc[w] \in {"again", "cas", "sem", "awake"}
  /\ \A t \in Task : wgpc[t] # "idle" =>
       \/ wg[t] = Group /\ tpc[t] = "end" /\ wgpc[t] \in {"check", "reset", "wake"}
       \/ /\ tpc[t] = "run" /\ key[t] \in Key /\ wg[t] = Mine(t)
          /\ \/ sfpc[t] = "joined" /\ wgpc[t] \in {"again", "cas", "sem", "awake"}
             \/ sfpc[t] = "led" /\ wgpc[t] \in {"check", "reset", "wake"}
  /\ \A g \in Goroutine : sfpc[g] \notin {"idle", "returned"} => g \in Task /\ tpc[g] = "run"

\* The tasks of the group that run.
Running == {t \in Task : tpc[t] \notin {"new", "end"}}

\* The group counts its tasks, and nobody passes Wait before they have ended.
Counts ==
  /\ state[Group].v = Cardinality(Running)
  /\ wpc[Owner] = "start" => \A w \in Waiter : wpc[w] = "start"
  /\ \A w \in Waiter : (wpc[w] \in {"err", "returned"} \/ (wpc[w] = "wait" /\ wgpc[w] = "idle"))
       => state[Group].v = 0
  /\ \A w \in Waiter : wpc[w] = "returned" => wret[w] = err

\* The Once of the group.
OnceRight ==
  /\ \A t \in Task : tpc[t] \in {"set", "cancel", "store", "unlock"} => onceMu
  /\ \A s, t \in Task : tpc[s] \in {"set", "cancel", "store", "unlock"}
                        /\ tpc[t] \in {"set", "cancel", "store", "unlock"} => s = t
  /\ \A t \in Task : tpc[t] = "set" => done = 0 /\ err = NoErr
  /\ \A t \in Task : tpc[t] \in {"cancel", "store", "unlock"} => err # NoErr
  /\ done = 1 => err # NoErr
  /\ err # NoErr => done = 1 \/ \E t \in Task : tpc[t] \in {"cancel", "store"}
  /\ \A t \in Task : IF tpc[t] \in {"once", "lock", "set"} THEN terr[t] # NoErr
                                                           ELSE terr[t] # NoErr => err # NoErr

\* The calls of a SingleFlightGroup.
Leading(k) == {g \in Goroutine : sfpc[g] \in {"fn", "done"} /\ key[g] = k}
\* A key has its own call object, which counts its leader; one that no key has is
\* as new; whoever has left Wait or has led finds the result.
Flights ==
  /\ \A k, l \in Key : m[k] = m[l] /\ m[k] # None => k = l
  /\ \A g \in Goroutine : sfpc[g] # "idle" => key[g] \in Key /\ Mine(g) \in Cell
  /\ \A c \in Cell : (\A k \in Key : m[k] # c) => state[c] = Zero
  /\ \A k \in Key : \A g, h \in Leading(k) : g = h
  /\ \A k \in Key : m[k] # None =>
       /\ state[m[k]].v = IF Leading(k) # {} THEN 1 ELSE 0
       /\ state[m[k]].v = 0 => val[m[k]] # None
  /\ \A g \in Goroutine : sfpc[g] = "done" => val[Mine(g)] # None
  /\ \A g \in Goroutine :
       sfpc[g] \in {"led", "returned"} \/ (sfpc[g] = "joined" /\ wgpc[g] = "idle")
       => state[Mine(g)].v = 0
  /\ \A g \in Goroutine : sfpc[g] = "returned" => ret[g].res = val[Mine(g)]

\* The inductive invariant.
IInv == WGTypeOK /\ EGTypeOK /\ SFTypeOK /\ NoMisuse
        /\ WGSound /\ Callers /\ Counts /\ OnceRight /\ Flights

-----------------------------------------------------------------------------
(***************************************************************************)
(* The WaitGroup, for clients that follow its rules.                       *)
(***************************************************************************)
\* Where a goroutine is in Wait, and where in Add.
WaitPc == {"again", "cas", "sem", "awake"}
AddPc == {"check", "reset", "wake"}

\* A set of users is finite.
LEMMA Countable ==
  ASSUME NEW x
  PROVE  IsFiniteSet(Sleeping(x)) /\ Cardinality(Sleeping(x)) \in Nat
<1>1. Sleeping(x) \subseteq Goroutine /\ IsFiniteSet(Goroutine)
  BY WaitGroupAssumption DEF Sleeping, Users
<1> QED
  BY <1>1, FS_Subset, FS_CardinalityType

\* One step of g on x: its users are the same but for g.
LEMMA AtIs ==
  ASSUME WGTypeOK, WGSound, NEW g \in Goroutine, NEW x \in WG, NEW l, NEW s,
         At(g, l, x, s), wg[g] \in {x, NoWG}
  PROVE  /\ \A h \in Goroutine : h # g =>
              wgpc'[h] = wgpc[h] /\ wg'[h] = wg[h] /\ loaded'[h] = loaded[h]
         /\ wgpc'[g] = l /\ wg'[g] = (IF l = "idle" THEN NoWG ELSE x)
         /\ loaded'[g] = (IF l = "idle" THEN Zero ELSE s)
         /\ (\A h \in Goroutine : wgpc'[h] = "idle" <=> wg'[h] = NoWG)
<1> QED
  BY WaitGroupAssumption DEF WGTypeOK, WGSound, At

\* The other WaitGroups do not notice.
LEMMA Elsewhere ==
  ASSUME WGTypeOK, WGSound, NEW g \in Goroutine, NEW x \in WG, NEW l, NEW s,
         At(g, l, x, s), wg[g] \in {x, NoWG},
         NEW y \in WG, y # x, state'[y] = state[y], sema'[y] = sema[y]
  PROVE  Sound(y)'
<1>1. Sound(y) /\ NoWG \notin WG
  BY WaitGroupAssumption DEF WGSound
<1>2. \A h \in Goroutine : h # g =>
        wgpc'[h] = wgpc[h] /\ wg'[h] = wg[h] /\ loaded'[h] = loaded[h]
  BY AtIs
<1>3. wg[g] # y /\ wg'[g] # y
  BY <1>1, AtIs
<1>4. \A h \in Goroutine : wg'[h] = y <=> wg[h] = y
  BY <1>2, <1>3
<1>5. \A h \in Goroutine : wg[h] = y => wgpc'[h] = wgpc[h] /\ loaded'[h] = loaded[h]
  BY <1>2, <1>3
<1>6. ASSUME NEW P PROVE Users(y, P)' = Users(y, P)
  BY <1>4, <1>5 DEF Users
<1>7. /\ Ending(y)' = Ending(y) /\ Waking(y)' = Waking(y) /\ Sleeping(y)' = Sleeping(y)
      /\ Users(y, {"awake"})' = Users(y, {"awake"}) /\ Users(y, {"cas"})' = Users(y, {"cas"})
  BY <1>6 DEF Ending, Waking, Sleeping
<1>8. \A h \in Ending(y) \cup Waking(y) \cup Users(y, {"cas"}) : loaded'[h] = loaded[h]
  BY <1>5 DEF Ending, Waking, Users
<1> QED
  BY <1>1, <1>7, <1>8 DEF Sound

\* How many sleep on x after the step.
LEMMA SleepersAre ==
  ASSUME WGTypeOK, WGSound, NEW g \in Goroutine, NEW x \in WG, NEW l, NEW s,
         At(g, l, x, s), wg[g] \in {x, NoWG}
  PROVE  LET n == Cardinality(Sleeping(x))
             p == Cardinality(Sleeping(x)')
         IN /\ n \in Nat /\ p \in Nat
            /\ (wgpc[g] = "sem" <=> l = "sem") => p = n
            /\ wgpc[g] # "sem" /\ l = "sem" => p = n + 1
            /\ wgpc[g] = "sem" /\ l # "sem" => p = n - 1
<1> DEFINE S == Sleeping(x)
           P == Sleeping(x)'
<1>1. IsFiniteSet(S) /\ Cardinality(S) \in Nat
  BY Countable
<1>2. \A h \in Goroutine : h # g => wgpc'[h] = wgpc[h] /\ wg'[h] = wg[h]
  BY AtIs
<1>3. wgpc'[g] = l /\ wg'[g] = (IF l = "idle" THEN NoWG ELSE x) /\ NoWG \notin WG
      /\ (wgpc[g] = "idle" <=> wg[g] = NoWG)
  BY AtIs, WaitGroupAssumption DEF WGSound
<1>4. S = {h \in Goroutine : wg[h] = x /\ wgpc[h] = "sem"}
      /\ P = {h \in Goroutine : wg'[h] = x /\ wgpc'[h] = "sem"}
  BY DEF Sleeping, Users
<1> HIDE DEF S, P
<1>5. CASE wgpc[g] = "sem" <=> l = "sem"
  <2>1. P = S
    BY <1>2, <1>3, <1>4, <1>5
  <2> QED
    BY <1>1, <1>5, <2>1 DEF S, P
<1>6. CASE wgpc[g] # "sem" /\ l = "sem"
  <2>1. P = S \cup {g} /\ g \notin S
    BY <1>2, <1>3, <1>4, <1>6
  <2>2. Cardinality(P) = Cardinality(S) + 1
    BY <1>1, <2>1, FS_AddElement
  <2> QED
    BY <1>1, <1>6, <2>2 DEF S, P
<1>7. CASE wgpc[g] = "sem" /\ l # "sem"
  <2>1. P = S \ {g} /\ g \in S
    BY <1>2, <1>3, <1>4, <1>7
  <2>2. Cardinality(P) = Cardinality(S) - 1 /\ IsFiniteSet(P)
    BY <1>1, <2>1, FS_RemoveElement
  <2>3. Cardinality(P) \in Nat
    BY <2>2, FS_CardinalityType
  <2> QED
    BY <1>1, <1>7, <2>2, <2>3 DEF S, P
<1> QED
  BY <1>5, <1>6, <1>7

\* What Sound says of each user.
LEMMA SoundUser ==
  ASSUME WGTypeOK, WGSound, NEW g \in Goroutine, wg[g] \in WG
  PROVE  LET x == wg[g]
             n == Cardinality(Sleeping(x))
         IN /\ n \in Nat /\ state[x].v \in Nat /\ state[x].w \in Nat /\ sema[x] \in Nat
            /\ state[x] \in [v : Nat, w : Nat] /\ loaded[g] \in [v : Nat, w : Nat]
            /\ wgpc[g] \in {"check", "reset"} =>
                 /\ state[x] = loaded[g] /\ state[x].v = 0 /\ state[x].w > 0 /\ sema[x] = 0
                 /\ n = state[x].w
            /\ wgpc[g] = "wake" => state[x] = Zero /\ loaded[g].w > 0 /\ n = sema[x] + loaded[g].w
            /\ wgpc[g] = "awake" => state[x] = Zero
            /\ wgpc[g] = "cas" => loaded[g].v > 0
<1>1. wg[g] \in WG /\ Sound(wg[g])
  BY DEF WGSound
<1>2. Cardinality(Sleeping(wg[g])) \in Nat
  BY Countable
<1>3. /\ state[wg[g]] \in [v : Nat, w : Nat] /\ loaded[g] \in [v : Nat, w : Nat]
      /\ sema[wg[g]] \in Nat
  BY <1>1 DEF WGTypeOK
<1>4. wgpc[g] \in {"check", "reset"} =>
         /\ state[wg[g]] = loaded[g] /\ state[wg[g]].v = 0 /\ state[wg[g]].w > 0
         /\ Waking(wg[g]) = {}
  <2>1. ASSUME wgpc[g] \in {"check", "reset"}
        PROVE /\ state[wg[g]] = loaded[g] /\ state[wg[g]].v = 0 /\ state[wg[g]].w > 0
              /\ Waking(wg[g]) = {}
    <3>1. g \in Ending(wg[g])
      BY <2>1 DEF Ending, Users
    <3>2. \A h \in Waking(wg[g]) : h = g
      BY <1>1, <3>1 DEF Sound
    <3>3. g \notin Waking(wg[g])
      BY <2>1 DEF Waking, Users
    <3> QED
      BY <1>1, <3>1, <3>2, <3>3 DEF Sound
  <2> QED
    BY <2>1
<1>5. wgpc[g] = "wake" => g \in Waking(wg[g])
  BY DEF Waking, Users
<1>6. wgpc[g] = "awake" => g \in Users(wg[g], {"awake"})
  BY DEF Users
<1>7. wgpc[g] = "cas" => g \in Users(wg[g], {"cas"})
  BY DEF Users
<1>8. wgpc[g] \in {"check", "reset"} =>
           sema[wg[g]] = 0 /\ Cardinality(Sleeping(wg[g])) = state[wg[g]].w
  BY <1>1, <1>2, <1>3, <1>4 DEF Sound
<1> QED
  BY <1>1, <1>2, <1>3, <1>4, <1>5, <1>6, <1>7, <1>8 DEF Sound

\* The two orders of the last Add.
LEMMA WakeupIs == Wakeup(1) = "reset" /\ After("reset") = "wake" /\ After("wake") = "idle"
<1>1. \A k \in 1 .. 2 : (Wakeup(k) = "reset" <=> k = 1) /\ (Wakeup(k) = "wake" <=> k = 2)
  BY DEF Wakeup
<1>2. (CHOOSE k \in 1 .. 2 : Wakeup(k) = "reset") = 1
  BY <1>1
<1>3. (CHOOSE k \in 1 .. 2 : Wakeup(k) = "wake") = 2
  BY <1>1
<1>4. After("reset") = Wakeup(2)
  <2>1. After("reset") = Wakeup(1 + 1)
    BY <1>2, Zenon DEF After
  <2> QED
    BY <2>1
<1>5. After("wake") = Wakeup(3)
  <2>1. After("wake") = Wakeup(1 + 2)
    BY <1>3, Zenon DEF After
  <2> QED
    BY <2>1
<1> QED
  BY <1>4, <1>5 DEF Wakeup

\* The state nobody uses.
LEMMA ZeroIs == Zero \in [v : Nat, w : Nat] /\ Zero.v = 0 /\ Zero.w = 0
<1> QED
  BY DEF Zero

\* A step of one goroutine on x that leaves x sound leaves all of them so.
LEMMA OneSound ==
  ASSUME WGTypeOK, WGSound, NEW g \in Goroutine, NEW x \in WG, wg[g] \in {x, NoWG},
         NEW l \in {"idle", "check", "reset", "wake", "again", "cas", "sem", "awake", "panic"},
         NEW s \in [v : Nat, w : Nat], At(g, l, x, s),
         NEW st \in [v : Nat, w : Nat], NEW sm \in Nat,
         state' = [state EXCEPT ![x] = st], sema' = [sema EXCEPT ![x] = sm],
         Sound(x)'
  PROVE  WGTypeOK' /\ WGSound'
<1>1. WGTypeOK'
  BY ZeroIs DEF WGTypeOK, At
<1>2. \A h \in Goroutine : wgpc'[h] = "idle" <=> wg'[h] = NoWG
  BY AtIs
<1>3. ASSUME NEW y \in WG, y # x PROVE Sound(y)'
  <2>1. state'[y] = state[y] /\ sema'[y] = sema[y]
    BY <1>3 DEF WGTypeOK
  <2> QED
    BY <1>3, <2>1, Elsewhere
<1> QED
  BY <1>1, <1>2, <1>3 DEF WGSound

\* A step of a call that has begun keeps the WaitGroup sound.
LEMMA WGStepKeeps ==
  ASSUME WGTypeOK, WGSound, NEW g \in Goroutine, WGStep(g)
  PROVE  WGTypeOK' /\ WGSound'
<1>1. wgpc[g] # "idle" /\ \E y \in WG : y = wg[g]
  BY DEF WGTypeOK, WGSound, WGStep, CheckState, ResetState, Wake, WaitAgain, CountWaiter,
     WaitAcquire, CheckReuse
<1> PICK x \in WG : x = wg[g]
  BY <1>1
<1> DEFINE n == Cardinality(Sleeping(x))
           p == Cardinality(Sleeping(x)')
<1>2. /\ n \in Nat /\ state[x].v \in Nat /\ state[x].w \in Nat /\ sema[x] \in Nat
      /\ state[x] \in [v : Nat, w : Nat] /\ loaded[g] \in [v : Nat, w : Nat]
      /\ wgpc[g] \in {"check", "reset"} =>
           /\ state[x] = loaded[g] /\ state[x].v = 0 /\ state[x].w > 0 /\ sema[x] = 0
           /\ n = state[x].w
      /\ wgpc[g] = "wake" => state[x] = Zero /\ loaded[g].w > 0 /\ n = sema[x] + loaded[g].w
      /\ wgpc[g] = "awake" => state[x] = Zero
      /\ wgpc[g] = "cas" => loaded[g].v > 0
  BY <1>1, SoundUser
<1>3. wg[g] \in {x, NoWG}
  OBVIOUS
<1>4. ASSUME NEW l, NEW s, At(g, l, x, s)
      PROVE  /\ p \in Nat
             /\ (wgpc[g] = "sem" <=> l = "sem") => p = n
             /\ wgpc[g] # "sem" /\ l = "sem" => p = n + 1
             /\ wgpc[g] = "sem" /\ l # "sem" => p = n - 1
             /\ \A h \in Goroutine : h # g =>
                  wgpc'[h] = wgpc[h] /\ wg'[h] = wg[h] /\ loaded'[h] = loaded[h]
             /\ wgpc'[g] = l /\ wg'[g] = (IF l = "idle" THEN NoWG ELSE x)
             /\ loaded'[g] = (IF l = "idle" THEN Zero ELSE s)
  BY <1>1, <1>4, AtIs, SleepersAre
<1>5. Sound(x) /\ x # NoWG
  BY <1>1, WaitGroupAssumption DEF WGSound
<1>6. state = [state EXCEPT ![x] = state[x]] /\ sema = [sema EXCEPT ![x] = sema[x]]
  BY DEF WGTypeOK
<1> HIDE DEF n, p
<1>7. CASE CheckState(g)
  <2>1. wgpc[g] = "check" /\ At(g, "reset", x, loaded[g]) /\ UNCHANGED <<state, sema>>
    BY <1>2, <1>7, WakeupIs DEF CheckState
  <2>2. Sound(x)'
    <3>1. /\ Users(x, {"awake"})' = Users(x, {"awake"}) /\ Users(x, {"cas"})' = Users(x, {"cas"})
          /\ Waking(x)' = Waking(x) /\ Ending(x)' = Ending(x)
      BY <1>4, <2>1 DEF Users, Waking, Ending
    <3> QED
      BY <1>2, <1>4, <1>5, <2>1, <3>1 DEF Sound, n, p, Users, Ending, Waking
  <2> QED
    BY <1>2, <1>3, <1>6, OneSound, <2>1, <2>2
<1>8. CASE ResetState(g)
  <2>1. /\ wgpc[g] = "reset" /\ At(g, "wake", x, loaded[g]) /\ UNCHANGED sema
        /\ state' = [state EXCEPT ![x] = Zero] /\ state'[x] = Zero
    BY <1>8, WakeupIs DEF ResetState, WGTypeOK
  <2>2. Sound(x)'
    BY <1>2, <1>4, <1>5, <2>1 DEF Sound, n, p, Users, Ending, Waking, Zero
  <2> QED
    BY <1>2, <1>3, <1>6, OneSound, <2>1, <2>2, ZeroIs
<1>9. CASE Wake(g)
  <2>1. /\ wgpc[g] = "wake" /\ UNCHANGED state
        /\ sema' = [sema EXCEPT ![x] = sema[x] + 1] /\ sema'[x] = sema[x] + 1
        /\ At(g, IF loaded[g].w = 1 THEN "idle" ELSE "wake", x,
              [loaded[g] EXCEPT !.w = loaded[g].w - 1])
    BY <1>9, WakeupIs DEF Wake, WGTypeOK, Released
  <2>2. Sound(x)'
    BY <1>2, <1>4, <1>5, <2>1 DEF Sound, n, p, Users, Ending, Waking, Zero
  <2>3. [loaded[g] EXCEPT !.w = loaded[g].w - 1] \in [v : Nat, w : Nat] /\ sema[x] + 1 \in Nat
    BY <1>2, <2>1
  <2>4. (IF loaded[g].w = 1 THEN "idle" ELSE "wake")
          \in {"idle", "check", "reset", "wake", "again", "cas", "sem", "awake", "panic"}
    OBVIOUS
  <2> QED
    BY <1>2, <1>3, <1>6, OneSound, <2>1, <2>2, <2>3, <2>4
<1>10. CASE WaitAgain(g)
  <2>1. /\ wgpc[g] = "again" /\ UNCHANGED <<state, sema>>
        /\ At(g, IF state[x].v = 0 THEN "idle" ELSE "cas", x, state[x])
    BY <1>10 DEF WaitAgain, LoadState, MayLeave
  <2>2. Sound(x)'
    BY <1>2, <1>4, <1>5, <2>1 DEF Sound, n, p, Users, Ending, Waking, Zero
  <2> QED
    BY <1>2, <1>3, <1>6, OneSound, <2>1, <2>2
<1>11. CASE CountWaiter(g)
  <2>1. wgpc[g] = "cas" /\ UNCHANGED sema /\ loaded[g].v > 0
    BY <1>2, <1>11 DEF CountWaiter
  <2>2. CASE state[x] = loaded[g]
    <3> DEFINE st == [state[x] EXCEPT !.w = state[x].w + 1]
    <3>1. /\ At(g, "sem", x, loaded[g]) /\ state' = [state EXCEPT ![x] = st] /\ state'[x] = st
          /\ st.v = state[x].v /\ st.w = state[x].w + 1 /\ st \in [v : Nat, w : Nat]
      BY <1>2, <1>11, <2>2 DEF CountWaiter, WGTypeOK
    <3> HIDE DEF st
    <3>2. sema[x] = 0 /\ state[x].v > 0 /\ Ending(x) = {} /\ Waking(x) = {}
          /\ Users(x, {"awake"}) = {}
      BY <1>2, <1>5, <2>1, <2>2, ZeroIs DEF Sound
    <3>3. /\ Ending(x)' = {} /\ Waking(x)' = {} /\ Users(x, {"awake"})' = {}
          /\ \A h \in Users(x, {"cas"})' : h \in Users(x, {"cas"}) /\ loaded'[h] = loaded[h]
      BY <1>4, <2>1, <3>1, <3>2 DEF Ending, Waking, Users
    <3>4. Sound(x)'
      BY <1>2, <1>4, <1>5, <2>1, <3>1, <3>2, <3>3 DEF Sound, n, p
    <3> QED
      BY <1>2, <1>3, <1>6, OneSound, <2>1, <3>1, <3>4
  <2>3. CASE state[x] # loaded[g]
    <3>1. At(g, "again", x, loaded[g]) /\ UNCHANGED state
      BY <1>11, <2>3 DEF CountWaiter
    <3>2. Sound(x)'
      BY <1>2, <1>4, <1>5, <2>1, <3>1 DEF Sound, n, p, Users, Ending, Waking, Zero
    <3> QED
      BY <1>2, <1>3, <1>6, OneSound, <2>1, <3>1, <3>2
  <2> QED
    BY <2>2, <2>3
<1>12. CASE WaitAcquire(g)
  <2>1. /\ wgpc[g] = "sem" /\ UNCHANGED state /\ sema[x] > 0 /\ At(g, "awake", x, loaded[g])
        /\ sema' = [sema EXCEPT ![x] = sema[x] - 1] /\ sema'[x] = sema[x] - 1
        /\ sema[x] - 1 \in Nat
    BY <1>2, <1>12 DEF WaitAcquire, CanAcquire, Acquired, WGTypeOK
  <2>2. state[x].v = 0 /\ state[x].w = 0 /\ state[x] = Zero
    <3>1. state[x].v = 0 /\ state[x].w = 0
      BY <1>2, <1>5, <2>1 DEF Sound
    <3> QED
      BY <1>2, <3>1 DEF Zero
  <2>3. /\ Ending(x)' = Ending(x) /\ Waking(x)' = Waking(x)
        /\ Users(x, {"cas"})' = Users(x, {"cas"})
        /\ \A h \in Users(x, {"cas"}) \cup Waking(x) \cup Ending(x) : loaded'[h] = loaded[h]
    BY <1>4, <2>1 DEF Ending, Waking, Users
  <2>4. p = n - 1
    BY <1>4, <2>1
  <2>5. \A h \in Waking(x) : loaded[h].w \in Nat
    BY DEF Waking, Users, WGTypeOK
  <2>6. Ending(x) = {}
    BY <1>5, <2>2 DEF Sound
  <2>7. Sound(x)'
    BY <1>2, <1>5, <2>1, <2>2, <2>3, <2>4, <2>5, <2>6 DEF Sound, n, p
  <2> QED
    BY <1>2, <1>3, <1>6, OneSound, <2>1, <2>7
<1>13. CASE CheckReuse(g)
  <2>1. /\ wgpc[g] = "awake" /\ UNCHANGED <<state, sema>> /\ At(g, "idle", x, loaded[g])
    BY <1>2, <1>13 DEF CheckReuse
  <2>2. Sound(x)'
    BY <1>2, <1>4, <1>5, <2>1 DEF Sound, n, p, Users, Ending, Waking, Zero
  <2> QED
    BY <1>2, <1>3, <1>6, OneSound, <2>1, <2>2
<1> QED
  BY <1>7, <1>8, <1>9, <1>10, <1>11, <1>12, <1>13 DEF WGStep

\* A call of Add under the rules: none is added to a counter that is zero while
\* somebody waits or is being woken.
LEMMA AddKeeps ==
  ASSUME WGTypeOK, WGSound, NEW g \in Goroutine, NEW x \in WG, NEW delta \in {1, -1},
         Add(g, x, delta),
         \/ state[x].v > 0
         \/ /\ delta = 1 /\ state[x] = Zero
            /\ Users(x, {"sem", "awake", "check", "reset", "wake"}) = {}
  PROVE  /\ WGTypeOK' /\ WGSound'
         /\ state'[x].v = state[x].v + delta
         /\ \A y \in WG : y # x => state'[y] = state[y]
         /\ wgpc[g] = "idle"
         /\ \A h \in Goroutine : h # g => wgpc'[h] = wgpc[h] /\ wg'[h] = wg[h]
         /\ \/ wgpc'[g] = "idle" /\ wg'[g] = NoWG
            \/ delta = -1 /\ state[x].v = 1 /\ wgpc'[g] = "check" /\ wg'[g] = x
<1> DEFINE n == Cardinality(Sleeping(x))
           p == Cardinality(Sleeping(x)')
           st == [state[x] EXCEPT !.v = state[x].v + delta]
<1>1. /\ wgpc[g] = "idle" /\ wg[g] = NoWG /\ wg[g] \in {x, NoWG} /\ x # NoWG
      /\ state[x] \in [v : Nat, w : Nat] /\ sema[x] \in Nat /\ Sound(x)
      /\ state' = [state EXCEPT ![x] = st] /\ UNCHANGED sema
      /\ At(g, IF Misused(st, delta) THEN "panic"
               ELSE IF st.v > 0 \/ st.w = 0 THEN "idle" ELSE "check", x, st)
  BY WaitGroupAssumption DEF Add, WGTypeOK, WGSound
<1>2. /\ state[x].v + delta \in Nat /\ st \in [v : Nat, w : Nat] /\ st.v = state[x].v + delta
      /\ st.w = state[x].w /\ state'[x] = st
      /\ \A y \in WG : y # x => state'[y] = state[y]
      /\ sema' = [sema EXCEPT ![x] = sema[x]]
  BY <1>1, ZeroIs DEF WGTypeOK
<1> HIDE DEF st
<1>3. ~Misused(st, delta)
  <2>1. delta = 1 /\ st.v = 1 => st.w = 0
    BY <1>1, <1>2, ZeroIs
  <2> QED
    BY <1>2, <2>1 DEF Misused
<1>4. PICK l \in {"idle", "check"} :
        /\ At(g, l, x, st)
        /\ l = "idle" => st.v > 0 \/ st.w = 0
        /\ l = "check" => st.v = 0 /\ st.w > 0
  BY <1>1, <1>2, <1>3
<1>5. /\ n \in Nat /\ p = n
      /\ \A h \in Goroutine : h # g =>
           wgpc'[h] = wgpc[h] /\ wg'[h] = wg[h] /\ loaded'[h] = loaded[h]
      /\ wgpc'[g] = l /\ wg'[g] = (IF l = "idle" THEN NoWG ELSE x)
      /\ loaded'[g] = (IF l = "idle" THEN Zero ELSE st)
  BY <1>1, <1>4, AtIs, SleepersAre
<1> HIDE DEF n, p
<1>6. Waking(x) = {} /\ Ending(x) = {} /\ Users(x, {"awake"}) = {}
  BY <1>1, ZeroIs DEF Sound, Users, Waking, Ending
<1>7. /\ Waking(x)' = {} /\ Users(x, {"awake"})' = {}
      /\ Ending(x)' = (IF l = "idle" THEN {} ELSE {g})
      /\ Users(x, {"cas"})' = Users(x, {"cas"})
      /\ \A h \in Users(x, {"cas"}) : loaded'[h] = loaded[h]
  BY <1>1, <1>5, <1>6 DEF Waking, Ending, Users
<1>8. sema[x] = 0
  <2>1. CASE state[x].v > 0
    BY <1>1, <2>1 DEF Sound
  <2>2. CASE state[x] = Zero /\ Users(x, {"sem", "awake", "check", "reset", "wake"}) = {}
    <3>1. Sleeping(x) = {}
      BY <2>2 DEF Sleeping, Users
    <3>2. n = 0
      BY <3>1, FS_EmptySet DEF n
    <3> QED
      BY <1>1, <1>6, <2>2, <3>2, ZeroIs DEF Sound, n
  <2> QED
    BY <2>1, <2>2
<1>9. Sound(x)'
  <2>1. n = state[x].w
    BY <1>1, <1>6, <1>8 DEF Sound, n
  <2> QED
    BY <1>1, <1>2, <1>4, <1>5, <1>7, <1>8, <2>1 DEF Sound, n, p
<1>10. WGTypeOK' /\ WGSound'
  <2>1. l \in {"idle", "check", "reset", "wake", "again", "cas", "sem", "awake", "panic"}
    BY <1>4
  <2> QED
    BY <1>1, <1>2, <1>4, <1>9, <2>1, OneSound
<1>11. l = "check" => delta = -1 /\ state[x].v = 1
  BY <1>1, <1>2, <1>4, ZeroIs
<1>12. \A h \in Goroutine : h # g => wgpc'[h] = wgpc[h] /\ wg'[h] = wg[h]
  BY <1>5
<1>13. \/ wgpc'[g] = "idle" /\ wg'[g] = NoWG
       \/ delta = -1 /\ state[x].v = 1 /\ wgpc'[g] = "check" /\ wg'[g] = x
  BY <1>4, <1>5, <1>11
<1> QED
  BY <1>1, <1>2, <1>10, <1>12, <1>13

\* The load with which Wait begins.
LEMMA LoadKeeps ==
  ASSUME WGTypeOK, WGSound, NEW g \in Goroutine, NEW x \in WG, LoadState(g, x), wgpc[g] = "idle"
  PROVE  /\ WGTypeOK' /\ WGSound' /\ UNCHANGED state
         /\ \A h \in Goroutine : h # g => wgpc'[h] = wgpc[h] /\ wg'[h] = wg[h]
         /\ \/ wgpc'[g] = "idle" /\ wg'[g] = NoWG /\ state[x].v = 0
            \/ wgpc'[g] = "cas" /\ wg'[g] = x
<1>1. /\ wg[g] = NoWG /\ wg[g] \in {x, NoWG} /\ x # NoWG /\ Sound(x)
      /\ state[x] \in [v : Nat, w : Nat] /\ sema[x] \in Nat
      /\ UNCHANGED <<state, sema>>
      /\ state' = [state EXCEPT ![x] = state[x]] /\ sema' = [sema EXCEPT ![x] = sema[x]]
  BY WaitGroupAssumption DEF LoadState, WGTypeOK, WGSound
<1>2. PICK l \in {"idle", "cas"} :
        /\ At(g, l, x, state[x]) /\ (l = "idle" => state[x].v = 0) /\ (l = "cas" =>
             state[x].v > 0)
  BY <1>1 DEF LoadState, MayLeave
<1>3. /\ \A h \in Goroutine : h # g =>
           wgpc'[h] = wgpc[h] /\ wg'[h] = wg[h] /\ loaded'[h] = loaded[h]
      /\ wgpc'[g] = l /\ wg'[g] = (IF l = "idle" THEN NoWG ELSE x)
      /\ loaded'[g] = (IF l = "idle" THEN Zero ELSE state[x])
      /\ Cardinality(Sleeping(x)') = Cardinality(Sleeping(x))
  BY <1>1, <1>2, AtIs, SleepersAre
<1>4. /\ Waking(x)' = Waking(x) /\ Ending(x)' = Ending(x)
      /\ Users(x, {"awake"})' = Users(x, {"awake"})
      /\ \A h \in Waking(x) \cup Ending(x) : loaded'[h] = loaded[h]
      /\ \A h \in Users(x, {"cas"})' : loaded'[h].v > 0
  BY <1>1, <1>2, <1>3 DEF Waking, Ending, Users, Sound
<1>5. Sound(x)'
  BY <1>1, <1>3, <1>4 DEF Sound
<1>6. WGTypeOK' /\ WGSound'
  <2>1. l \in {"idle", "check", "reset", "wake", "again", "cas", "sem", "awake", "panic"}
    BY <1>2
  <2> QED
    BY <1>1, <1>2, <1>5, <2>1, OneSound
<1> QED
  BY <1>1, <1>2, <1>3, <1>6

\* What a step of a call does to its goroutine, as its client sees it.
LEMMA WGStepIs ==
  ASSUME WGTypeOK, WGSound, NEW g \in Goroutine, WGStep(g)
  PROVE  /\ wg[g] \in WG
         /\ \A y \in WG : state'[y].v = state[y].v /\ (y # wg[g] => state'[y] = state[y])
         /\ \A h \in Goroutine : h # g => wgpc'[h] = wgpc[h] /\ wg'[h] = wg[h]
         /\ \/ wgpc'[g] = "idle" /\ wg'[g] = NoWG /\ state[wg[g]].v = 0
            \/ wgpc[g] \in WaitPc /\ wgpc'[g] \in WaitPc /\ wg'[g] = wg[g]
            \/ wgpc[g] \in AddPc /\ wgpc'[g] \in AddPc /\ wg'[g] = wg[g]
<1>1. wgpc[g] # "idle" /\ \E y \in WG : y = wg[g]
  BY DEF WGTypeOK, WGSound, WGStep, CheckState, ResetState, Wake, WaitAgain, CountWaiter,
     WaitAcquire, CheckReuse
<1> PICK x \in WG : x = wg[g]
  BY <1>1
<1>2. /\ state[x].v \in Nat /\ state[x].w \in Nat /\ state[x] \in [v : Nat, w : Nat]
      /\ wgpc[g] \in {"check", "reset"} => state[x] = loaded[g] /\ state[x].v = 0
      /\ wgpc[g] = "wake" => state[x] = Zero
      /\ wgpc[g] = "awake" => state[x] = Zero
  BY SoundUser
<1>3. ASSUME NEW l, NEW s, At(g, l, x, s)
      PROVE  /\ \A h \in Goroutine : h # g => wgpc'[h] = wgpc[h] /\ wg'[h] = wg[h]
             /\ wgpc'[g] = l /\ wg'[g] = (IF l = "idle" THEN NoWG ELSE x)
  BY <1>3, AtIs
<1>4. CASE CheckState(g)
  <2>1. wgpc[g] = "check" /\ At(g, "reset", x, loaded[g]) /\ UNCHANGED state
    BY <1>2, <1>4, WakeupIs DEF CheckState
  <2> QED
    BY <1>2, <1>3, <2>1 DEF AddPc
<1>5. CASE ResetState(g)
  <2>1. /\ wgpc[g] = "reset" /\ At(g, "wake", x, loaded[g])
        /\ state'[x] = Zero /\ \A y \in WG : y # x => state'[y] = state[y]
    BY <1>5, WakeupIs DEF ResetState, WGTypeOK
  <2> QED
    BY <1>2, <1>3, <2>1, ZeroIs DEF AddPc
<1>6. CASE Wake(g)
  <2>1. /\ wgpc[g] = "wake" /\ UNCHANGED state
        /\ At(g, IF loaded[g].w = 1 THEN "idle" ELSE "wake", x,
              [loaded[g] EXCEPT !.w = loaded[g].w - 1])
    BY <1>6, WakeupIs DEF Wake
  <2> QED
    BY <1>2, <1>3, <2>1, ZeroIs DEF AddPc
<1>7. CASE WaitAgain(g)
  <2>1. /\ wgpc[g] = "again" /\ UNCHANGED state
        /\ At(g, IF state[x].v = 0 THEN "idle" ELSE "cas", x, state[x])
    BY <1>7 DEF WaitAgain, LoadState, MayLeave
  <2> QED
    BY <1>2, <1>3, <2>1 DEF WaitPc
<1>8. CASE CountWaiter(g)
  <2>1. At(g, "sem", x, loaded[g]) \/ At(g, "again", x, loaded[g])
    BY <1>8 DEF CountWaiter
  <2>2. \A y \in WG : state'[y].v = state[y].v /\ (y # x => state'[y] = state[y])
    BY <1>2, <1>8 DEF CountWaiter, WGTypeOK
  <2>3. wgpc[g] = "cas"
    BY <1>8 DEF CountWaiter
  <2> QED
    BY <1>3, <2>1, <2>2, <2>3 DEF WaitPc
<1>9. CASE WaitAcquire(g)
  <2>1. wgpc[g] = "sem" /\ UNCHANGED state /\ At(g, "awake", x, loaded[g])
    BY <1>9 DEF WaitAcquire
  <2> QED
    BY <1>3, <2>1 DEF WaitPc
<1>10. CASE CheckReuse(g)
  <2>1. wgpc[g] = "awake" /\ UNCHANGED state /\ At(g, "idle", x, loaded[g])
    BY <1>2, <1>10 DEF CheckReuse
  <2> QED
    BY <1>2, <1>3, <2>1, ZeroIs
<1> QED
  BY <1>4, <1>5, <1>6, <1>7, <1>8, <1>9, <1>10 DEF WGStep

-----------------------------------------------------------------------------
(***************************************************************************)
(* The clients follow the rules of the WaitGroup.                          *)
(***************************************************************************)
LEMMA Basics ==
  ASSUME IInv
  PROVE  /\ WGTypeOK /\ WGSound /\ Callers /\ Counts /\ OnceRight /\ Flights
         /\ Goroutine = Task \cup Waiter /\ Task \cap Waiter = {} /\ Owner \in Waiter
         /\ Group \in WG /\ Group \notin Cell /\ Cell \subseteq WG /\ None \notin Cell \cup Result
         /\ NoWG \notin WG /\ NoErr \notin Err /\ NoErr \in Result /\ Rounds \in Nat \ {0}
         /\ \A g \in Goroutine : sfpc[g] # "idle" => key[g] \in Key /\ Mine(g) \in Cell
         /\ \A k \in Key : m[k] \in Cell \cup {None}
         /\ \A x \in WG : state[x] \in [v : Nat, w : Nat]
         /\ \A w \in Waiter : w \in Goroutine /\ w \notin Task
         /\ \A t \in Task : t \in Goroutine
<1> QED
  BY WaitGroupAssumption, ErrGroupAssumption, SingleFlightAssumption, GroupsAssumption
  DEF IInv, Flights, SFTypeOK, WGTypeOK

\* The tasks that run are counted.
LEMMA RunningIs ==
  ASSUME IInv
  PROVE  /\ IsFiniteSet(Running) /\ IsFiniteSet(Task) /\ Cardinality(Running) \in Nat
         /\ state[Group].v = Cardinality(Running)
         /\ \A t \in Task : tpc[t] \notin {"new", "end"} => state[Group].v > 0
         /\ state[Group].v = 0 => \A t \in Task : tpc[t] \in {"new", "end"}
<1>1. IsFiniteSet(Task)
  BY WaitGroupAssumption, ErrGroupAssumption, FS_Subset
<1>2. IsFiniteSet(Running) /\ Cardinality(Running) \in Nat
  BY <1>1, FS_Subset, FS_CardinalityType DEF Running
<1>3. Cardinality(Running) = 0 <=> Running = {}
  BY <1>2, FS_EmptySet
<1>4. state[Group].v = Cardinality(Running)
  BY DEF IInv, Counts
<1> QED
  BY <1>1, <1>2, <1>3, <1>4 DEF Running

\* A round begins when nobody is left in the last one.
LEMMA GoRule ==
  ASSUME IInv, NEW g \in Goroutine, NEW t \in Task, Go(g, t)
  PROVE  \/ state[Group].v > 0
         \/ /\ state[Group] = Zero
            /\ Users(Group, {"sem", "awake", "check", "reset", "wake"}) = {}
<1>1. CASE g \in Task /\ tpc[g] = "run"
  BY <1>1, RunningIs
<1>2. CASE g = Owner /\ wpc[g] = "start" /\ state[Group].v = 0
  <2>1. \A w \in Waiter : wgpc[w] = "idle"
    BY <1>2, Basics DEF Counts, Callers
  <2>2. \A h \in Goroutine : wg[h] = Group => h \in Task /\ wgpc[h] \in AddPc
    BY <2>1, Basics DEF WGSound, Callers, AddPc
  <2>3. Sleeping(Group) = {} /\ Users(Group, {"awake"}) = {}
    BY <2>2 DEF Sleeping, Users, AddPc
  <2>4. Cardinality(Sleeping(Group)) = 0
    BY <2>3, FS_EmptySet
  <2>5. /\ Sound(Group) /\ state[Group] \in [v : Nat, w : Nat] /\ sema[Group] \in Nat
        /\ \A h \in Goroutine : loaded[h] \in [v : Nat, w : Nat]
    BY Basics DEF WGSound, WGTypeOK
  <2>6. Waking(Group) = {}
    <3> SUFFICES ASSUME NEW h \in Waking(Group) PROVE FALSE
      OBVIOUS
    <3>1. h \in Goroutine
      BY DEF Waking, Users
    <3> QED
      BY <2>4, <2>5, <3>1 DEF Sound
  <2>7. state[Group].w = 0
    BY <2>4, <2>5, <2>6 DEF Sound
  <2>8. Ending(Group) = {}
    BY <2>5, <2>7 DEF Sound
  <2>9. state[Group] = Zero
    BY <1>2, <2>5, <2>7 DEF Zero
  <2> QED
    BY <2>2, <2>3, <2>6, <2>8, <2>9 DEF Users, Waking, Ending, AddPc
<1> QED
  BY <1>1, <1>2, Basics DEF Go

\* What Go does to the WaitGroups (errgroup.go:53).
LEMMA GoIs ==
  ASSUME IInv, NEW g \in Goroutine, NEW t \in Task, Go(g, t)
  PROVE  /\ WGTypeOK' /\ WGSound' /\ state'[Group].v = state[Group].v + 1
         /\ \A y \in WG : y # Group => state'[y] = state[y]
         /\ \A h \in Goroutine : wgpc'[h] = wgpc[h] /\ wg'[h] = wg[h]
<1>1. Add(g, Group, 1) /\ Group \in WG /\ WGTypeOK /\ WGSound
  BY Basics DEF Go
<1>2. 1 \in {1, -1} /\ 1 # -1
  OBVIOUS
<1> QED
  BY <1>1, <1>2, GoRule, AddKeeps DEF WGSound

\* What the end of a task does to them (errgroup.go:56).
LEMMA TaskDoneIs ==
  ASSUME IInv, NEW t \in Task, TaskDone(t)
  PROVE  /\ WGTypeOK' /\ WGSound' /\ state'[Group].v = state[Group].v - 1
         /\ \A y \in WG : y # Group => state'[y] = state[y]
         /\ wgpc[t] = "idle"
         /\ \A h \in Goroutine : h # t => wgpc'[h] = wgpc[h] /\ wg'[h] = wg[h]
         /\ \/ wgpc'[t] = "idle" /\ wg'[t] = NoWG
            \/ wgpc'[t] = "check" /\ wg'[t] = Group
<1>1. /\ Add(t, Group, -1) /\ Group \in WG /\ WGTypeOK /\ WGSound /\ state[Group].v > 0
      /\ t \in Goroutine /\ state[Group].v + (-1) = state[Group].v - 1
  BY Basics, RunningIs DEF TaskDone
<1>2. -1 \in {1, -1}
  OBVIOUS
<1> QED
  BY <1>1, <1>2, AddKeeps

\* The call object of a new key is one that nobody uses (singleflight.go:61-63).
LEMMA LeadIs ==
  ASSUME IInv, NEW t \in Task, NEW k \in Key, Lead(t, k)
  PROVE  \E c \in Cell :
         /\ m' = [m EXCEPT ![k] = c] /\ (\A l \in Key : m[l] # c) /\ state[c].v = 0
         /\ WGTypeOK' /\ WGSound' /\ state'[c].v = 1
         /\ \A y \in WG : y # c => state'[y] = state[y]
         /\ \A h \in Goroutine : wgpc'[h] = wgpc[h] /\ wg'[h] = wg[h]
<1>1. PICK c \in Cell \ Range(m) : m' = [m EXCEPT ![k] = c] /\ Add(t, c, 1)
  BY DEF Lead
<1>2. \A l \in Key : m[l] # c
  BY <1>1 DEF Range, IInv, SFTypeOK
<1>3. state[c] = Zero /\ c \in WG /\ t \in Goroutine /\ c # Group
  BY <1>1, <1>2, Basics DEF Flights
<1>4. \A h \in Goroutine : wg[h] # c
  BY <1>2, <1>3, Basics DEF Callers, WGSound, Mine
<1>5. Users(c, {"sem", "awake", "check", "reset", "wake"}) = {}
  BY <1>4 DEF Users
<1>6. 1 \in {1, -1} /\ 1 # -1 /\ state[c].v + 1 = 1
  BY <1>3, ZeroIs
<1>7. /\ WGTypeOK' /\ WGSound' /\ state'[c].v = state[c].v + 1
      /\ \A y \in WG : y # c => state'[y] = state[y]
      /\ \A h \in Goroutine : wgpc'[h] = wgpc[h] /\ wg'[h] = wg[h]
  BY <1>1, <1>3, <1>5, <1>6, Basics, AddKeeps DEF WGSound
<1> QED
  BY <1>1, <1>2, <1>3, <1>6, <1>7, ZeroIs

\* The leader lets its callers go (singleflight.go:69).
LEMMA CallDoneIs ==
  ASSUME IInv, NEW t \in Task, CallDone(t)
  PROVE  /\ WGTypeOK' /\ WGSound' /\ state[Mine(t)].v = 1 /\ state'[Mine(t)].v = 0
         /\ \A y \in WG : y # Mine(t) => state'[y] = state[y]
         /\ wgpc[t] = "idle"
         /\ \A h \in Goroutine : h # t => wgpc'[h] = wgpc[h] /\ wg'[h] = wg[h]
         /\ \/ wgpc'[t] = "idle" /\ wg'[t] = NoWG
            \/ wgpc'[t] = "check" /\ wg'[t] = Mine(t)
<1>1. /\ Add(t, Mine(t), -1) /\ WGTypeOK /\ WGSound /\ t \in Goroutine /\ key[t] \in Key
      /\ Mine(t) \in Cell /\ Mine(t) \in WG
  BY Basics DEF CallDone
<1>2. t \in Leading(key[t])
  BY <1>1 DEF Leading, CallDone
<1>3. state[Mine(t)].v = 1
  BY <1>1, <1>2, Basics DEF Flights, Mine
<1>4. -1 \in {1, -1} /\ state[Mine(t)].v + (-1) = 0 /\ state[Mine(t)].v > 0
  BY <1>3
<1> QED
  BY <1>1, <1>3, <1>4, AddKeeps

\* What Wait of the group does first (errgroup.go:41).
LEMMA BeginWaitIs ==
  ASSUME IInv, NEW w \in Waiter, BeginWait(w)
  PROVE  /\ WGTypeOK' /\ WGSound' /\ UNCHANGED state
         /\ \A h \in Goroutine : h # w => wgpc'[h] = wgpc[h] /\ wg'[h] = wg[h]
         /\ \/ wgpc'[w] = "idle" /\ wg'[w] = NoWG /\ state[Group].v = 0
            \/ wgpc'[w] = "cas" /\ wg'[w] = Group
<1>1. /\ wgpc[w] = "idle" /\ LoadState(w, Group) /\ Group \in WG /\ WGTypeOK /\ WGSound
      /\ w \in Goroutine
  BY Basics DEF BeginWait, WaitCall
<1> QED
  BY <1>1, LoadKeeps

\* What the Wait of a caller does first (singleflight.go:58).
LEMMA JoinWaitIs ==
  ASSUME IInv, NEW t \in Task, JoinWait(t)
  PROVE  /\ WGTypeOK' /\ WGSound' /\ UNCHANGED state /\ wgpc[t] = "idle"
         /\ \A h \in Goroutine : h # t => wgpc'[h] = wgpc[h] /\ wg'[h] = wg[h]
         /\ \/ wgpc'[t] = "idle" /\ wg'[t] = NoWG /\ state[Mine(t)].v = 0
            \/ wgpc'[t] = "cas" /\ wg'[t] = Mine(t)
<1>1. /\ wgpc[t] = "idle" /\ LoadState(t, Mine(t)) /\ Mine(t) \in WG /\ WGTypeOK /\ WGSound
      /\ t \in Goroutine
  BY Basics DEF JoinWait, WaitCall
<1> QED
  BY <1>1, LoadKeeps

\* What a leader does, in the order of Leader.
LEMMA LeaderIs == Leader(1) = "fn" /\ AfterLeader("fn") = "done" /\ AfterLeader("done") = "led"
<1>1. \A k \in 1 .. 2 : (Leader(k) = "fn" <=> k = 1) /\ (Leader(k) = "done" <=> k = 2)
  BY DEF Leader
<1>2. (CHOOSE k \in 1 .. 2 : Leader(k) = "fn") = 1
  BY <1>1
<1>3. (CHOOSE k \in 1 .. 2 : Leader(k) = "done") = 2
  BY <1>1
<1>4. AfterLeader("fn") = Leader(2)
  <2>1. AfterLeader("fn") = Leader(1 + 1)
    BY <1>2, Zenon DEF AfterLeader
  <2> QED
    BY <2>1
<1>5. AfterLeader("done") = Leader(3)
  <2>1. AfterLeader("done") = Leader(1 + 2)
    BY <1>3, Zenon DEF AfterLeader
  <2> QED
    BY <2>1
<1> QED
  BY <1>4, <1>5 DEF Leader

-----------------------------------------------------------------------------
(***************************************************************************)
(* The invariant over every step.                                          *)
(***************************************************************************)
\* Nothing happens to the WaitGroups.
LEMMA Still ==
  ASSUME WGTypeOK, WGSound, NoMisuse, UNCHANGED wgvars
  PROVE  WGTypeOK' /\ WGSound' /\ NoMisuse'
<1> USE DEF wgvars
<1>1. WGTypeOK' /\ NoMisuse'
  BY DEF WGTypeOK, NoMisuse
<1>2. ASSUME NEW x, NEW P PROVE Users(x, P)' = Users(x, P)
  BY DEF Users
<1>3. ASSUME NEW x \in WG PROVE Sound(x)'
  <2>1. /\ Ending(x)' = Ending(x) /\ Waking(x)' = Waking(x) /\ Sleeping(x)' = Sleeping(x)
    BY <1>2 DEF Ending, Waking, Sleeping
  <2>2. Sound(x)
    BY DEF WGSound
  <2> QED
    BY <1>2, <2>1, <2>2 DEF Sound
<1> QED
  BY <1>1, <1>3 DEF WGSound

\* The WaitGroups are sound, and nobody panics.
LEMMA WGStepHolds == IInv /\ [Next]_vars => WGTypeOK' /\ WGSound' /\ NoMisuse'
<1> SUFFICES ASSUME IInv, [Next]_vars PROVE WGTypeOK' /\ WGSound' /\ NoMisuse'
  OBVIOUS
<1>1. /\ WGTypeOK /\ WGSound /\ NoMisuse /\ [Next]_vars
      /\ \A t \in Task : t \in Goroutine
      /\ \A w \in Waiter : w \in Goroutine
  BY Basics DEF IInv
<1>2. ASSUME NEW g \in Goroutine, NEW t \in Task, Go(g, t), g \in Task => sfpc[g] = "idle",
             UNCHANGED sfvars
      PROVE  WGTypeOK' /\ WGSound' /\ NoMisuse'
  BY <1>2, <1>1, GoIs DEF NoMisuse
<1>3. ASSUME NEW t \in Task, NEW k \in Key, Join(t, k), tpc[t] = "run", wgpc[t] = "idle",
             UNCHANGED egvars
      PROVE  WGTypeOK' /\ WGSound' /\ NoMisuse'
  BY <1>3, <1>1, Still DEF Join
<1>4. ASSUME NEW t \in Task, NEW k \in Key, Lead(t, k), tpc[t] = "run", wgpc[t] = "idle",
             UNCHANGED egvars
      PROVE  WGTypeOK' /\ WGSound' /\ NoMisuse'
  BY <1>4, <1>1, LeadIs DEF NoMisuse
<1>5. ASSUME NEW t \in Task, JoinWait(t), UNCHANGED egvars
      PROVE  WGTypeOK' /\ WGSound' /\ NoMisuse'
  BY <1>5, <1>1, JoinWaitIs DEF NoMisuse
<1>6. ASSUME NEW t \in Task, Joined(t), UNCHANGED egvars
      PROVE  WGTypeOK' /\ WGSound' /\ NoMisuse'
  BY <1>6, <1>1, Still DEF Joined, DoReturns
<1>7. ASSUME NEW t \in Task, Execute(t), UNCHANGED egvars
      PROVE  WGTypeOK' /\ WGSound' /\ NoMisuse'
  BY <1>7, <1>1, Still DEF Execute
<1>8. ASSUME NEW t \in Task, CallDone(t), UNCHANGED egvars
      PROVE  WGTypeOK' /\ WGSound' /\ NoMisuse'
  BY <1>8, <1>1, CallDoneIs DEF NoMisuse
<1>9. ASSUME NEW t \in Task, Led(t), UNCHANGED egvars PROVE WGTypeOK' /\ WGSound' /\ NoMisuse'
  BY <1>9, <1>1, Still DEF Led, DoReturns
<1>10. ASSUME NEW t \in Task, Return(t) PROVE WGTypeOK' /\ WGSound' /\ NoMisuse'
  BY <1>10, <1>1, Still DEF Return
<1>11. ASSUME NEW t \in Task, LoadDone(t), UNCHANGED sfvars
       PROVE  WGTypeOK' /\ WGSound' /\ NoMisuse'
  BY <1>11, <1>1, Still DEF LoadDone
<1>12. ASSUME NEW t \in Task, DoSlow(t), UNCHANGED sfvars
       PROVE  WGTypeOK' /\ WGSound' /\ NoMisuse'
  BY <1>12, <1>1, Still DEF DoSlow
<1>13. ASSUME NEW t \in Task, SetErr(t), UNCHANGED sfvars
       PROVE  WGTypeOK' /\ WGSound' /\ NoMisuse'
  BY <1>13, <1>1, Still DEF SetErr
<1>14. ASSUME NEW t \in Task, Cancel(t), UNCHANGED sfvars
       PROVE  WGTypeOK' /\ WGSound' /\ NoMisuse'
  BY <1>14, <1>1, Still DEF Cancel
<1>15. ASSUME NEW t \in Task, StoreDone(t), UNCHANGED sfvars
       PROVE  WGTypeOK' /\ WGSound' /\ NoMisuse'
  BY <1>15, <1>1, Still DEF StoreDone
<1>16. ASSUME NEW t \in Task, UnlockOnce(t), UNCHANGED sfvars
       PROVE  WGTypeOK' /\ WGSound' /\ NoMisuse'
  BY <1>16, <1>1, Still DEF UnlockOnce
<1>17. ASSUME NEW t \in Task, TaskDone(t), UNCHANGED sfvars
       PROVE  WGTypeOK' /\ WGSound' /\ NoMisuse'
  BY <1>17, <1>1, TaskDoneIs DEF NoMisuse
<1>18. ASSUME NEW w \in Waiter, BeginWait(w), UNCHANGED sfvars
       PROVE  WGTypeOK' /\ WGSound' /\ NoMisuse'
  BY <1>18, <1>1, BeginWaitIs DEF NoMisuse
<1>19. ASSUME NEW w \in Waiter, CancelAfterWait(w), UNCHANGED sfvars
       PROVE  WGTypeOK' /\ WGSound' /\ NoMisuse'
  BY <1>19, <1>1, Still DEF CancelAfterWait
<1>20. ASSUME NEW w \in Waiter, WaitReturns(w), UNCHANGED sfvars
       PROVE  WGTypeOK' /\ WGSound' /\ NoMisuse'
  BY <1>20, <1>1, Still DEF WaitReturns
<1>21. ASSUME NEW g \in Goroutine, WGStep(g), UNCHANGED <<egvars, sfvars>>
       PROVE  WGTypeOK' /\ WGSound' /\ NoMisuse'
  BY <1>21, <1>1, WGStepKeeps, WGStepIs DEF NoMisuse, WaitPc, AddPc
<1>22. ASSUME Restart PROVE WGTypeOK' /\ WGSound' /\ NoMisuse'
  BY <1>22, <1>1, Still DEF Restart, NextRound
<1>23. CASE UNCHANGED vars
  BY <1>23, <1>1, Still DEF vars
<1> QED
  BY <1>1, <1>2, <1>3, <1>4, <1>5, <1>6, <1>7, <1>8, <1>9, <1>10, <1>11, <1>12, <1>13,
     <1>14, <1>15, <1>16, <1>17, <1>18, <1>19, <1>20, <1>21, <1>22, <1>23 DEF Next, Call,
     Do, SFStep, TaskStep, WaiterStep, Finished

\* The other variables keep their types.
LEMMA TypeStep == IInv /\ [Next]_vars => EGTypeOK' /\ SFTypeOK'
<1> SUFFICES ASSUME IInv, [Next]_vars PROVE EGTypeOK' /\ SFTypeOK'
  OBVIOUS
<1> USE DEF egvars, sfvars, once, tasks, waiters
<1>1. EGTypeOK /\ SFTypeOK /\ [Next]_vars /\ NoErr \in Err \cup {NoErr}
      /\ (\A g \in Goroutine : sfpc[g] # "idle" => key[g] \in Key /\ Mine(g) \in Cell)
      /\ (\A t \in Task : t \in Goroutine) /\ Cell \subseteq WG
      /\ Leader(1) = "fn" /\ AfterLeader("fn") = "done" /\ AfterLeader("done") = "led"
      /\ Rounds \in Nat \ {0}
  BY Basics, LeaderIs DEF IInv
<1>2. ASSUME NEW g \in Goroutine, NEW t \in Task, Go(g, t), g \in Task => sfpc[g] = "idle",
             UNCHANGED sfvars
      PROVE  EGTypeOK' /\ SFTypeOK'
  BY <1>2, <1>1 DEF EGTypeOK, SFTypeOK, Go, TaskGoto
<1>3. ASSUME NEW t \in Task, NEW k \in Key, Join(t, k), tpc[t] = "run", wgpc[t] = "idle",
             UNCHANGED egvars
      PROVE  EGTypeOK' /\ SFTypeOK'
  <2>1. m[k] \in Cell
    BY <1>3, <1>1 DEF Join, SFTypeOK
  <2>2. dups' \in [Cell -> Nat]
    BY <1>3, <1>1, <2>1 DEF Join, SFTypeOK
  <2> QED
    BY <1>3, <1>1, <2>2 DEF Join, SFGoto, SFTypeOK, EGTypeOK
<1>4. ASSUME NEW t \in Task, NEW k \in Key, Lead(t, k), tpc[t] = "run", wgpc[t] = "idle",
             UNCHANGED egvars
      PROVE  EGTypeOK' /\ SFTypeOK'
  BY <1>4, <1>1 DEF EGTypeOK, SFTypeOK, Lead, SFGoto
<1>5. ASSUME NEW t \in Task, JoinWait(t), UNCHANGED egvars PROVE EGTypeOK' /\ SFTypeOK'
  BY <1>5, <1>1 DEF EGTypeOK, SFTypeOK, JoinWait, SFGoto
<1>6. ASSUME NEW t \in Task, Joined(t), UNCHANGED egvars PROVE EGTypeOK' /\ SFTypeOK'
  <2>1. val[Mine(t)] \in Result \cup {None} /\ (dups[Mine(t)] > 0) \in BOOLEAN
    BY <1>6, <1>1 DEF Joined, SFTypeOK
  <2> QED
    BY <1>6, <1>1, <2>1 DEF Joined, DoReturns, SFGoto, SFTypeOK, EGTypeOK
<1>7. ASSUME NEW t \in Task, Execute(t), UNCHANGED egvars PROVE EGTypeOK' /\ SFTypeOK'
  <2>1. val' \in [Cell -> Result \cup {None}]
    BY <1>7, <1>1 DEF Execute, SFTypeOK
  <2> QED
    BY <1>7, <1>1, <2>1 DEF Execute, SFGoto, SFTypeOK, EGTypeOK
<1>8. ASSUME NEW t \in Task, CallDone(t), UNCHANGED egvars PROVE EGTypeOK' /\ SFTypeOK'
  BY <1>8, <1>1 DEF EGTypeOK, SFTypeOK, CallDone, SFGoto
<1>9. ASSUME NEW t \in Task, Led(t), UNCHANGED egvars PROVE EGTypeOK' /\ SFTypeOK'
  <2>1. val[Mine(t)] \in Result \cup {None} /\ (dups[Mine(t)] > 0) \in BOOLEAN
    BY <1>9, <1>1 DEF Led, SFTypeOK
  <2> QED
    BY <1>9, <1>1, <2>1 DEF Led, DoReturns, SFGoto, SFTypeOK, EGTypeOK
<1>10. ASSUME NEW t \in Task, Return(t) PROVE EGTypeOK' /\ SFTypeOK'
  BY <1>10, <1>1 DEF EGTypeOK, SFTypeOK, Return, FReturns, TaskGoto
<1>11. ASSUME NEW t \in Task, LoadDone(t), UNCHANGED sfvars PROVE EGTypeOK' /\ SFTypeOK'
  BY <1>11, <1>1 DEF EGTypeOK, SFTypeOK, LoadDone, TaskGoto
<1>12. ASSUME NEW t \in Task, DoSlow(t), UNCHANGED sfvars PROVE EGTypeOK' /\ SFTypeOK'
  BY <1>12, <1>1 DEF EGTypeOK, SFTypeOK, DoSlow, TaskGoto, MustRun
<1>13. ASSUME NEW t \in Task, SetErr(t), UNCHANGED sfvars PROVE EGTypeOK' /\ SFTypeOK'
  BY <1>13, <1>1 DEF EGTypeOK, SFTypeOK, SetErr, TaskGoto
<1>14. ASSUME NEW t \in Task, Cancel(t), UNCHANGED sfvars PROVE EGTypeOK' /\ SFTypeOK'
  BY <1>14, <1>1 DEF EGTypeOK, SFTypeOK, Cancel, TaskGoto
<1>15. ASSUME NEW t \in Task, StoreDone(t), UNCHANGED sfvars PROVE EGTypeOK' /\ SFTypeOK'
  BY <1>15, <1>1 DEF EGTypeOK, SFTypeOK, StoreDone, TaskGoto
<1>16. ASSUME NEW t \in Task, UnlockOnce(t), UNCHANGED sfvars PROVE EGTypeOK' /\ SFTypeOK'
  BY <1>16, <1>1 DEF EGTypeOK, SFTypeOK, UnlockOnce, TaskGoto
<1>17. ASSUME NEW t \in Task, TaskDone(t), UNCHANGED sfvars PROVE EGTypeOK' /\ SFTypeOK'
  BY <1>17, <1>1 DEF EGTypeOK, SFTypeOK, TaskDone, TaskGoto
<1>18. ASSUME NEW w \in Waiter, BeginWait(w), UNCHANGED sfvars PROVE EGTypeOK' /\ SFTypeOK'
  BY <1>18, <1>1 DEF EGTypeOK, SFTypeOK, BeginWait, WaiterGoto
<1>19. ASSUME NEW w \in Waiter, CancelAfterWait(w), UNCHANGED sfvars
       PROVE  EGTypeOK' /\ SFTypeOK'
  BY <1>19, <1>1 DEF EGTypeOK, SFTypeOK, CancelAfterWait, WaiterGoto
<1>20. ASSUME NEW w \in Waiter, WaitReturns(w), UNCHANGED sfvars PROVE EGTypeOK' /\ SFTypeOK'
  BY <1>20, <1>1 DEF EGTypeOK, SFTypeOK, WaitReturns, WaiterGoto
<1>21. ASSUME NEW g \in Goroutine, WGStep(g), UNCHANGED <<egvars, sfvars>>
       PROVE  EGTypeOK' /\ SFTypeOK'
  BY <1>21, <1>1 DEF EGTypeOK, SFTypeOK, WGStep
<1>22. ASSUME Restart PROVE EGTypeOK' /\ SFTypeOK'
  <2>1. EGTypeOK'
    BY <1>22, <1>1 DEF EGTypeOK, Restart, NextRound
  <2>2. SFTypeOK'
    BY <1>22, <1>1 DEF SFTypeOK, Restart, Nothing
  <2> QED
    BY <2>1, <2>2
<1>23. CASE UNCHANGED vars
  BY <1>23, <1>1 DEF EGTypeOK, SFTypeOK, vars
<1> QED
  BY <1>1, <1>2, <1>3, <1>4, <1>5, <1>6, <1>7, <1>8, <1>9, <1>10, <1>11, <1>12, <1>13,
     <1>14, <1>15, <1>16, <1>17, <1>18, <1>19, <1>20, <1>21, <1>22, <1>23 DEF Next, Call,
     Do, SFStep, TaskStep, WaiterStep, Finished

\* The Once of the group.
LEMMA OnceStep == IInv /\ [Next]_vars => OnceRight'
<1> SUFFICES ASSUME IInv, [Next]_vars PROVE OnceRight'
  OBVIOUS
<1> USE DEF egvars, once, tasks, waiters
<1>1. /\ OnceRight /\ [Next]_vars /\ NoErr \notin Err
      /\ err \in Err \cup {NoErr} /\ done \in {0, 1} /\ onceMu \in BOOLEAN
      /\ terr \in [Task -> Err \cup {NoErr}]
      /\ tpc \in [Task -> {"new", "run", "once", "lock", "set", "cancel", "store", "unlock",
                           "leave", "end"}]
  BY Basics DEF IInv, EGTypeOK
<1>2. ASSUME NEW g \in Goroutine, NEW t \in Task, Go(g, t), g \in Task => sfpc[g] = "idle",
             UNCHANGED sfvars
      PROVE  OnceRight'
  BY <1>2, <1>1 DEF OnceRight, Go, TaskGoto
<1>3. ASSUME NEW t \in Task, NEW k \in Key, Join(t, k), tpc[t] = "run", wgpc[t] = "idle",
             UNCHANGED egvars
      PROVE  OnceRight'
  BY <1>3, <1>1 DEF OnceRight, Join, SFGoto
<1>4. ASSUME NEW t \in Task, NEW k \in Key, Lead(t, k), tpc[t] = "run", wgpc[t] = "idle",
             UNCHANGED egvars
      PROVE  OnceRight'
  BY <1>4, <1>1 DEF OnceRight, Lead, SFGoto
<1>5. ASSUME NEW t \in Task, JoinWait(t), UNCHANGED egvars PROVE OnceRight'
  BY <1>5, <1>1 DEF OnceRight, JoinWait, SFGoto
<1>6. ASSUME NEW t \in Task, Joined(t), UNCHANGED egvars PROVE OnceRight'
  BY <1>6, <1>1 DEF OnceRight, Joined, DoReturns, SFGoto
<1>7. ASSUME NEW t \in Task, Execute(t), UNCHANGED egvars PROVE OnceRight'
  BY <1>7, <1>1 DEF OnceRight, Execute, SFGoto
<1>8. ASSUME NEW t \in Task, CallDone(t), UNCHANGED egvars PROVE OnceRight'
  BY <1>8, <1>1 DEF OnceRight, CallDone, SFGoto
<1>9. ASSUME NEW t \in Task, Led(t), UNCHANGED egvars PROVE OnceRight'
  BY <1>9, <1>1 DEF OnceRight, Led, DoReturns, SFGoto
<1>10. ASSUME NEW t \in Task, Return(t) PROVE OnceRight'
  BY <1>10, <1>1 DEF OnceRight, Return, FReturns, TaskGoto
<1>11. ASSUME NEW t \in Task, LoadDone(t), UNCHANGED sfvars PROVE OnceRight'
  BY <1>11, <1>1 DEF OnceRight, LoadDone, TaskGoto
<1>12. ASSUME NEW t \in Task, DoSlow(t), UNCHANGED sfvars PROVE OnceRight'
  BY <1>12, <1>1 DEF OnceRight, DoSlow, TaskGoto, MustRun
<1>13. ASSUME NEW t \in Task, SetErr(t), UNCHANGED sfvars PROVE OnceRight'
  BY <1>13, <1>1 DEF OnceRight, SetErr, TaskGoto
<1>14. ASSUME NEW t \in Task, Cancel(t), UNCHANGED sfvars PROVE OnceRight'
  BY <1>14, <1>1 DEF OnceRight, Cancel, TaskGoto
<1>15. ASSUME NEW t \in Task, StoreDone(t), UNCHANGED sfvars PROVE OnceRight'
  BY <1>15, <1>1 DEF OnceRight, StoreDone, TaskGoto
<1>16. ASSUME NEW t \in Task, UnlockOnce(t), UNCHANGED sfvars PROVE OnceRight'
  BY <1>16, <1>1 DEF OnceRight, UnlockOnce, TaskGoto
<1>17. ASSUME NEW t \in Task, TaskDone(t), UNCHANGED sfvars PROVE OnceRight'
  BY <1>17, <1>1 DEF OnceRight, TaskDone, TaskGoto
<1>18. ASSUME NEW w \in Waiter, BeginWait(w), UNCHANGED sfvars PROVE OnceRight'
  BY <1>18, <1>1 DEF OnceRight, BeginWait, WaiterGoto
<1>19. ASSUME NEW w \in Waiter, CancelAfterWait(w), UNCHANGED sfvars PROVE OnceRight'
  BY <1>19, <1>1 DEF OnceRight, CancelAfterWait, WaiterGoto
<1>20. ASSUME NEW w \in Waiter, WaitReturns(w), UNCHANGED sfvars PROVE OnceRight'
  BY <1>20, <1>1 DEF OnceRight, WaitReturns, WaiterGoto
<1>21. ASSUME NEW g \in Goroutine, WGStep(g), UNCHANGED <<egvars, sfvars>> PROVE OnceRight'
  BY <1>21, <1>1 DEF OnceRight, WGStep
<1>22. ASSUME Restart PROVE OnceRight'
  BY <1>22, <1>1 DEF OnceRight, Restart, NextRound
<1>23. CASE UNCHANGED vars
  BY <1>23, <1>1 DEF OnceRight, vars
<1> QED
  BY <1>1, <1>2, <1>3, <1>4, <1>5, <1>6, <1>7, <1>8, <1>9, <1>10, <1>11, <1>12, <1>13,
     <1>14, <1>15, <1>16, <1>17, <1>18, <1>19, <1>20, <1>21, <1>22, <1>23 DEF Next, Call,
     Do, SFStep, TaskStep, WaiterStep, Finished

\* Who calls which WaitGroup.
LEMMA CallersStep == IInv /\ [Next]_vars => Callers'
<1> SUFFICES ASSUME IInv, [Next]_vars PROVE Callers'
  OBVIOUS
<1> USE DEF egvars, sfvars, once, tasks, waiters
<1>1. /\ Callers /\ [Next]_vars /\ WGSound /\ None \notin Cell /\ Group \notin Cell
      /\ Group \in WG
      /\ (\A w \in Waiter : w \in Goroutine /\ w \notin Task) /\ (\A t \in Task : t \in Goroutine)
      /\ (\A g \in Goroutine : sfpc[g] # "idle" => key[g] \in Key /\ m[key[g]] \in Cell)
      /\ (\A g \in Goroutine : wgpc[g] = "idle" <=> wg[g] = NoWG)
      /\ m \in [Key -> Cell \cup {None}] /\ key \in [Goroutine -> Key \cup {None}]
      /\ sfpc \in [Goroutine -> {"idle", "join", "joined", "fn", "done", "led", "returned"}]
      /\ tpc \in [Task -> {"new", "run", "once", "lock", "set", "cancel", "store", "unlock",
                           "leave", "end"}]
      /\ wpc \in [Waiter -> {"start", "wait", "err", "returned"}]
      /\ Leader(1) = "fn" /\ AfterLeader("fn") = "done" /\ AfterLeader("done") = "led"
  BY Basics, LeaderIs DEF IInv, EGTypeOK, SFTypeOK, WGSound, Mine
<1>2. ASSUME NEW g \in Goroutine, NEW t \in Task, Go(g, t), g \in Task => sfpc[g] = "idle",
             UNCHANGED sfvars
      PROVE  Callers'
  <2>1. \A h \in Goroutine : wgpc'[h] = wgpc[h] /\ wg'[h] = wg[h]
    BY <1>2, GoIs
  <2> QED
    BY <1>2, <1>1, <2>1 DEF Callers, Mine, Go, TaskGoto
<1>3. ASSUME NEW t \in Task, NEW k \in Key, Join(t, k), tpc[t] = "run", wgpc[t] = "idle",
             UNCHANGED egvars
      PROVE  Callers'
  BY <1>3, <1>1 DEF Callers, Mine, wgvars, Join, SFGoto
<1>4. ASSUME NEW t \in Task, NEW k \in Key, Lead(t, k), tpc[t] = "run", wgpc[t] = "idle",
             UNCHANGED egvars
      PROVE  Callers'
  <2>1. PICK c \in Cell : /\ m' = [m EXCEPT ![k] = c]
                          /\ \A h \in Goroutine : wgpc'[h] = wgpc[h] /\ wg'[h] = wg[h]
    BY <1>4, LeadIs
  <2>2. m[k] = None /\ sfpc' = [sfpc EXCEPT ![t] = "fn"] /\ key' = [key EXCEPT ![t] = k]
    BY <1>4, <1>1 DEF Lead, SFGoto
  <2>3. \A h \in Goroutine : h # t /\ sfpc[h] # "idle" => m'[key'[h]] = m[key[h]]
    BY <1>1, <2>1, <2>2
  <2> QED
    BY <1>4, <1>1, <2>1, <2>2, <2>3 DEF Callers, Mine
<1>5. ASSUME NEW t \in Task, JoinWait(t), UNCHANGED egvars PROVE Callers'
  <2>1. /\ \A h \in Goroutine : h # t => wgpc'[h] = wgpc[h] /\ wg'[h] = wg[h]
        /\ \/ wgpc'[t] = "idle" /\ wg'[t] = NoWG
           \/ wgpc'[t] = "cas" /\ wg'[t] = Mine(t)
    BY <1>5, JoinWaitIs
  <2> QED
    BY <1>5, <1>1, <2>1 DEF Callers, Mine, JoinWait, SFGoto
<1>6. ASSUME NEW t \in Task, Joined(t), UNCHANGED egvars PROVE Callers'
  BY <1>6, <1>1 DEF Callers, Mine, wgvars, Joined, DoReturns, SFGoto
<1>7. ASSUME NEW t \in Task, Execute(t), UNCHANGED egvars PROVE Callers'
  <2>1. /\ UNCHANGED <<m, key, tpc, wpc, wgpc, wg>> /\ sfpc[t] = "fn" /\ wgpc[t] = "idle"
        /\ sfpc' = [sfpc EXCEPT ![t] = "done"]
    BY <1>7, <1>1 DEF Execute, SFGoto, wgvars
  <2> QED
    BY <1>1, <2>1 DEF Callers, Mine
<1>8. ASSUME NEW t \in Task, CallDone(t), UNCHANGED egvars PROVE Callers'
  <2>1. /\ \A h \in Goroutine : h # t => wgpc'[h] = wgpc[h] /\ wg'[h] = wg[h]
        /\ \/ wgpc'[t] = "idle" /\ wg'[t] = NoWG
           \/ wgpc'[t] = "check" /\ wg'[t] = Mine(t)
    BY <1>8, CallDoneIs
  <2> QED
    BY <1>8, <1>1, <2>1 DEF Callers, Mine, CallDone, SFGoto
<1>9. ASSUME NEW t \in Task, Led(t), UNCHANGED egvars PROVE Callers'
  BY <1>9, <1>1 DEF Callers, Mine, wgvars, Led, DoReturns, SFGoto
<1>10. ASSUME NEW t \in Task, Return(t) PROVE Callers'
  BY <1>10, <1>1 DEF Callers, Mine, wgvars, Return, FReturns, TaskGoto
<1>11. ASSUME NEW t \in Task, LoadDone(t), UNCHANGED sfvars PROVE Callers'
  BY <1>11, <1>1 DEF Callers, Mine, wgvars, LoadDone, TaskGoto
<1>12. ASSUME NEW t \in Task, DoSlow(t), UNCHANGED sfvars PROVE Callers'
  BY <1>12, <1>1 DEF Callers, Mine, wgvars, DoSlow, TaskGoto, MustRun
<1>13. ASSUME NEW t \in Task, SetErr(t), UNCHANGED sfvars PROVE Callers'
  BY <1>13, <1>1 DEF Callers, Mine, wgvars, SetErr, TaskGoto
<1>14. ASSUME NEW t \in Task, Cancel(t), UNCHANGED sfvars PROVE Callers'
  BY <1>14, <1>1 DEF Callers, Mine, wgvars, Cancel, TaskGoto
<1>15. ASSUME NEW t \in Task, StoreDone(t), UNCHANGED sfvars PROVE Callers'
  BY <1>15, <1>1 DEF Callers, Mine, wgvars, StoreDone, TaskGoto
<1>16. ASSUME NEW t \in Task, UnlockOnce(t), UNCHANGED sfvars PROVE Callers'
  BY <1>16, <1>1 DEF Callers, Mine, wgvars, UnlockOnce, TaskGoto
<1>17. ASSUME NEW t \in Task, TaskDone(t), UNCHANGED sfvars PROVE Callers'
  <2>1. /\ \A h \in Goroutine : h # t => wgpc'[h] = wgpc[h] /\ wg'[h] = wg[h]
        /\ \/ wgpc'[t] = "idle" /\ wg'[t] = NoWG
           \/ wgpc'[t] = "check" /\ wg'[t] = Group
    BY <1>17, TaskDoneIs
  <2> QED
    BY <1>17, <1>1, <2>1 DEF Callers, Mine, TaskDone, TaskGoto
<1>18. ASSUME NEW w \in Waiter, BeginWait(w), UNCHANGED sfvars PROVE Callers'
  <2>1. /\ \A h \in Goroutine : h # w => wgpc'[h] = wgpc[h] /\ wg'[h] = wg[h]
        /\ \/ wgpc'[w] = "idle" /\ wg'[w] = NoWG
           \/ wgpc'[w] = "cas" /\ wg'[w] = Group
    BY <1>18, BeginWaitIs
  <2> QED
    BY <1>18, <1>1, <2>1 DEF Callers, Mine, BeginWait, WaiterGoto
<1>19. ASSUME NEW w \in Waiter, CancelAfterWait(w), UNCHANGED sfvars PROVE Callers'
  BY <1>19, <1>1 DEF Callers, Mine, wgvars, CancelAfterWait, WaiterGoto
<1>20. ASSUME NEW w \in Waiter, WaitReturns(w), UNCHANGED sfvars PROVE Callers'
  BY <1>20, <1>1 DEF Callers, Mine, wgvars, WaitReturns, WaiterGoto
<1>21. ASSUME NEW g \in Goroutine, WGStep(g), UNCHANGED <<egvars, sfvars>> PROVE Callers'
  <2>1. /\ wgpc[g] # "idle"
        /\ \A h \in Goroutine : h # g => wgpc'[h] = wgpc[h] /\ wg'[h] = wg[h]
        /\ \/ wgpc'[g] = "idle" /\ wg'[g] = NoWG
           \/ wgpc[g] \in WaitPc /\ wgpc'[g] \in WaitPc /\ wg'[g] = wg[g]
           \/ wgpc[g] \in AddPc /\ wgpc'[g] \in AddPc /\ wg'[g] = wg[g]
    BY <1>21, Basics, WGStepIs DEF WGSound
  <2>2. UNCHANGED <<m, key, sfpc, tpc, wpc>>
    BY <1>21
  <2>3. ASSUME NEW w \in Waiter, wgpc'[w] # "idle"
        PROVE  wg'[w] = Group /\ wpc'[w] = "wait" /\ wgpc'[w] \in {"again", "cas", "sem", "awake"}
    <3>1. wgpc[w] # "idle" /\ wg'[w] = wg[w]
      BY <1>1, <2>1, <2>3
    <3> QED
      BY <1>1, <2>1, <2>2, <2>3, <3>1 DEF Callers, WaitPc, AddPc
  <2>4. ASSUME NEW t \in Task, wgpc'[t] # "idle"
        PROVE  /\ wgpc[t] # "idle" /\ wg'[t] = wg[t]
               /\ \/ wgpc[t] \in WaitPc /\ wgpc'[t] \in WaitPc
                  \/ wgpc[t] \in AddPc /\ wgpc'[t] \in AddPc
    <3>1. wgpc[t] # "idle" /\ wg'[t] = wg[t]
      BY <1>1, <2>1, <2>4
    <3>2. wgpc[t] \in WaitPc \cup AddPc
      BY <1>1, <3>1 DEF IInv, WGTypeOK, NoMisuse, WaitPc, AddPc
    <3> QED
      BY <1>1, <2>1, <2>4, <3>1, <3>2 DEF WaitPc, AddPc
  <2> QED
    BY <1>1, <2>2, <2>3, <2>4 DEF Callers, Mine, WaitPc, AddPc
<1>22. ASSUME Restart PROVE Callers'
  <2>1. \A w \in Waiter : wgpc[w] = "idle"
    BY <1>22, <1>1 DEF Restart, NextRound, AllReturned, Callers
  <2>2. UNCHANGED <<m, wgpc, wg>>
    BY <1>22 DEF Restart, NextRound, wgvars
  <2>3. \A t \in Task : wgpc[t] # "idle" \/ tpc[t] = "run" =>
          tpc'[t] = tpc[t] /\ (tpc[t] # "new" => key'[t] = key[t] /\ sfpc'[t] = sfpc[t])
    BY <1>22, <1>1 DEF Restart, NextRound
  <2>4. \A g \in Goroutine : sfpc'[g] = sfpc[g] \/ sfpc'[g] = "idle"
    BY <1>22, <1>1 DEF Restart
  <2>5. \A t \in Task : wgpc'[t] # "idle" =>
          /\ wgpc[t] # "idle" /\ tpc[t] # "new" /\ wg'[t] = wg[t] /\ tpc'[t] = tpc[t]
          /\ key'[t] = key[t] /\ sfpc'[t] = sfpc[t] /\ wgpc'[t] = wgpc[t]
    BY <1>1, <2>2, <2>3 DEF Callers
  <2> QED
    BY <1>1, <2>1, <2>2, <2>3, <2>4, <2>5 DEF Callers, Mine
<1>23. CASE UNCHANGED vars
  BY <1>23, <1>1 DEF Callers, Mine, wgvars, vars
<1> QED
  BY <1>1, <1>2, <1>3, <1>4, <1>5, <1>6, <1>7, <1>8, <1>9, <1>10, <1>11, <1>12, <1>13,
     <1>14, <1>15, <1>16, <1>17, <1>18, <1>19, <1>20, <1>21, <1>22, <1>23 DEF Next, Call,
     Do, SFStep, TaskStep, WaiterStep, Finished

\* The group counts the tasks that run, and Wait is not passed before.
LEMMA CountsStep == IInv /\ [Next]_vars => Counts'
<1> SUFFICES ASSUME IInv, [Next]_vars PROVE Counts'
  OBVIOUS
<1> USE DEF egvars, once, tasks, waiters
<1>1. /\ Counts /\ [Next]_vars /\ Group \in WG /\ Group \notin Cell /\ Owner \in Waiter
      /\ (\A w \in Waiter : w \in Goroutine /\ w \notin Task) /\ (\A t \in Task : t \in Goroutine)
      /\ state[Group].v = Cardinality(Running) /\ IsFiniteSet(Running)
      /\ Cardinality(Running) \in Nat
      /\ \A t \in Task : tpc[t] \notin {"new", "end"} => state[Group].v > 0
      /\ tpc \in [Task -> {"new", "run", "once", "lock", "set", "cancel", "store", "unlock",
                           "leave", "end"}]
      /\ wpc \in [Waiter -> {"start", "wait", "err", "returned"}]
      /\ wret \in [Waiter -> Err \cup {NoErr}]
      /\ \A w \in Waiter : wgpc[w] # "idle" => wpc[w] = "wait" /\ wg[w] = Group
  BY Basics, RunningIs DEF IInv, EGTypeOK, Callers
<1>2. ASSUME NEW g \in Goroutine, NEW t \in Task, Go(g, t), g \in Task => sfpc[g] = "idle",
             UNCHANGED sfvars
      PROVE  Counts'
  <2>1. Running' = Running \cup {t} /\ t \notin Running
    BY <1>2, <1>1 DEF Go, TaskGoto, Running
  <2>2. Cardinality(Running') = Cardinality(Running) + 1
    BY <1>1, <2>1, FS_AddElement
  <2>3. state'[Group].v = state[Group].v + 1 /\ \A h \in Goroutine : wgpc'[h] = wgpc[h]
    BY <1>2, GoIs
  <2>4. \A w \in Waiter :
          ~(wpc[w] \in {"err", "returned"} \/ (wpc[w] = "wait" /\ wgpc[w] = "idle"))
    <3>1. CASE g \in Task /\ tpc[g] = "run"
      BY <1>1, <3>1 DEF Counts
    <3>2. CASE wpc[Owner] = "start"
      BY <1>1, <3>2 DEF Counts
    <3> QED
      BY <1>2, <3>1, <3>2 DEF Go
  <2> QED
    BY <1>2, <1>1, <2>2, <2>3, <2>4 DEF Counts, Go
<1>3. ASSUME NEW t \in Task, NEW k \in Key, Join(t, k), tpc[t] = "run", wgpc[t] = "idle",
             UNCHANGED egvars
      PROVE  Counts'
  <2>1. Running' = Running /\ UNCHANGED <<state, wgpc>>
    BY <1>3 DEF Running, wgvars, Join, SFGoto
  <2> QED
    BY <1>3, <1>1, <2>1 DEF Counts
<1>4. ASSUME NEW t \in Task, NEW k \in Key, Lead(t, k), tpc[t] = "run", wgpc[t] = "idle",
             UNCHANGED egvars
      PROVE  Counts'
  <2>1. state'[Group] = state[Group] /\ \A h \in Goroutine : h # t => wgpc'[h] = wgpc[h]
    BY <1>4, <1>1, LeadIs
  <2>2. Running' = Running
    BY <1>4 DEF Running
  <2> QED
    BY <1>4, <1>1, <2>1, <2>2 DEF Counts
<1>5. ASSUME NEW t \in Task, JoinWait(t), UNCHANGED egvars PROVE Counts'
  <2>1. state'[Group] = state[Group] /\ \A h \in Goroutine : h # t => wgpc'[h] = wgpc[h]
    BY <1>5, <1>1, JoinWaitIs
  <2>2. Running' = Running
    BY <1>5 DEF Running
  <2> QED
    BY <1>5, <1>1, <2>1, <2>2 DEF Counts
<1>6. ASSUME NEW t \in Task, Joined(t), UNCHANGED egvars PROVE Counts'
  <2>1. Running' = Running /\ UNCHANGED <<state, wgpc>>
    BY <1>6 DEF Running, wgvars, Joined, DoReturns, SFGoto
  <2> QED
    BY <1>6, <1>1, <2>1 DEF Counts
<1>7. ASSUME NEW t \in Task, Execute(t), UNCHANGED egvars PROVE Counts'
  <2>1. Running' = Running /\ UNCHANGED <<state, wgpc>>
    BY <1>7 DEF Running, wgvars, Execute, SFGoto
  <2> QED
    BY <1>7, <1>1, <2>1 DEF Counts
<1>8. ASSUME NEW t \in Task, CallDone(t), UNCHANGED egvars PROVE Counts'
  <2>1. state'[Group] = state[Group] /\ \A h \in Goroutine : h # t => wgpc'[h] = wgpc[h]
    BY <1>8, <1>1, Basics, CallDoneIs DEF CallDone
  <2>2. Running' = Running
    BY <1>8 DEF Running
  <2> QED
    BY <1>8, <1>1, <2>1, <2>2 DEF Counts
<1>9. ASSUME NEW t \in Task, Led(t), UNCHANGED egvars PROVE Counts'
  <2>1. Running' = Running /\ UNCHANGED <<state, wgpc>>
    BY <1>9 DEF Running, wgvars, Led, DoReturns, SFGoto
  <2> QED
    BY <1>9, <1>1, <2>1 DEF Counts
<1>10. ASSUME NEW t \in Task, Return(t) PROVE Counts'
  <2>1. Running' = Running /\ t \in Running
    BY <1>10, <1>1 DEF Running, Return, FReturns, TaskGoto
  <2>2. UNCHANGED <<state, wgpc>>
    BY <1>10 DEF wgvars, Return
  <2> QED
    BY <1>10, <1>1, <2>1, <2>2 DEF Counts, Return, FReturns
<1>11. ASSUME NEW t \in Task, LoadDone(t), UNCHANGED sfvars PROVE Counts'
  <2>1. Running' = Running /\ t \in Running
    BY <1>11, <1>1 DEF Running, LoadDone, TaskGoto
  <2>2. UNCHANGED <<state, wgpc>>
    BY <1>11 DEF wgvars, LoadDone
  <2> QED
    BY <1>11, <1>1, <2>1, <2>2 DEF Counts, LoadDone
<1>12. ASSUME NEW t \in Task, DoSlow(t), UNCHANGED sfvars PROVE Counts'
  <2>1. Running' = Running /\ t \in Running
    BY <1>12, <1>1 DEF Running, DoSlow, TaskGoto, MustRun
  <2>2. UNCHANGED <<state, wgpc>>
    BY <1>12 DEF wgvars, DoSlow
  <2> QED
    BY <1>12, <1>1, <2>1, <2>2 DEF Counts, DoSlow
<1>13. ASSUME NEW t \in Task, SetErr(t), UNCHANGED sfvars PROVE Counts'
  <2>1. Running' = Running /\ t \in Running
    BY <1>13, <1>1 DEF Running, SetErr, TaskGoto
  <2>2. UNCHANGED <<state, wgpc>>
    BY <1>13 DEF wgvars, SetErr
  <2>3. \A w \in Waiter : wpc[w] # "returned"
    BY <1>1, <2>1 DEF Counts, Running
  <2> QED
    BY <1>13, <1>1, <2>1, <2>2, <2>3 DEF Counts, SetErr
<1>14. ASSUME NEW t \in Task, Cancel(t), UNCHANGED sfvars PROVE Counts'
  <2>1. Running' = Running /\ t \in Running
    BY <1>14, <1>1 DEF Running, Cancel, TaskGoto
  <2>2. UNCHANGED <<state, wgpc>>
    BY <1>14 DEF wgvars, Cancel
  <2> QED
    BY <1>14, <1>1, <2>1, <2>2 DEF Counts, Cancel
<1>15. ASSUME NEW t \in Task, StoreDone(t), UNCHANGED sfvars PROVE Counts'
  <2>1. Running' = Running /\ t \in Running
    BY <1>15, <1>1 DEF Running, StoreDone, TaskGoto
  <2>2. UNCHANGED <<state, wgpc>>
    BY <1>15 DEF wgvars, StoreDone
  <2> QED
    BY <1>15, <1>1, <2>1, <2>2 DEF Counts, StoreDone
<1>16. ASSUME NEW t \in Task, UnlockOnce(t), UNCHANGED sfvars PROVE Counts'
  <2>1. Running' = Running /\ t \in Running
    BY <1>16, <1>1 DEF Running, UnlockOnce, TaskGoto
  <2>2. UNCHANGED <<state, wgpc>>
    BY <1>16 DEF wgvars, UnlockOnce
  <2> QED
    BY <1>16, <1>1, <2>1, <2>2 DEF Counts, UnlockOnce
<1>17. ASSUME NEW t \in Task, TaskDone(t), UNCHANGED sfvars PROVE Counts'
  <2>1. Running' = Running \ {t} /\ t \in Running
    BY <1>17, <1>1 DEF TaskDone, TaskGoto, Running
  <2>2. Cardinality(Running') = Cardinality(Running) - 1
    BY <1>1, <2>1, FS_RemoveElement
  <2>3. /\ state'[Group].v = state[Group].v - 1
        /\ \A h \in Goroutine : h # t => wgpc'[h] = wgpc[h]
    BY <1>17, TaskDoneIs
  <2>4. \A w \in Waiter :
          ~(wpc[w] \in {"err", "returned"} \/ (wpc[w] = "wait" /\ wgpc[w] = "idle"))
    BY <1>17, <1>1, <2>1 DEF Counts, TaskDone, Running
  <2> QED
    BY <1>17, <1>1, <2>2, <2>3, <2>4 DEF Counts, TaskDone
<1>18. ASSUME NEW w \in Waiter, BeginWait(w), UNCHANGED sfvars PROVE Counts'
  <2>1. /\ UNCHANGED state /\ \A h \in Goroutine : h # w => wgpc'[h] = wgpc[h]
        /\ wgpc'[w] = "idle" => state[Group].v = 0
    BY <1>18, BeginWaitIs
  <2>2. Running' = Running
    BY <1>18 DEF BeginWait, Running
  <2> QED
    BY <1>18, <1>1, <2>1, <2>2 DEF Counts, BeginWait, WaiterGoto
<1>19. ASSUME NEW w \in Waiter, CancelAfterWait(w), UNCHANGED sfvars PROVE Counts'
  <2>1. Running' = Running /\ UNCHANGED <<state, wgpc>>
    BY <1>19 DEF Running, wgvars, CancelAfterWait
  <2> QED
    BY <1>19, <1>1, <2>1 DEF Counts, CancelAfterWait, WaiterGoto
<1>20. ASSUME NEW w \in Waiter, WaitReturns(w), UNCHANGED sfvars PROVE Counts'
  <2>1. Running' = Running /\ UNCHANGED <<state, wgpc>>
    BY <1>20 DEF Running, wgvars, WaitReturns
  <2> QED
    BY <1>20, <1>1, <2>1 DEF Counts, WaitReturns, WaiterGoto
<1>21. ASSUME NEW g \in Goroutine, WGStep(g), UNCHANGED <<egvars, sfvars>> PROVE Counts'
  <2>1. /\ state'[Group].v = state[Group].v /\ \A h \in Goroutine : h # g => wgpc'[h] = wgpc[h]
        /\ wgpc[g] # "idle" /\ (wgpc'[g] = "idle" => state[wg[g]].v = 0)
    BY <1>21, <1>1, Basics, WGStepIs DEF WGSound, WaitPc, AddPc
  <2>2. Running' = Running
    BY <1>21 DEF Running
  <2> QED
    BY <1>21, <1>1, <2>1, <2>2 DEF Counts
<1>22. ASSUME Restart PROVE Counts'
  <2>1. Running' = Running /\ UNCHANGED <<state, wgpc>>
    BY <1>22, <1>1 DEF Running, wgvars, Restart, NextRound
  <2> QED
    BY <1>22, <1>1, <2>1 DEF Counts, Restart, NextRound
<1>23. CASE UNCHANGED vars
  <2>1. Running' = Running
    BY <1>23 DEF Running, vars
  <2> QED
    BY <1>23, <1>1, <2>1 DEF Counts, vars, wgvars
<1> QED
  BY <1>1, <1>2, <1>3, <1>4, <1>5, <1>6, <1>7, <1>8, <1>9, <1>10, <1>11, <1>12, <1>13,
     <1>14, <1>15, <1>16, <1>17, <1>18, <1>19, <1>20, <1>21, <1>22, <1>23 DEF Next, Call,
     Do, SFStep, TaskStep, WaiterStep, Finished

\* What keeps the calls as they are: no counter of theirs changes, and nobody
\* leaves Wait whose call is not over.
LEMMA FlightsFrame ==
  ASSUME IInv, UNCHANGED sfvars,
         \A c \in Cell : state'[c].v = state[c].v,
         \A c \in Cell : (\A k \in Key : m[k] # c) => state'[c] = state[c],
         \A g \in Goroutine : sfpc[g] = "joined" /\ wgpc'[g] = "idle" =>
           wgpc[g] = "idle" \/ state[Mine(g)].v = 0
  PROVE  Flights'
<1>1. Flights /\ UNCHANGED <<m, key, val, ret, sfpc>> /\ \A k \in Key : m[k] \in Cell \cup {None}
  BY DEF sfvars, IInv, SFTypeOK
<1>2. /\ \A k \in Key : Leading(k)' = Leading(k)
      /\ \A g \in Goroutine : Mine(g)' = Mine(g)
  BY <1>1 DEF Leading, Mine
<1>3. \A g \in Goroutine : sfpc[g] # "idle" => state'[Mine(g)].v = state[Mine(g)].v
  BY <1>1 DEF Flights
<1> QED
  BY <1>1, <1>2, <1>3 DEF Flights

\* The calls of a SingleFlightGroup.
LEMMA FlightsStep == IInv /\ [Next]_vars => Flights'
<1> SUFFICES ASSUME IInv, [Next]_vars PROVE Flights'
  OBVIOUS
<1> USE DEF egvars, sfvars, once, tasks, waiters
<1>1. /\ Flights /\ [Next]_vars /\ None \notin Cell /\ None \notin Result /\ Group \notin Cell
      /\ Cell \subseteq WG /\ Group \in WG
      /\ (\A t \in Task : t \in Goroutine) /\ (\A w \in Waiter : w \in Goroutine)
      /\ (\A g \in Goroutine : sfpc[g] # "idle" => key[g] \in Key /\ m[key[g]] \in Cell)
      /\ m \in [Key -> Cell \cup {None}] /\ key \in [Goroutine -> Key \cup {None}]
      /\ val \in [Cell -> Result \cup {None}]
      /\ ret \in [Goroutine -> [res : Result \cup {None}, shared : BOOLEAN]]
      /\ sfpc \in [Goroutine -> {"idle", "join", "joined", "fn", "done", "led", "returned"}]
      /\ Leader(1) = "fn" /\ AfterLeader("fn") = "done" /\ AfterLeader("done") = "led"
  BY Basics, LeaderIs DEF IInv, SFTypeOK, Mine
<1>2. ASSUME NEW g \in Goroutine, NEW t \in Task, Go(g, t), g \in Task => sfpc[g] = "idle",
             UNCHANGED sfvars
      PROVE  Flights'
  BY <1>2, <1>1, GoIs, FlightsFrame
<1>3. ASSUME NEW t \in Task, NEW k \in Key, Join(t, k), tpc[t] = "run", wgpc[t] = "idle",
             UNCHANGED egvars
      PROVE  Flights'
  <2>1. /\ UNCHANGED <<m, val, ret, state, wgpc>> /\ sfpc[t] = "idle" /\ m[k] \in Cell
        /\ key' = [key EXCEPT ![t] = k] /\ sfpc' = [sfpc EXCEPT ![t] = "join"]
    BY <1>3, <1>1 DEF Join, SFGoto, wgvars
  <2>2. /\ \A l \in Key : Leading(l)' = Leading(l)
        /\ \A g \in Goroutine : g # t =>
             key'[g] = key[g] /\ sfpc'[g] = sfpc[g] /\ Mine(g)' = Mine(g)
        /\ key'[t] = k /\ sfpc'[t] = "join" /\ Mine(t)' = m[k]
    BY <1>1, <2>1 DEF Leading, Mine
  <2> QED
    BY <1>1, <2>1, <2>2 DEF Flights
<1>4. ASSUME NEW t \in Task, NEW k \in Key, Lead(t, k), tpc[t] = "run", wgpc[t] = "idle",
             UNCHANGED egvars
      PROVE  Flights'
  <2>1. PICK c \in Cell :
          /\ m' = [m EXCEPT ![k] = c] /\ (\A l \in Key : m[l] # c)
          /\ state'[c].v = 1 /\ \A y \in WG : y # c => state'[y] = state[y]
          /\ \A h \in Goroutine : wgpc'[h] = wgpc[h]
    BY <1>4, LeadIs
  <2>2. /\ UNCHANGED <<val, ret>> /\ sfpc[t] = "idle" /\ m[k] = None
        /\ key' = [key EXCEPT ![t] = k] /\ sfpc' = [sfpc EXCEPT ![t] = "fn"]
    BY <1>4, <1>1 DEF Lead, SFGoto
  <2>3. /\ \A g \in Goroutine : g # t => key'[g] = key[g] /\ sfpc'[g] = sfpc[g]
        /\ \A g \in Goroutine : g # t /\ sfpc[g] # "idle" =>
             key[g] # k /\ Mine(g)' = Mine(g) /\ state'[Mine(g)] = state[Mine(g)]
        /\ key'[t] = k /\ sfpc'[t] = "fn" /\ Mine(t)' = c
    BY <1>1, <2>1, <2>2 DEF Mine
  <2>4. /\ \A l \in Key : l # k => Leading(l)' = Leading(l)
        /\ Leading(k)' = {t}
    BY <1>1, <2>2, <2>3 DEF Leading
  <2>5. /\ \A l \in Key : l # k => m'[l] = m[l] /\ m[l] # c
        /\ m'[k] = c
    BY <1>1, <2>1
  <2>6. /\ \A g \in Goroutine : sfpc'[g] # "idle" => key'[g] \in Key /\ Mine(g)' \in Cell
        /\ \A l \in Key : \A g, h \in Leading(l)' : g = h
    <3>1. ASSUME NEW g \in Goroutine, sfpc'[g] # "idle"
          PROVE  key'[g] \in Key /\ Mine(g)' \in Cell
      <4>1. CASE g = t
        BY <2>3, <4>1
      <4>2. CASE g # t
        BY <1>1, <2>3, <3>1, <4>2 DEF Mine
      <4> QED
        BY <4>1, <4>2
    <3>2. ASSUME NEW l \in Key, NEW g \in Leading(l)', NEW h \in Leading(l)' PROVE g = h
      BY <1>1, <2>4, <3>2 DEF Flights
    <3> QED
      BY <3>1, <3>2
  <2>7. /\ \A l, j \in Key : m'[l] = m'[j] /\ m'[l] # None => l = j
        /\ \A d \in Cell : (\A l \in Key : m'[l] # d) => state'[d] = Zero
    <3>1. ASSUME NEW l \in Key, NEW j \in Key, m'[l] = m'[j], m'[l] # None PROVE l = j
      BY <1>1, <2>5, <3>1 DEF Flights
    <3>2. ASSUME NEW d \in Cell, \A l \in Key : m'[l] # d PROVE state'[d] = Zero
      <4>1. d # c /\ \A l \in Key : m[l] # d
        BY <1>1, <2>2, <2>5, <3>2
      <4> QED
        BY <1>1, <2>1, <4>1 DEF Flights
    <3> QED
      BY <3>1, <3>2
  <2>8. ASSUME NEW l \in Key, m'[l] # None
        PROVE  /\ state'[m'[l]].v = (IF Leading(l)' # {} THEN 1 ELSE 0)
               /\ state'[m'[l]].v = 0 => val'[m'[l]] # None
    <3>1. CASE l = k
      BY <2>1, <2>4, <2>5, <3>1
    <3>2. CASE l # k
      <4>1. /\ state[m[l]].v = (IF Leading(l) # {} THEN 1 ELSE 0)
            /\ state[m[l]].v = 0 => val[m[l]] # None
        BY <1>1, <2>5, <2>8, <3>2 DEF Flights
      <4>2. m'[l] = m[l] /\ state'[m[l]] = state[m[l]] /\ Leading(l)' = Leading(l)
        BY <1>1, <2>1, <2>4, <2>5, <2>8, <3>2
      <4> QED
        BY <2>2, <4>1, <4>2
    <3> QED
      BY <3>1, <3>2
  <2>9. ASSUME NEW g \in Goroutine
        PROVE  /\ sfpc'[g] = "done" => val'[Mine(g)'] # None
               /\ sfpc'[g] \in {"led", "returned"} \/ (sfpc'[g] = "joined" /\ wgpc'[g] = "idle")
                    => state'[Mine(g)'].v = 0
               /\ sfpc'[g] = "returned" => ret'[g].res = val'[Mine(g)']
    <3>1. CASE g = t
      BY <2>3, <3>1
    <3>2. CASE g # t
      BY <1>1, <2>1, <2>2, <2>3, <3>2 DEF Flights
    <3> QED
      BY <3>1, <3>2
  <2> QED
    BY <2>6, <2>7, <2>8, <2>9 DEF Flights
<1>5. ASSUME NEW t \in Task, JoinWait(t), UNCHANGED egvars PROVE Flights'
  <2>1. /\ UNCHANGED <<m, key>> /\ sfpc' = [sfpc EXCEPT ![t] = "joined"]
        /\ sfpc'[t] = "joined" /\ \A g \in Goroutine : g # t => sfpc'[g] = sfpc[g]
        /\ \A g \in Goroutine : Mine(g)' = Mine(g)
    BY <1>5, <1>1 DEF JoinWait, SFGoto, Mine
  <2>2. /\ UNCHANGED <<state, val, ret>> /\ sfpc[t] = "join"
        /\ \A h \in Goroutine : h # t => wgpc'[h] = wgpc[h]
        /\ wgpc'[t] = "idle" => state[Mine(t)].v = 0
    BY <1>5, JoinWaitIs DEF JoinWait
  <2>3. \A l \in Key : Leading(l)' = Leading(l)
    BY <2>1, <2>2 DEF Leading
  <2> QED
    BY <1>1, <2>1, <2>2, <2>3 DEF Flights
<1>6. ASSUME NEW t \in Task, Joined(t), UNCHANGED egvars PROVE Flights'
  <2>1. /\ UNCHANGED <<m, key>> /\ sfpc' = [sfpc EXCEPT ![t] = "returned"]
        /\ sfpc'[t] = "returned" /\ \A g \in Goroutine : g # t => sfpc'[g] = sfpc[g]
        /\ \A g \in Goroutine : Mine(g)' = Mine(g)
    BY <1>6, <1>1 DEF Joined, DoReturns, SFGoto, Mine
  <2>2. /\ UNCHANGED <<state, wgpc, val>> /\ sfpc[t] = "joined" /\ wgpc[t] = "idle"
        /\ ret'[t].res = val[Mine(t)] /\ \A g \in Goroutine : g # t => ret'[g] = ret[g]
    BY <1>6, <1>1 DEF Joined, DoReturns, wgvars
  <2>3. \A l \in Key : Leading(l)' = Leading(l)
    BY <2>1, <2>2 DEF Leading
  <2> QED
    BY <1>1, <2>1, <2>2, <2>3 DEF Flights
<1>7. ASSUME NEW t \in Task, Execute(t), UNCHANGED egvars PROVE Flights'
  <2>1. /\ UNCHANGED <<m, key>> /\ sfpc' = [sfpc EXCEPT ![t] = "done"]
        /\ sfpc'[t] = "done" /\ \A g \in Goroutine : g # t => sfpc'[g] = sfpc[g]
        /\ \A g \in Goroutine : Mine(g)' = Mine(g)
    BY <1>7, <1>1 DEF Execute, SFGoto, Mine
  <2>2. /\ UNCHANGED <<state, wgpc, ret>> /\ sfpc[t] = "fn" /\ Mine(t) \in Cell
        /\ t \in Goroutine /\ key[t] \in Key
    BY <1>7, <1>1 DEF Execute, wgvars, Mine
  <2>3. PICK res \in Result : val' = [val EXCEPT ![Mine(t)] = res]
    BY <1>7 DEF Execute
  <2>4. \A l \in Key : Leading(l)' = Leading(l)
    BY <2>1, <2>2 DEF Leading
  <2>5. val'[Mine(t)] # None /\ \A c \in Cell : c # Mine(t) => val'[c] = val[c]
    BY <1>1, <2>2, <2>3
  <2>6. t \in Leading(key[t]) /\ Mine(t) = m[key[t]]
    BY <2>2 DEF Leading, Mine
  <2>7. state[Mine(t)].v = 1
    BY <1>1, <2>2, <2>6 DEF Flights
  <2>8. \A g \in Goroutine : sfpc[g] # "idle" /\ state[Mine(g)].v = 0 =>
             val'[Mine(g)] = val[Mine(g)]
    BY <1>1, <2>5, <2>7 DEF Mine
  <2>9. \A g \in Goroutine : sfpc'[g] = "done" => val'[Mine(g)] # None
    BY <1>1, <2>1, <2>5 DEF Flights, Mine
  <2>10. \A l \in Key : m[l] # None /\ state[m[l]].v = 0 => val'[m[l]] # None
    BY <1>1, <2>5 DEF Flights
  <2>11. \A g \in Goroutine : sfpc'[g] = "returned" => ret[g].res = val'[Mine(g)]
    BY <1>1, <2>1, <2>8 DEF Flights
  <2>12. \A g \in Goroutine : /\ sfpc'[g] # "idle" => sfpc[g] # "idle"
                              /\ sfpc'[g] \in {"led", "returned", "joined"} => sfpc'[g] = sfpc[g]
    BY <2>1, <2>2
  <2>13. UNCHANGED <<m, key, state, wgpc, ret>>
    BY <2>1, <2>2
  <2> HIDE DEF Flights
  <2> QED
    <3>1. /\ \A l, j \in Key : m'[l] = m'[j] /\ m'[l] # None => l = j
          /\ \A g \in Goroutine : sfpc'[g] # "idle" => key'[g] \in Key /\ Mine(g)' \in Cell
          /\ \A d \in Cell : (\A l \in Key : m'[l] # d) => state'[d] = Zero
          /\ \A l \in Key : \A g, h \in Leading(l)' : g = h
      BY <1>1, <2>1, <2>4, <2>12, <2>13 DEF Flights
    <3>2. \A l \in Key : m'[l] # None =>
       /\ state'[m'[l]].v = (IF Leading(l)' # {} THEN 1 ELSE 0)
       /\ state'[m'[l]].v = 0 => val'[m'[l]] # None
      BY <1>1, <2>4, <2>10, <2>13 DEF Flights
    <3>3. /\ \A g \in Goroutine : sfpc'[g] = "done" => val'[Mine(g)'] # None
          /\ \A g \in Goroutine :
               sfpc'[g] \in {"led", "returned"} \/ (sfpc'[g] = "joined" /\ wgpc'[g] = "idle")
               => state'[Mine(g)'].v = 0
          /\ \A g \in Goroutine : sfpc'[g] = "returned" => ret'[g].res = val'[Mine(g)']
      BY <1>1, <2>1, <2>9, <2>11, <2>12, <2>13 DEF Flights
    <3> QED
      BY <3>1, <3>2, <3>3 DEF Flights
<1>8. ASSUME NEW t \in Task, CallDone(t), UNCHANGED egvars PROVE Flights'
  <2>1. /\ UNCHANGED <<m, key>> /\ sfpc' = [sfpc EXCEPT ![t] = "led"]
        /\ sfpc'[t] = "led" /\ \A g \in Goroutine : g # t => sfpc'[g] = sfpc[g]
        /\ \A g \in Goroutine : Mine(g)' = Mine(g)
    BY <1>8, <1>1 DEF CallDone, SFGoto, Mine
  <2>2. /\ UNCHANGED <<val, ret>> /\ sfpc[t] = "done" /\ Mine(t) \in Cell /\ Mine(t) = m[key[t]]
        /\ t \in Goroutine /\ key[t] \in Key
        /\ state'[Mine(t)].v = 0 /\ \A y \in WG : y # Mine(t) => state'[y] = state[y]
        /\ \A h \in Goroutine : h # t => wgpc'[h] = wgpc[h]
    BY <1>8, <1>1, CallDoneIs DEF CallDone, Mine
  <2>3. t \in Leading(key[t]) /\ val[Mine(t)] # None
    BY <1>1, <2>2 DEF Leading, Flights
  <2>4. /\ \A l \in Key : l # key[t] => Leading(l)' = Leading(l)
        /\ Leading(key[t])' = {}
    <3>1. \A g \in Leading(key[t]) : g = t
      BY <1>1, <2>2, <2>3 DEF Flights
    <3> QED
      BY <2>1, <2>2, <3>1 DEF Leading
  <2>5. \A l \in Key : l # key[t] /\ m[l] # None => m[l] # Mine(t) /\ state'[m[l]] = state[m[l]]
    BY <1>1, <2>2 DEF Flights
  <2>6. \A g \in Goroutine : sfpc[g] # "idle" /\ state[Mine(g)].v = 0 => state'[Mine(g)].v = 0
    BY <1>1, <2>2 DEF Mine
  <2>7. \A g \in Goroutine : /\ sfpc'[g] # "idle" => sfpc[g] # "idle"
                             /\ sfpc'[g] \in {"done", "returned"} => sfpc'[g] = sfpc[g]
                             /\ sfpc'[g] \in {"led", "joined"} => g = t \/ sfpc'[g] = sfpc[g]
                             /\ sfpc'[g] = "joined" => g # t
    BY <2>1, <2>2
  <2>8. /\ \A l, j \in Key : m'[l] = m'[j] /\ m'[l] # None => l = j
        /\ \A g \in Goroutine : sfpc'[g] # "idle" => key'[g] \in Key /\ Mine(g)' \in Cell
        /\ \A d \in Cell : (\A l \in Key : m'[l] # d) => state'[d] = Zero
        /\ \A l \in Key : \A g, h \in Leading(l)' : g = h
    BY <1>1, <2>1, <2>2, <2>4, <2>7 DEF Flights
  <2>9. \A l \in Key : m'[l] # None =>
       /\ state'[m'[l]].v = (IF Leading(l)' # {} THEN 1 ELSE 0)
       /\ state'[m'[l]].v = 0 => val'[m'[l]] # None
    BY <1>1, <2>1, <2>2, <2>3, <2>4, <2>5 DEF Flights
  <2>10. /\ \A g \in Goroutine : sfpc'[g] = "done" => val'[Mine(g)'] # None
         /\ \A g \in Goroutine :
              sfpc'[g] \in {"led", "returned"} \/ (sfpc'[g] = "joined" /\ wgpc'[g] = "idle")
              => state'[Mine(g)'].v = 0
         /\ \A g \in Goroutine : sfpc'[g] = "returned" => ret'[g].res = val'[Mine(g)']
    BY <1>1, <2>1, <2>2, <2>6, <2>7 DEF Flights
  <2> QED
    BY <2>8, <2>9, <2>10 DEF Flights
<1>9. ASSUME NEW t \in Task, Led(t), UNCHANGED egvars PROVE Flights'
  <2>1. /\ UNCHANGED <<m, key>> /\ sfpc' = [sfpc EXCEPT ![t] = "returned"]
        /\ sfpc'[t] = "returned" /\ \A g \in Goroutine : g # t => sfpc'[g] = sfpc[g]
        /\ \A g \in Goroutine : Mine(g)' = Mine(g)
    BY <1>9, <1>1 DEF Led, DoReturns, SFGoto, Mine
  <2>2. /\ UNCHANGED <<state, wgpc, val>> /\ sfpc[t] = "led" /\ wgpc[t] = "idle"
        /\ ret'[t].res = val[Mine(t)] /\ \A g \in Goroutine : g # t => ret'[g] = ret[g]
    BY <1>9, <1>1 DEF Led, DoReturns, wgvars
  <2>3. \A l \in Key : Leading(l)' = Leading(l)
    BY <2>1, <2>2 DEF Leading
  <2> QED
    BY <1>1, <2>1, <2>2, <2>3 DEF Flights
<1>10. ASSUME NEW t \in Task, Return(t) PROVE Flights'
  <2>1. UNCHANGED <<state, wgpc, sfvars>>
    BY <1>10 DEF wgvars, Return, FReturns, TaskGoto
  <2> QED
    BY <1>10, <1>1, <2>1, FlightsFrame
<1>11. ASSUME NEW t \in Task, LoadDone(t), UNCHANGED sfvars PROVE Flights'
  <2>1. UNCHANGED <<state, wgpc, sfvars>>
    BY <1>11 DEF wgvars, LoadDone, TaskGoto
  <2> QED
    BY <1>11, <1>1, <2>1, FlightsFrame
<1>12. ASSUME NEW t \in Task, DoSlow(t), UNCHANGED sfvars PROVE Flights'
  <2>1. UNCHANGED <<state, wgpc, sfvars>>
    BY <1>12 DEF wgvars, DoSlow, TaskGoto, MustRun
  <2> QED
    BY <1>12, <1>1, <2>1, FlightsFrame
<1>13. ASSUME NEW t \in Task, SetErr(t), UNCHANGED sfvars PROVE Flights'
  <2>1. UNCHANGED <<state, wgpc, sfvars>>
    BY <1>13 DEF wgvars, SetErr, TaskGoto
  <2> QED
    BY <1>13, <1>1, <2>1, FlightsFrame
<1>14. ASSUME NEW t \in Task, Cancel(t), UNCHANGED sfvars PROVE Flights'
  <2>1. UNCHANGED <<state, wgpc, sfvars>>
    BY <1>14 DEF wgvars, Cancel, TaskGoto
  <2> QED
    BY <1>14, <1>1, <2>1, FlightsFrame
<1>15. ASSUME NEW t \in Task, StoreDone(t), UNCHANGED sfvars PROVE Flights'
  <2>1. UNCHANGED <<state, wgpc, sfvars>>
    BY <1>15 DEF wgvars, StoreDone, TaskGoto
  <2> QED
    BY <1>15, <1>1, <2>1, FlightsFrame
<1>16. ASSUME NEW t \in Task, UnlockOnce(t), UNCHANGED sfvars PROVE Flights'
  <2>1. UNCHANGED <<state, wgpc, sfvars>>
    BY <1>16 DEF wgvars, UnlockOnce, TaskGoto
  <2> QED
    BY <1>16, <1>1, <2>1, FlightsFrame
<1>17. ASSUME NEW t \in Task, TaskDone(t), UNCHANGED sfvars PROVE Flights'
  <2>1. /\ \A c \in Cell : state'[c] = state[c]
        /\ \A g \in Goroutine : sfpc[g] = "joined" => wgpc'[g] = wgpc[g]
    BY <1>17, <1>1, TaskDoneIs DEF IInv, Callers, TaskDone
  <2> QED
    BY <1>17, <1>1, <2>1, FlightsFrame
<1>18. ASSUME NEW w \in Waiter, BeginWait(w), UNCHANGED sfvars PROVE Flights'
  <2>1. /\ UNCHANGED state
        /\ \A g \in Goroutine : sfpc[g] = "joined" => wgpc'[g] = wgpc[g]
    BY <1>18, <1>1, BeginWaitIs, Basics DEF Callers
  <2> QED
    BY <1>18, <1>1, <2>1, FlightsFrame
<1>19. ASSUME NEW w \in Waiter, CancelAfterWait(w), UNCHANGED sfvars PROVE Flights'
  <2>1. UNCHANGED <<state, wgpc, sfvars>>
    BY <1>19 DEF wgvars, CancelAfterWait, WaiterGoto
  <2> QED
    BY <1>19, <1>1, <2>1, FlightsFrame
<1>20. ASSUME NEW w \in Waiter, WaitReturns(w), UNCHANGED sfvars PROVE Flights'
  <2>1. UNCHANGED <<state, wgpc, sfvars>>
    BY <1>20 DEF wgvars, WaitReturns, WaiterGoto
  <2> QED
    BY <1>20, <1>1, <2>1, FlightsFrame
<1>21. ASSUME NEW g \in Goroutine, WGStep(g), UNCHANGED <<egvars, sfvars>> PROVE Flights'
  <2>1. /\ \A h \in Goroutine : h # g => wgpc'[h] = wgpc[h]
        /\ wgpc'[g] = "idle" => state[wg[g]].v = 0
        /\ \A y \in WG : state'[y].v = state[y].v /\ (y # wg[g] => state'[y] = state[y])
        /\ wgpc[g] # "idle" /\ wg[g] \in WG
    BY <1>21, Basics, WGStepIs DEF WGSound, WaitPc, AddPc
  <2>2. wg[g] = Group \/ (wg[g] = Mine(g) /\ key[g] \in Key)
    BY <2>1, Basics DEF Callers
  <2>3. \A c \in Cell : (\A k \in Key : m[k] # c) => c # wg[g]
    BY <1>1, <2>2 DEF Mine
  <2>4. sfpc[g] = "joined" => wg[g] = Mine(g)
    BY <2>1, Basics DEF Callers
  <2> QED
    BY <1>21, <1>1, <2>1, <2>3, <2>4, FlightsFrame
<1>22. ASSUME Restart PROVE Flights'
  <2>1. /\ UNCHANGED <<m, val, state, wgpc>>
        /\ \A g \in Goroutine :
             \/ sfpc'[g] = "idle" /\ sfpc[g] \in {"idle", "returned"}
             \/ sfpc'[g] = sfpc[g] /\ key'[g] = key[g] /\ ret'[g] = ret[g]
    BY <1>22, <1>1, Basics DEF Restart, NextRound, wgvars, Callers
  <2>2. \A l \in Key : Leading(l)' = Leading(l)
    BY <2>1 DEF Leading
  <2>3. \A g \in Goroutine : sfpc'[g] # "idle" =>
          sfpc'[g] = sfpc[g] /\ key'[g] = key[g] /\ ret'[g] = ret[g] /\ Mine(g)' = Mine(g)
    BY <2>1 DEF Mine
  <2> QED
    BY <1>1, <2>1, <2>2, <2>3 DEF Flights
<1>23. CASE UNCHANGED vars
  <2>1. UNCHANGED <<state, wgpc, sfvars>>
    BY <1>23 DEF wgvars, vars
  <2> QED
    BY <1>23, <1>1, <2>1, FlightsFrame
<1> QED
  BY <1>1, <1>2, <1>3, <1>4, <1>5, <1>6, <1>7, <1>8, <1>9, <1>10, <1>11, <1>12, <1>13,
     <1>14, <1>15, <1>16, <1>17, <1>18, <1>19, <1>20, <1>21, <1>22, <1>23 DEF Next, Call,
     Do, SFStep, TaskStep, WaiterStep, Finished

\* Nobody has called anything.
LEMMA InitHolds == Init => IInv
<1> SUFFICES ASSUME Init PROVE IInv
  OBVIOUS
<1> USE DEF Init, WGInit, EGInit, SFInit, once, tasks, waiters
<1>1. /\ Goroutine = Task \cup Waiter /\ Task \cap Waiter = {} /\ Owner \in Waiter
      /\ Group \in WG /\ Cell \subseteq WG /\ None \notin Cell \cup Result /\ NoWG \notin WG
      /\ 1 \in 1 .. Rounds
  BY WaitGroupAssumption, ErrGroupAssumption, SingleFlightAssumption, GroupsAssumption
<1>2. WGTypeOK /\ EGTypeOK /\ SFTypeOK /\ NoMisuse
  BY <1>1, ZeroIs DEF WGTypeOK, EGTypeOK, SFTypeOK, NoMisuse, Nothing
<1>3. ASSUME NEW x \in WG PROVE Sound(x)
  <2>1. ASSUME NEW P PROVE Users(x, P) = {}
    BY <1>1 DEF Users
  <2>2. Sleeping(x) = {} /\ Ending(x) = {} /\ Waking(x) = {} /\ Cardinality(Sleeping(x)) = 0
    BY <2>1, FS_EmptySet DEF Sleeping, Ending, Waking
  <2> QED
    BY <2>1, <2>2, ZeroIs DEF Sound
<1>4. WGSound
  BY <1>1, <1>3 DEF WGSound
<1>5. Callers /\ OnceRight
  BY <1>1 DEF Callers, OnceRight
<1>6. Counts
  <2>1. Running = {} /\ Cardinality(Running) = 0
    BY FS_EmptySet DEF Running
  <2> QED
    BY <1>1, <2>1, ZeroIs DEF Counts
<1>7. Flights
  BY <1>1 DEF Flights, Leading
<1> QED
  BY <1>2, <1>4, <1>5, <1>6, <1>7 DEF IInv

\* The inductive invariant holds in every reachable state.
THEOREM Invariance == Spec => []IInv
<1>1. Init => IInv
  BY InitHolds
<1>2. IInv /\ [Next]_vars => IInv'
  <2> SUFFICES ASSUME IInv, [Next]_vars PROVE IInv'
    OBVIOUS
  <2>1. WGTypeOK' /\ WGSound' /\ NoMisuse'
    BY WGStepHolds
  <2>2. EGTypeOK' /\ SFTypeOK'
    BY TypeStep
  <2>3. Callers' /\ Counts' /\ OnceRight' /\ Flights'
    BY CallersStep, CountsStep, OnceStep, FlightsStep
  <2> QED
    BY <2>1, <2>2, <2>3 DEF IInv
<1> QED
  BY <1>1, <1>2, PTL DEF Spec

-----------------------------------------------------------------------------
(***************************************************************************)
(* What the groups promise.                                                *)
(***************************************************************************)

\* The variables keep their types, and no check for misuse fires
\* (waitgroup.go:54-59, 69-71, 95-97) although tasks start tasks, call objects are
\* waited for while their call ends, and the group is used in several rounds.
THEOREM NobodyPanics == Spec => []GroupsInv
<1>1. IInv => GroupsInv
  BY DEF IInv, GroupsInv
<1> QED
  BY <1>1, Invariance, PTL

\* Wait of an ErrGroup returns when every task has ended, those included that
\* other tasks started, and returns the error the group has kept; there is one
\* if a task failed (errgroup.go:40-47).
THEOREM WaitsForAll == Spec => []WaitIsRight
<1>1. IInv => WaitIsRight
  <2> SUFFICES ASSUME IInv, NEW w \in Waiter, wpc[w] \in {"err", "returned"}
      PROVE  /\ \A t \in Task : tpc[t] \in {"new", "end"}
             /\ err = NoErr => \A t \in Task : terr[t] = NoErr
             /\ wpc[w] = "returned" => wret[w] = err
    BY DEF WaitIsRight
  <2>1. state[Group].v = 0 /\ (wpc[w] = "returned" => wret[w] = err)
    BY DEF IInv, Counts
  <2>2. \A t \in Task : tpc[t] \in {"new", "end"}
    BY <2>1, RunningIs
  <2>3. err = NoErr => \A t \in Task : terr[t] = NoErr
    BY <2>2 DEF IInv, OnceRight
  <2> QED
    BY <2>1, <2>2, <2>3
<1> QED
  BY <1>1, Invariance, PTL

\* Whoever returns from Do of a SingleFlightGroup has what the one execution of
\* fn for its key returned, and no two execute fn for a key
\* (singleflight.go:43-74).
THEOREM OneExecution == Spec => []SameResult
<1>1. IInv => SameResult
  <2> SUFFICES ASSUME IInv PROVE SameResult
    OBVIOUS
  <2>1. Flights /\ \A g \in Goroutine : sfpc[g] # "idle" => key[g] \in Key /\ m[key[g]] \in Cell
    BY Basics DEF Mine
  <2>2. ASSUME NEW g \in Goroutine, NEW h \in Goroutine, sfpc[g] \in {"fn", "done"},
               sfpc[h] \in {"fn", "done"}, key[g] = key[h]
        PROVE  g = h
    <3>1. g \in Leading(key[g]) /\ h \in Leading(key[g]) /\ key[g] \in Key
      BY <2>1, <2>2 DEF Leading
    <3> QED
      BY <2>1, <3>1 DEF Flights
  <2>3. ASSUME NEW g \in Goroutine, sfpc[g] = "returned"
        PROVE  ret[g].res # None /\ ret[g].res = val[Mine(g)]
    <3>1. /\ ret[g].res = val[Mine(g)] /\ state[Mine(g)].v = 0
          /\ key[g] \in Key /\ Mine(g) = m[key[g]] /\ Mine(g) \in Cell
      BY <2>1, <2>3 DEF Flights, Mine
    <3>2. None \notin Cell
      BY Basics
    <3>3. val[m[key[g]]] # None
      BY <2>1, <3>1, <3>2 DEF Flights
    <3> QED
      BY <3>1, <3>3
  <2> QED
    BY <2>2, <2>3 DEF SameResult
<1> QED
  BY <1>1, Invariance, PTL

\* The first error stays, whatever tasks fail at a time, and the context is
\* cancelled by whoever has set it or by a Wait, when every task that was started
\* has ended (errgroup.go:40-46, 57-64).
THEOREM FirstErrorWins == Spec => FirstErrorStays
<1>1. IInv /\ [Next]_vars =>
        [/\ err # NoErr => err' = err
         /\ cancelled' # cancelled => err # NoErr \/ \A t \in Task : tpc[t] \in {"new", "end"}]_egvars
  <2> SUFFICES ASSUME IInv, Next
      PROVE  \/ UNCHANGED egvars
             \/ /\ err # NoErr => err' = err
                /\ cancelled' # cancelled => err # NoErr \/ \A t \in Task : tpc[t] \in {"new", "end"}
    BY DEF vars, egvars, once, tasks, waiters
  <2>1. OnceRight
    BY Basics
  <2>2. ASSUME NEW t \in Task, SetErr(t) PROVE err = NoErr /\ UNCHANGED cancelled
    BY <2>1, <2>2 DEF SetErr, OnceRight
  <2>3. ASSUME NEW t \in Task, Cancel(t) PROVE err # NoErr /\ UNCHANGED err
    BY <2>1, <2>3 DEF Cancel, OnceRight
  <2>4. ASSUME NEW w \in Waiter, CancelAfterWait(w)
        PROVE  (\A t \in Task : tpc[t] \in {"new", "end"}) /\ UNCHANGED err
    <3>1. wpc[w] = "wait" /\ wgpc[w] = "idle" /\ UNCHANGED err
      BY <2>4 DEF CancelAfterWait
    <3>2. state[Group].v = 0
      BY <3>1 DEF IInv, Counts
    <3> QED
      BY <3>1, <3>2, RunningIs
  <2>5. ASSUME NEW g \in Goroutine, NEW t \in Task, Go(g, t) PROVE UNCHANGED <<err, cancelled>>
    BY <2>5 DEF Go
  <2>6. ASSUME NEW t \in Task,
               Return(t) \/ LoadDone(t) \/ DoSlow(t) \/ StoreDone(t) \/ UnlockOnce(t) \/ TaskDone(t)
        PROVE  UNCHANGED <<err, cancelled>>
    BY <2>6 DEF Return, LoadDone, DoSlow, StoreDone, UnlockOnce, TaskDone
  <2>7. ASSUME NEW w \in Waiter, BeginWait(w) \/ WaitReturns(w) PROVE UNCHANGED <<err, cancelled>>
    BY <2>7 DEF BeginWait, WaitReturns
  <2>8. ASSUME Restart PROVE UNCHANGED <<err, cancelled>>
    BY <2>8 DEF Restart, NextRound
  <2>9. ASSUME Finished PROVE UNCHANGED <<err, cancelled>>
    BY <2>9 DEF Finished, vars, egvars
  <2>10. ASSUME UNCHANGED egvars PROVE UNCHANGED <<err, cancelled>>
    BY <2>10 DEF egvars
  <2> QED
    BY <2>2, <2>3, <2>4, <2>5, <2>6, <2>7, <2>8, <2>9, <2>10
    DEF Next, Call, TaskStep, WaiterStep
<1> QED
  BY <1>1, Invariance, PTL DEF Spec, FirstErrorStays
=============================================================================
