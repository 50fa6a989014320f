---------------------------- MODULE ServerProofs ----------------------------
(***************************************************************************)
(* The worker pool is right for any connections, any workers and any       *)
(* MaxWorkersCount: its bookkeeping, the one way to reach a waiting        *)
(* worker, the binary search of clean, and the dispatcher it implements.   *)
(* The server keeps the pool's promises, and its own counters are right.   *)
(***************************************************************************)
EXTENDS Server, FiniteSetTheorems, FunctionTheorems, SequenceTheorems, TLAPS

-----------------------------------------------------------------------------
(***************************************************************************)
(* Induction.  The library's induction theorems are about an operator; the *)
(* provers can use one that is about a set.                                *)
(***************************************************************************)
\* Every set of natural numbers with a member has a least one.
LEMMA LeastNatural ==
  ASSUME NEW T \in SUBSET Nat, T # {}
  PROVE  \E n \in T : \A k \in T : n <= k
<1> DEFINE R == OpToRel(<, Nat)
<1>1. IsWellFoundedOn(R, Nat)
  BY NatLessThanWellFounded
<1>2. \A x, y \in Nat : y < x => <<y, x>> \in R
  BY DEF OpToRel
<1> HIDE DEF R
<1>3. \E x \in T : \A y \in T : ~ (<<y, x>> \in R)
  BY <1>1, WFMin
<1>4. PICK n \in T : \A k \in T : ~ (<<k, n>> \in R)
  BY <1>3
<1>5. \A k \in T : k \in Nat /\ ~ (k < n)
  BY <1>2, <1>4
<1> QED
  BY <1>5

\* What holds of 0, and of n + 1 if of n, holds of every natural number.
LEMMA Induction ==
  ASSUME NEW P, 0 \in P, \A n \in Nat : n \in P => n + 1 \in P
  PROVE  Nat \subseteq P
<1> SUFFICES ASSUME NEW x \in Nat, x \notin P PROVE FALSE
  OBVIOUS
<1>1. PICK n \in Nat \ P : \A k \in Nat \ P : n <= k
  BY LeastNatural
<1>2. n # 0 /\ n - 1 \in Nat /\ n - 1 \in P
  BY <1>1
<1> QED
  BY <1>1, <1>2

-----------------------------------------------------------------------------
(***************************************************************************)
(* Places.                                                                 *)
(***************************************************************************)
Positions(s, ch, m, n) == {i \in m .. n : s[i] = ch}

\* The positions of a channel in a piece of a sequence can be counted,
LEMMA PositionsFinite ==
  ASSUME NEW s, NEW ch, NEW m \in Int, NEW n \in Int
  PROVE  /\ IsFiniteSet(Positions(s, ch, m, n))
         /\ Cardinality(Positions(s, ch, m, n)) \in Nat
<1>1. IsFiniteSet(m .. n) /\ Positions(s, ch, m, n) \in SUBSET (m .. n)
  BY FS_Interval DEF Positions
<1>2. IsFiniteSet(Positions(s, ch, m, n))
  BY <1>1, FS_Subset
<1> QED
  BY <1>2, FS_CardinalityType

\* so its places in a sequence are a number,
LEMMA PlacesType ==
  ASSUME NEW s \in Seq(Chan), NEW ch
  PROVE  /\ Places(s, ch) = Cardinality(Positions(s, ch, 1, Len(s)))
         /\ Places(s, ch) \in Nat
<1>1. DOMAIN s = 1 .. Len(s) /\ Len(s) \in Nat
  OBVIOUS
<1>2. Places(s, ch) = Cardinality(Positions(s, ch, 1, Len(s)))
  BY <1>1 DEF Places, Positions
<1> QED
  BY <1>1, <1>2, PositionsFinite

LEMMA PlacesEmpty == \A ch : Places(<<>>, ch) = 0
<1> TAKE ch
<1>1. {i \in DOMAIN <<>> : <<>>[i] = ch} = {}
  OBVIOUS
<1> QED
  BY <1>1, FS_EmptySet DEF Places

\* those in a subsequence are the ones between its bounds,
LEMMA PlacesSubSeq ==
  ASSUME NEW s \in Seq(Chan), NEW ch, NEW m \in 1 .. Len(s) + 1, NEW n \in 0 .. Len(s)
  PROVE  /\ SubSeq(s, m, n) \in Seq(Chan)
         /\ Places(SubSeq(s, m, n), ch) = Cardinality(Positions(s, ch, m, n))
<1> DEFINE t == SubSeq(s, m, n)
           A == Positions(s, ch, m, n)
           B == {i \in DOMAIN t : t[i] = ch}
           f == [i \in B |-> m + i - 1]
<1>1. /\ t \in Seq(Chan)
      /\ Len(t) = IF m <= n THEN n - m + 1 ELSE 0
      /\ \A i \in 1 .. n - m + 1 : t[i] = s[m + i - 1]
  <2>1. \A i \in m .. n : s[i] \in Chan
    OBVIOUS
  <2> QED
    BY <2>1, SubSeqProperties
<1>2. DOMAIN t = 1 .. Len(t)
  BY <1>1
<1>3. \A i \in B : i \in 1 .. n - m + 1 /\ m + i - 1 \in A
  BY <1>1, <1>2 DEF Positions
<1>4. f \in [B -> A] /\ \A i, j \in B : f[i] = f[j] => i = j
  BY <1>3
<1>5. \A k \in A : \E i \in B : f[i] = k
  <2> TAKE k \in A
  <2>1. k - m + 1 \in B /\ m + (k - m + 1) - 1 = k
    BY <1>1, <1>2 DEF Positions
  <2> QED
    BY <2>1
<1>6. f \in Bijection(B, A)
  BY <1>4, <1>5, Fun_IsBij
<1>7. IsFiniteSet(B)
  <2> HIDE DEF t
  <2>1. Len(t) \in Int /\ B \in SUBSET (1 .. Len(t))
    BY <1>1, <1>2
  <2>2. IsFiniteSet(1 .. Len(t))
    BY <2>1, FS_Interval
  <2> QED
    BY <2>1, <2>2, FS_Subset
<1>8. ExistsBijection(B, A)
  BY <1>6 DEF ExistsBijection
<1>9. Cardinality(A) = Cardinality(B)
  BY <1>7, <1>8, FS_Bijection
<1> QED
  BY <1>1, <1>9 DEF Places

\* and a sequence cut in two has the places of both parts.
LEMMA PlacesSplit ==
  ASSUME NEW s \in Seq(Chan), NEW ch, NEW n \in 0 .. Len(s)
  PROVE  Places(s, ch) = Places(SubSeq(s, 1, n), ch) + Places(SubSeq(s, n + 1, Len(s)), ch)
<1> DEFINE A == Positions(s, ch, 1, n)
           B == Positions(s, ch, n + 1, Len(s))
<1>1. Positions(s, ch, 1, Len(s)) = A \cup B /\ A \cap B = {}
  BY DEF Positions
<1>2. IsFiniteSet(A) /\ IsFiniteSet(B)
  BY PositionsFinite
<1>3. Cardinality(A) \in Nat /\ Cardinality(B) \in Nat
  BY PositionsFinite
<1>4. Cardinality(A \cup B) = Cardinality(A) + Cardinality(B)
  <2> HIDE DEF A, B
  <2>1. Cardinality(A \cap B) = 0
    BY <1>1, FS_EmptySet
  <2>2. Cardinality(A \cup B) = Cardinality(A) + Cardinality(B) - Cardinality(A \cap B)
    BY <1>2, FS_Union
  <2> QED
    BY <1>3, <2>1, <2>2
<1>5. Places(SubSeq(s, 1, n), ch) = Cardinality(A)
  BY PlacesSubSeq
<1>6. Places(SubSeq(s, n + 1, Len(s)), ch) = Cardinality(B)
  BY PlacesSubSeq
<1> QED
  BY <1>1, <1>4, <1>5, <1>6, PlacesType

LEMMA SubSeqOne ==
  ASSUME NEW s \in Seq(Chan), NEW k \in 1 .. Len(s)
  PROVE  SubSeq(s, k, k) = <<s[k]>>
<1>1. \A i \in k .. k : s[i] \in Chan
  OBVIOUS
<1> DEFINE u == SubSeq(s, k, k)
           v == <<s[k]>>
<1>2. u \in Seq(Chan) /\ Len(u) = 1 /\ u[1] = s[k]
  BY <1>1, SubSeqProperties
<1>3. v \in Seq(Chan) /\ Len(v) = 1 /\ v[1] = s[k]
  BY <1>1
<1> HIDE DEF u, v
<1>4. \A i \in 1 .. Len(u) : u[i] = v[i]
  BY <1>2, <1>3
<1>5. u = v
  BY <1>2, <1>3, <1>4, SeqEqual
<1> QED
  BY <1>5 DEF u, v

LEMMA PlacesOne ==
  ASSUME NEW x \in Chan, NEW ch
  PROVE  Places(<<x>>, ch) = IF x = ch THEN 1 ELSE 0
<1>1. {i \in DOMAIN <<x>> : <<x>>[i] = ch} = IF x = ch THEN {1} ELSE {}
  OBVIOUS
<1> QED
  BY <1>1, FS_EmptySet, FS_Singleton DEF Places

\* Appending a channel gives it one place more.
LEMMA PlacesAppend ==
  ASSUME NEW s \in Seq(Chan), NEW x \in Chan, NEW ch
  PROVE  Places(Append(s, x), ch) = Places(s, ch) + (IF x = ch THEN 1 ELSE 0)
<1> DEFINE t == Append(s, x)
<1>1. t \in Seq(Chan) /\ Len(t) = Len(s) + 1 /\ Len(s) \in 0 .. Len(t)
  OBVIOUS
<1>2. SubSeq(t, 1, Len(s)) = s
  <2>1. SubSeq(t, 1, Len(s)) \in Seq(Chan) /\ Len(SubSeq(t, 1, Len(s))) = Len(s)
        /\ \A i \in 1 .. Len(s) : SubSeq(t, 1, Len(s))[i] = s[i]
    BY <1>1
  <2> QED
    BY <2>1, SeqEqual
<1>3. SubSeq(t, Len(s) + 1, Len(t)) = <<x>>
  <2>1. Len(t) \in 1 .. Len(t) /\ t[Len(t)] = x
    BY <1>1
  <2>2. SubSeq(t, Len(t), Len(t)) = <<t[Len(t)]>>
    BY <1>1, <2>1, SubSeqOne
  <2> QED
    BY <1>1, <2>1, <2>2
<1> HIDE DEF t
<1>4. Places(t, ch) = Places(SubSeq(t, 1, Len(s)), ch) + Places(SubSeq(t, Len(s) + 1, Len(t)), ch)
  BY <1>1, PlacesSplit
<1>5. Places(t, ch) = Places(s, ch) + Places(<<x>>, ch)
  BY <1>2, <1>3, <1>4
<1> QED
  BY <1>5, PlacesOne DEF t

\* Taking the last element, or the first.
LEMMA PlacesEnds ==
  ASSUME NEW s \in Seq(Chan), s # <<>>, NEW ch
  PROVE  /\ Places(s, ch) = Places(SubSeq(s, 1, Len(s) - 1), ch)
                            + (IF s[Len(s)] = ch THEN 1 ELSE 0)
         /\ Places(s, ch) = Places(Tail(s), ch) + (IF Head(s) = ch THEN 1 ELSE 0)
<1>1. Len(s) \in Nat \ {0} /\ s[1] \in Chan /\ s[Len(s)] \in Chan /\ Head(s) = s[1]
  OBVIOUS
<1>2. SubSeq(s, Len(s), Len(s)) = <<s[Len(s)]>> /\ SubSeq(s, 1, 1) = <<s[1]>>
  BY <1>1, SubSeqOne
<1>3. Tail(s) = SubSeq(s, 2, Len(s)) /\ Tail(s) \in Seq(Chan)
  BY TailIsSubSeq
<1>4. Places(s, ch) = Places(SubSeq(s, 1, Len(s) - 1), ch) + Places(SubSeq(s, Len(s), Len(s)), ch)
  <2>1. Len(s) - 1 \in 0 .. Len(s) /\ Len(s) - 1 + 1 = Len(s)
    BY <1>1
  <2> QED
    BY <2>1, PlacesSplit
<1>5. Places(s, ch) = Places(SubSeq(s, 1, 1), ch) + Places(SubSeq(s, 2, Len(s)), ch)
  <2>1. 1 \in 0 .. Len(s) /\ 1 + 1 = 2
    BY <1>1
  <2> QED
    BY <2>1, PlacesSplit
<1>6. Places(Tail(s), ch) \in Nat
  BY <1>3, PlacesType
<1>7. Places(<<s[1]>>, ch) = IF s[1] = ch THEN 1 ELSE 0
  BY <1>1, PlacesOne
<1>8. Places(<<s[Len(s)]>>, ch) = IF s[Len(s)] = ch THEN 1 ELSE 0
  BY <1>1, PlacesOne
<1>9. Places(s, ch) = Places(SubSeq(s, 1, Len(s) - 1), ch) + Places(<<s[Len(s)]>>, ch)
  BY <1>2, <1>4
<1>10. Places(s, ch) = Places(<<s[1]>>, ch) + Places(Tail(s), ch)
  BY <1>2, <1>3, <1>5
<1>11. Places(s, ch) = Places(Tail(s), ch) + (IF Head(s) = ch THEN 1 ELSE 0)
  BY <1>1, <1>6, <1>7, <1>10
<1> QED
  BY <1>8, <1>9, <1>11

-----------------------------------------------------------------------------
(***************************************************************************)
(* The binary search of clean: the function that CleanUpTo defines exists, *)
(* and what it returns.                                                    *)
(***************************************************************************)
Bounds(s) == (0 .. Len(s)) \X (-1 .. Len(s) - 1)

\* One turn of the loop, if f is what the rest of it returns.
Turn(s, t, f, b) ==
  LET mid == (b[1] + b[2]) \div 2 IN
  IF b[1] > b[2] THEN b[2]
  ELSE IF Expired(t, s[mid + 1]) THEN f[<<mid + 1, b[2]>>] ELSE f[<<b[1], mid - 1>>]

LEMMA TurnIs ==
  ASSUME NEW s \in Seq(Chan), NEW t, NEW b \in Bounds(s)
  PROVE  /\ b[1] > b[2] => \A g : Turn(s, t, g, b) = b[2]
         /\ b[1] <= b[2] =>
              \E m \in b[1] .. b[2] :
                /\ <<m + 1, b[2]>> \in Bounds(s) /\ <<b[1], m - 1>> \in Bounds(s)
                /\ \A g : Turn(s, t, g, b) = IF Expired(t, s[m + 1]) THEN g[<<m + 1, b[2]>>]
                                                                 ELSE g[<<b[1], m - 1>>]
<1>1. b[1] \in 0 .. Len(s) /\ b[2] \in -1 .. Len(s) - 1 /\ Len(s) \in Nat
  BY DEF Bounds
<1>2. ASSUME b[1] > b[2] PROVE \A g : Turn(s, t, g, b) = b[2]
  BY <1>2, Zenon DEF Turn
<1>3. ASSUME b[1] <= b[2]
      PROVE  \E m \in b[1] .. b[2] :
                /\ <<m + 1, b[2]>> \in Bounds(s) /\ <<b[1], m - 1>> \in Bounds(s)
                /\ \A g : Turn(s, t, g, b) = IF Expired(t, s[m + 1]) THEN g[<<m + 1, b[2]>>]
                                                                 ELSE g[<<b[1], m - 1>>]
  <2> DEFINE m == (b[1] + b[2]) \div 2
  <2>1. m \in b[1] .. b[2]
    BY <1>1, <1>3
  <2>2. ~ (b[1] > b[2])
    BY <1>1, <1>3
  <2>3. \A g : Turn(s, t, g, b) = IF Expired(t, s[m + 1]) THEN g[<<m + 1, b[2]>>]
                                                      ELSE g[<<b[1], m - 1>>]
    BY <2>2, Zenon DEF Turn
  <2> HIDE DEF m
  <2>4. <<m + 1, b[2]>> \in Bounds(s) /\ <<b[1], m - 1>> \in Bounds(s)
    BY <1>1, <2>1 DEF Bounds
  <2> QED
    BY <2>1, <2>3, <2>4
<1> QED
  BY <1>2, <1>3

\* The recursive definition in CleanUpTo is that of a function.
LEMMA SearchExists ==
  ASSUME NEW s \in Seq(Chan), NEW t
  PROVE  \E f : f = [b \in Bounds(s) |-> Turn(s, t, f, b)]
<1> DEFINE B == Bounds(s)
           Solves(f, n) == \A b \in B : b[2] - b[1] < n => f[b] = Turn(s, t, f, b)
           P == {n \in Nat : \E f \in [B -> Int] : Solves(f, n)}
<1>1. \A b \in B : b[1] \in 0 .. Len(s) /\ b[2] \in -1 .. Len(s) - 1
  BY DEF Bounds
<1>2. Len(s) \in Nat
  OBVIOUS
<1>3. 0 \in P
  <2> DEFINE f == [b \in B |-> b[2]]
  <2>1. f \in [B -> Int]
    BY <1>1
  <2>2. Solves(f, 0)
    <3> SUFFICES ASSUME NEW b \in B, b[2] - b[1] < 0 PROVE f[b] = Turn(s, t, f, b)
      OBVIOUS
    <3>1. b[1] > b[2] /\ f[b] = b[2]
      BY <1>1
    <3> QED
      BY <3>1, TurnIs
  <2> QED
    BY <2>1, <2>2
<1>4. ASSUME NEW n \in Nat, n \in P PROVE n + 1 \in P
  <2>1. PICK f \in [B -> Int] : Solves(f, n)
    BY <1>4
  <2> DEFINE g == [b \in B |-> IF b[2] - b[1] < n THEN f[b] ELSE Turn(s, t, f, b)]
  <2>2. \A b \in B : b[2] - b[1] < n + 1 => Turn(s, t, g, b) = Turn(s, t, f, b)
    <3> SUFFICES ASSUME NEW b \in B, b[2] - b[1] < n + 1
                 PROVE  Turn(s, t, g, b) = Turn(s, t, f, b)
      OBVIOUS
    <3>1. CASE b[1] > b[2]
      BY <3>1, TurnIs
    <3>2. CASE b[1] <= b[2]
      <4>1. PICK m \in b[1] .. b[2] :
              /\ <<m + 1, b[2]>> \in B /\ <<b[1], m - 1>> \in B
              /\ \A h : Turn(s, t, h, b) = IF Expired(t, s[m + 1]) THEN h[<<m + 1, b[2]>>]
                                                               ELSE h[<<b[1], m - 1>>]
        BY ZenonT(60), <3>2, TurnIs
      <4>2. b[2] - (m + 1) < n /\ (m - 1) - b[1] < n
        <5>1. m \in b[1] .. b[2]
          OBVIOUS
        <5>2. b[1] \in Int /\ b[2] \in Int /\ n \in Nat /\ b[2] - b[1] < n + 1
          BY <1>1
        <5> HIDE DEF B, g, Solves
        <5> QED
          BY <5>1, <5>2
      <4>3. g[<<m + 1, b[2]>>] = f[<<m + 1, b[2]>>] /\ g[<<b[1], m - 1>>] = f[<<b[1], m - 1>>]
        BY <4>1, <4>2
      <4> HIDE DEF g
      <4> QED
        BY <4>1, <4>3
    <3> QED
      BY <1>1, <3>1, <3>2
  <2>3. g \in [B -> Int]
    <3> SUFFICES ASSUME NEW b \in B PROVE Turn(s, t, f, b) \in Int
      OBVIOUS
    <3>1. CASE b[1] > b[2]
      BY <1>1, <3>1, TurnIs
    <3>2. CASE b[1] <= b[2]
      <4>1. PICK m \in b[1] .. b[2] :
              /\ <<m + 1, b[2]>> \in B /\ <<b[1], m - 1>> \in B
              /\ \A h : Turn(s, t, h, b) = IF Expired(t, s[m + 1]) THEN h[<<m + 1, b[2]>>]
                                                               ELSE h[<<b[1], m - 1>>]
        BY ZenonT(60), <3>2, TurnIs
      <4>2. f[<<m + 1, b[2]>>] \in Int /\ f[<<b[1], m - 1>>] \in Int
        BY <2>1, <4>1
      <4> QED
        BY <4>1, <4>2, Zenon
    <3> QED
      BY <1>1, <3>1, <3>2
  <2>4. Solves(g, n + 1)
    <3> SUFFICES ASSUME NEW b \in B, b[2] - b[1] < n + 1 PROVE g[b] = Turn(s, t, g, b)
      OBVIOUS
    <3>1. Turn(s, t, g, b) = Turn(s, t, f, b)
      BY <2>2
    <3>2. g[b] = Turn(s, t, f, b)
      BY <2>1
    <3> QED
      BY <3>1, <3>2
  <2> HIDE DEF g, Solves
  <2> QED
    BY <2>3, <2>4
<1> HIDE DEF P
<1>5. Nat \subseteq P
  BY <1>3, <1>4, Induction
<1>6. PICK f \in [B -> Int] : Solves(f, Len(s) + 1)
  <2> HIDE DEF Solves, B
  <2>1. Len(s) + 1 \in P
    BY <1>2, <1>5
  <2> QED
    BY <2>1 DEF P
<1>7. \A b \in B : f[b] = Turn(s, t, f, b)
  <2> TAKE b \in B
  <2>1. b[2] - b[1] < Len(s) + 1
    BY <1>1, <1>2
  <2> QED
    BY <1>6, <2>1
<1>8. f = [b \in B |-> Turn(s, t, f, b)]
  BY <1>6, <1>7
<1> QED
  BY <1>8

\* The loop of clean keeps an expired worker left of l and one that is not right of
\* r, whatever the order of the list; it ends where the two meet.
LEMMA SearchFinds ==
  ASSUME NEW s \in Seq(Chan), NEW t, NEW f, \A b \in Bounds(s) : f[b] = Turn(s, t, f, b),
         NEW n, n = f[<<0, Len(s) - 1>>] + 1
  PROVE  /\ n \in 0 .. Len(s)
         /\ n > 0 => Expired(t, s[n])
         /\ n < Len(s) => ~Expired(t, s[n + 1])
<1> DEFINE B == Bounds(s)
           Within(b) ==   \* what the loop keeps
             /\ b[1] <= b[2] + 1
             /\ b[1] > 0 => Expired(t, s[b[1]])
             /\ b[2] + 1 < Len(s) => ~Expired(t, s[b[2] + 2])
           Found(b) == /\ f[b] + 1 > 0 => Expired(t, s[f[b] + 1])
                       /\ f[b] + 1 < Len(s) => ~Expired(t, s[f[b] + 2])
           Right(b) == f[b] \in -1 .. Len(s) - 1 /\ (Within(b) => Found(b))
           P == {k \in Nat : \A b \in B : b[2] - b[1] < k => Right(b)}
<1>1. \A b \in B : b[1] \in 0 .. Len(s) /\ b[2] \in -1 .. Len(s) - 1
  BY DEF Bounds
<1>2. Len(s) \in Nat
  OBVIOUS
<1>3. \A b \in B : f[b] = Turn(s, t, f, b)
  OBVIOUS
<1>4. \A b \in B : b[1] > b[2] => Right(b)
  <2> SUFFICES ASSUME NEW b \in B, b[1] > b[2] PROVE Right(b)
    OBVIOUS
  <2>1. Turn(s, t, f, b) = b[2]
    BY Zenon DEF Turn
  <2>2. f[b] = b[2]
    BY <1>3, <2>1
  <2>3. ASSUME Within(b) PROVE Found(b)
    <3>1. b[2] + 1 = b[1]
      BY <1>1, <2>3
    <3> QED
      BY <2>2, <2>3, <3>1
  <2> QED
    BY <1>1, <2>2, <2>3
<1>5. 0 \in P
  BY <1>1, <1>4
<1>6. ASSUME NEW k \in Nat, k \in P PROVE k + 1 \in P
  <2> SUFFICES ASSUME NEW b \in B, b[2] - b[1] < k + 1, b[1] <= b[2] PROVE Right(b)
    BY SMTT(30), <1>1, <1>4
  <2>1. PICK m \in b[1] .. b[2] :
          /\ <<m + 1, b[2]>> \in B /\ <<b[1], m - 1>> \in B
          /\ \A h : Turn(s, t, h, b) = IF Expired(t, s[m + 1]) THEN h[<<m + 1, b[2]>>]
                                                           ELSE h[<<b[1], m - 1>>]
    BY TurnIs
  <2>2. b[2] - (m + 1) < k /\ (m - 1) - b[1] < k /\ m + 1 > 0 /\ (m - 1) + 2 = m + 1
    BY SMTT(30), <1>1, <2>1
  <2>3. Right(<<m + 1, b[2]>>) /\ Right(<<b[1], m - 1>>)
    <3> HIDE DEF Right
    <3> QED
      BY <1>6, <2>1, <2>2
  <2>4. CASE Expired(t, s[m + 1])
    <3>1. f[b] = f[<<m + 1, b[2]>>]
      BY <1>3, <2>1, <2>4
    <3>2. ASSUME Within(b) PROVE Within(<<m + 1, b[2]>>)
      BY SMTT(30), <1>1, <2>1, <2>4, <3>2
    <3> HIDE DEF Within
    <3> QED
      BY <2>3, <3>1, <3>2
  <2>5. CASE ~Expired(t, s[m + 1])
    <3>1. f[b] = f[<<b[1], m - 1>>]
      BY <1>3, <2>1, <2>5
    <3>2. ASSUME Within(b) PROVE Within(<<b[1], m - 1>>)
      BY SMTT(30), <1>1, <2>1, <2>2, <2>5, <3>2
    <3> HIDE DEF Within
    <3> QED
      BY <2>3, <3>1, <3>2
  <2> QED
    BY <2>4, <2>5
<1> HIDE DEF P
<1>7. Nat \subseteq P
  BY <1>5, <1>6, Induction
<1> DEFINE b == <<0, Len(s) - 1>>
<1>8. b \in B /\ b[1] = 0 /\ b[2] = Len(s) - 1
  BY <1>2 DEF Bounds
<1>9. Right(b)
  <2> HIDE DEF b, Right, B
  <2>1. Len(s) \in P /\ b[2] - b[1] < Len(s)
    BY <1>2, <1>7, <1>8
  <2> QED
    BY <1>8, <2>1 DEF P
<1>10. Within(b)
  BY <1>2
<1> HIDE DEF Within
<1>11. f[b] \in -1 .. Len(s) - 1 /\ Found(b) /\ n = f[b] + 1
  BY <1>9, <1>10
<1> HIDE DEF b
<1>12. \A v : v \in -1 .. Len(s) - 1 => v + 1 \in 0 .. Len(s) /\ v + 2 = (v + 1) + 1
  BY <1>2
<1> QED
  BY <1>11, <1>12

\* The index that clean's loop finds is in range, and where an expired worker
\* meets one that is not.
LEMMA CleanUpToIs ==
  ASSUME NEW s \in Seq(Chan), NEW t
  PROVE  /\ CleanUpTo(s, t) \in 0 .. Len(s)
         /\ CleanUpTo(s, t) > 0 => Expired(t, s[CleanUpTo(s, t)])
         /\ CleanUpTo(s, t) < Len(s) => ~Expired(t, s[CleanUpTo(s, t) + 1])
<1> DEFINE f == CHOOSE f : f = [b \in Bounds(s) |-> Turn(s, t, f, b)]
<1>1. CleanUpTo(s, t) = f[<<0, Len(s) - 1>>] + 1
  BY Zenon DEF CleanUpTo, Bounds, Turn
<1>2. \A b \in Bounds(s) : f[b] = Turn(s, t, f, b)
  <2>1. f = [b \in Bounds(s) |-> Turn(s, t, f, b)]
    BY SearchExists, Zenon
  <2> HIDE DEF f
  <2> QED
    BY <2>1, Zenon
<1> HIDE DEF f
<1> QED
  BY <1>1, <1>2, SearchFinds, Zenon

\* Whatever the times of the workers in ready and their order, clean cuts the list
\* between an expired worker and one that has not expired; if the list is in order,
\* it retires exactly the expired workers (workerpool.go:138-148).
THEOREM BinarySearchCuts == TypeOK => CleanCutsRight
<1> SUFFICES ASSUME TypeOK, NEW t \in -MaxIdle .. MaxTime, NEW n, n = CleanUpTo(ready, t)
             PROVE  /\ n > 0 => t > lastUse[ready[n]]
                    /\ n < Len(ready) => t <= lastUse[ready[n + 1]]
                    /\ InOrderOfUse => n = Cardinality({i \in DOMAIN ready : t > lastUse[ready[i]]})
  BY DEF CleanCutsRight
<1>1. ready \in Seq(Chan) /\ DOMAIN ready = 1 .. Len(ready) /\ Len(ready) \in Nat
  BY DEF TypeOK
<1>2. t \in Int /\ \A i \in DOMAIN ready : lastUse[ready[i]] \in Int
  BY <1>1, WorkerPoolAssumption DEF TypeOK
<1>3. /\ n \in 0 .. Len(ready)
      /\ n > 0 => t > lastUse[ready[n]]
      /\ n < Len(ready) => ~(t > lastUse[ready[n + 1]])
  BY <1>1, CleanUpToIs DEF Expired
<1>4. ASSUME InOrderOfUse
      PROVE  n = Cardinality({i \in DOMAIN ready : t > lastUse[ready[i]]})
  <2>1. ASSUME NEW i \in DOMAIN ready PROVE t > lastUse[ready[i]] <=> i <= n
    <3>1. i <= n => lastUse[ready[i]] <= lastUse[ready[n]] /\ n \in DOMAIN ready
      BY <1>1, <1>2, <1>3, <1>4 DEF InOrderOfUse
    <3>2. i > n => lastUse[ready[n + 1]] <= lastUse[ready[i]] /\ n + 1 \in DOMAIN ready
      BY <1>1, <1>2, <1>3, <1>4 DEF InOrderOfUse
    <3>3. i \in 1 .. Len(ready) /\ lastUse[ready[i]] \in Int
      BY <1>1, <1>2
    <3>4. CASE i <= n
      <4>1. n > 0 /\ lastUse[ready[n]] \in Int
        BY <1>2, <1>3, <3>1, <3>3, <3>4
      <4> QED
        BY <1>2, <1>3, <3>1, <3>3, <3>4, <4>1
    <3>5. CASE i > n
      <4>1. n < Len(ready) /\ lastUse[ready[n + 1]] \in Int
        BY <1>1, <1>2, <1>3, <3>2, <3>3, <3>5
      <4> QED
        BY <1>2, <1>3, <3>2, <3>3, <3>5, <4>1
    <3> QED
      BY <1>3, <3>3, <3>4, <3>5
  <2>2. {i \in DOMAIN ready : t > lastUse[ready[i]]} = 1 .. n
    BY <1>1, <1>3, <2>1
  <2>3. Cardinality(1 .. n) = n
    BY <1>3, FS_Interval
  <2> QED
    BY <2>2, <2>3
<1>5. n < Len(ready) => t <= lastUse[ready[n + 1]]
  BY <1>1, <1>2, <1>3
<1> QED
  BY <1>3, <1>4, <1>5

-----------------------------------------------------------------------------
(***************************************************************************)
(* The inductive invariant.                                                *)
(***************************************************************************)
Alive == {ch \in Chan : wpc[ch] \in InUse}

IInv == PoolInv /\ OneHandle /\ IsFiniteSet(Alive)

\* What the types need: workersCount stays between 0 and Max.
LEMMA AliveCount ==
  ASSUME IInv
  PROVE  /\ Cardinality(Alive) \in Nat
         /\ workersCount = Cardinality(Alive) + (IF apc = "spawn" THEN 1 ELSE 0)
         /\ \A ch \in Chan : wpc[ch] \in InUse => Cardinality(Alive) >= 1
<1>1. IsFiniteSet(Alive) /\ Cardinality(Alive) \in Nat
  BY FS_CardinalityType DEF IInv
<1>2. \A ch \in Alive : Cardinality(Alive) # 0
  BY <1>1, FS_EmptySet
<1>3. workersCount = Cardinality(Alive) + (IF apc = "spawn" THEN 1 ELSE 0)
  BY DEF IInv, PoolInv, WorkersCounted, Alive
<1>4. \A ch \in Chan : wpc[ch] \in InUse => ch \in Alive
  BY DEF Alive
<1> QED
  BY <1>1, <1>2, <1>3, <1>4

\* A send keeps the types of the channels and of the workers.
LEMMA SendType ==
  ASSUME TypeOK, NEW ch \in Chan, NEW x \in Conn \cup {Nil}, SendTo(ch, x)
  PROVE  /\ buf' \in [Chan -> Seq(Conn \cup {Nil})]
         /\ \A k \in Chan : Len(buf'[k]) <= workerChanCap
         /\ wpc' \in [Chan -> InUse \cup {"none", "put"}]
         /\ wconn' \in [Chan -> Conn \cup {Nil}]
         /\ lastUse' \in [Chan -> 0 .. MaxTime]
<1>1. CASE workerChanCap = 0 /\ Deliver(ch, x) /\ UNCHANGED <<buf, lastUse>>
  BY <1>1 DEF TypeOK, Deliver, InUse
<1>2. CASE Len(buf[ch]) < workerChanCap /\ buf' = [buf EXCEPT ![ch] = Append(@, x)]
           /\ UNCHANGED workers
  <2>1. Append(buf[ch], x) \in Seq(Conn \cup {Nil})
        /\ Len(Append(buf[ch], x)) = Len(buf[ch]) + 1 /\ Len(buf[ch]) \in Nat
    BY DEF TypeOK
  <2>2. workerChanCap \in Int
    BY DEF TypeOK
  <2> QED
    BY <1>2, <2>1, <2>2 DEF TypeOK, workers
<1> QED
  BY <1>1, <1>2 DEF SendTo

\* The limits hold after a step: workersCount stays between 0 and Max.
LEMMA TypeStep == IInv /\ [Next]_vars => TypeOK'
<1> SUFFICES ASSUME IInv, [Next]_vars PROVE TypeOK'
  OBVIOUS
<1> USE WorkerPoolAssumption DEF pool, workers, acceptor, cleaner
<1>1. /\ TypeOK /\ InHand /\ [Next]_vars
      /\ workersCount \in Nat /\ \A ch \in Chan : wpc[ch] \in InUse => workersCount >= 1
  BY AliveCount DEF IInv, PoolInv, TypeOK
<1>2. ASSUME NEW c \in Conn, Serve(c) PROVE TypeOK'
  BY <1>2, <1>1 DEF TypeOK, InUse, Serve
<1>3. ASSUME TakeReady PROVE TypeOK'
  BY SMTT(30), <1>3, <1>1 DEF TypeOK, InUse, TakeReady
<1>4. ASSUME CreateWorker PROVE TypeOK'
  BY <1>4, <1>1 DEF TypeOK, InUse, CreateWorker, MayCreate
<1>5. ASSUME Refuse PROVE TypeOK'
  BY <1>5, <1>1 DEF TypeOK, InUse, Refuse, Answer
<1>6. ASSUME Spawn PROVE TypeOK'
  BY <1>6, <1>1 DEF TypeOK, InUse, Spawn
<1>7. ASSUME Send PROVE TypeOK'
  <2>1. ach \in Chan /\ aconn \in Conn \cup {Nil} /\ outcome' = [outcome EXCEPT ![aconn] = "offered"]
    BY <1>7, <1>1 DEF TypeOK, InHand, Send, Answer
  <2>2. SendTo(ach, aconn)
    BY <1>7 DEF Send
  <2> QED
    BY <1>7, <1>1, <2>1, <2>2, SendType DEF TypeOK, Send
<1>8. ASSUME StopClose PROVE TypeOK'
  BY <1>8, <1>1 DEF TypeOK, InUse, StopClose
<1>9. ASSUME StopLock PROVE TypeOK'
  BY <1>9, <1>1 DEF TypeOK, InUse, StopLock
<1>10. ASSUME StopSend PROVE TypeOK'
  <2>1. Head(ready) \in Chan /\ Tail(ready) \in Seq(Chan)
    BY <1>10, <1>1 DEF TypeOK, InHand, StopSend
  <2>2. SendTo(Head(ready), Nil)
    BY <1>10 DEF StopSend
  <2> QED
    BY <1>10, <1>1, <2>1, <2>2, SendType DEF TypeOK, StopSend
<1>11. ASSUME StopUnlock PROVE TypeOK'
  BY <1>11, <1>1 DEF TypeOK, InUse, StopUnlock
<1>12. ASSUME NEW ch \in Chan, Receive(ch) PROVE TypeOK'
  <2>1. Head(buf[ch]) \in Conn \cup {Nil} /\ Tail(buf[ch]) \in Seq(Conn \cup {Nil})
        /\ Len(Tail(buf[ch])) = Len(buf[ch]) - 1 /\ Len(buf[ch]) \in Nat
    BY <1>12, <1>1, HeadTailProperties DEF TypeOK, Receive
  <2>2. workerChanCap \in Int /\ \A k \in Chan : Len(buf'[k]) <= workerChanCap
    BY <1>12, <1>1, <2>1 DEF TypeOK, Receive
  <2> QED
    BY <1>12, <1>1, <2>1, <2>2 DEF TypeOK, Receive, Deliver, InUse
<1>13. ASSUME NEW ch \in Chan, WorkerFuncReturns(ch) PROVE TypeOK'
  BY <1>13, <1>1 DEF TypeOK, InUse, WorkerFuncReturns
<1>14. ASSUME NEW ch \in Chan, Stamp(ch) PROVE TypeOK'
  BY <1>14, <1>1 DEF TypeOK, InUse, Stamp
<1>15. ASSUME NEW ch \in Chan, Release(ch) PROVE TypeOK'
  <2>1. Append(ready, ch) \in Seq(Chan)
    BY <1>1 DEF TypeOK
  <2> QED
    BY ZenonT(60), <1>15, <1>1, <2>1 DEF TypeOK, Release, InUse
<1>16. ASSUME NEW ch \in Chan, Exit(ch) PROVE TypeOK'
  BY <1>16, <1>1 DEF TypeOK, InUse, Exit
<1>17. ASSUME NEW ch \in Chan, Put(ch) PROVE TypeOK'
  BY <1>17, <1>1 DEF TypeOK, InUse, Put
<1>18. ASSUME CleanStart PROVE TypeOK'
  BY <1>18, <1>1 DEF TypeOK, InUse, CleanStart
<1>19. ASSUME CleanLocked PROVE TypeOK'
  <2> DEFINE n == CleanUpTo(ready, crit)
  <2>1. n \in 0 .. Len(ready) /\ ready \in Seq(Chan) /\ Len(ready) \in Nat
    BY <1>1, CleanUpToIs DEF TypeOK
  <2>2. scratch' = SubSeq(ready, 1, n) /\ ready' = SubSeq(ready, n + 1, Len(ready))
    BY <1>19 DEF CleanLocked, Kept
  <2> HIDE DEF n
  <2>3. scratch' \in Seq(Chan) /\ ready' \in Seq(Chan)
    BY <2>1, <2>2, PlacesSubSeq
  <2> QED
    BY <1>19, <1>1, <2>3 DEF TypeOK, CleanLocked
<1>20. ASSUME CleanSend PROVE TypeOK'
  <2>1. Head(scratch) \in Chan /\ Tail(scratch) \in Seq(Chan)
    BY <1>20, <1>1 DEF TypeOK, InHand, CleanSend
  <2>2. SendTo(Head(scratch), Nil)
    BY <1>20 DEF CleanSend
  <2> QED
    BY <1>20, <1>1, <2>1, <2>2, SendType DEF TypeOK, CleanSend
<1>21. ASSUME CleanAgain PROVE TypeOK'
  BY <1>21, <1>1 DEF TypeOK, InUse, CleanAgain
<1>22. ASSUME Tick PROVE TypeOK'
  BY <1>22, <1>1 DEF TypeOK, InUse, Tick
<1>23. CASE UNCHANGED vars
  BY <1>23, <1>1 DEF TypeOK, vars
<1> QED
  BY <1>1, <1>2, <1>3, <1>4, <1>5, <1>6, <1>7, <1>8, <1>9, <1>10, <1>11, <1>12, <1>13,
     <1>14, <1>15, <1>16, <1>17, <1>18, <1>19, <1>20, <1>21, <1>22, <1>23 DEF Next,
     Acceptor, WorkerLoop, Cleaner

\* A step that starts no worker and ends none leaves the count alone.
LEMMA CountStep ==
  IInv /\ [Next]_vars =>
    /\ IsFiniteSet(Alive')
    /\ workersCount' = Cardinality(Alive') + (IF apc' = "spawn" THEN 1 ELSE 0)
<1> DEFINE SameCount == /\ IsFiniteSet(Alive')
                        /\ workersCount' = Cardinality(Alive') + (IF apc' = "spawn" THEN 1 ELSE 0)
           Same == Alive' = Alive /\ workersCount' = workersCount /\ (apc' = "spawn" <=> apc = "spawn")
<1> SUFFICES ASSUME IInv, [Next]_vars PROVE SameCount
  OBVIOUS
<1> USE DEF pool, workers, acceptor, cleaner
<1>1. /\ TypeOK /\ InHand /\ [Next]_vars /\ IsFiniteSet(Alive) /\ Cardinality(Alive) \in Nat
      /\ workersCount = Cardinality(Alive) + (IF apc = "spawn" THEN 1 ELSE 0)
  BY AliveCount DEF IInv, PoolInv
<1>2. Next => Same \/ CreateWorker \/ Spawn \/ \E ch \in Chan : Exit(ch)
  <2>1. ASSUME NEW c \in Conn, Serve(c) PROVE Same
    BY <2>1, <1>1 DEF Alive, TypeOK, InUse, Serve
  <2>2. ASSUME TakeReady PROVE Same
    BY <2>2, <1>1 DEF Alive, TypeOK, InUse, TakeReady
  <2>3. ASSUME Refuse PROVE Same
    BY <2>3, <1>1 DEF Alive, TypeOK, InUse, Refuse, Answer
  <2>4. ASSUME Send PROVE Same
    <3>1. ach \in Chan /\ SendTo(ach, aconn)
      BY <2>4, <1>1 DEF TypeOK, InHand, Send
    <3> QED
      BY <2>4, <1>1, <3>1 DEF Alive, TypeOK, InUse, SendTo, Deliver, Send
  <2>5. ASSUME StopClose PROVE Same
    BY <2>5, <1>1 DEF Alive, TypeOK, InUse, StopClose
  <2>6. ASSUME StopLock PROVE Same
    BY <2>6, <1>1 DEF Alive, TypeOK, InUse, StopLock
  <2>7. ASSUME StopSend PROVE Same
    <3>1. Head(ready) \in Chan /\ SendTo(Head(ready), Nil)
      BY <2>7, <1>1 DEF TypeOK, InHand, StopSend
    <3> QED
      BY <2>7, <1>1, <3>1 DEF Alive, TypeOK, InUse, SendTo, Deliver, StopSend
  <2>8. ASSUME StopUnlock PROVE Same
    BY <2>8, <1>1 DEF Alive, TypeOK, InUse, StopUnlock
  <2>9. ASSUME NEW ch \in Chan, Receive(ch) PROVE Same
    BY <2>9, <1>1 DEF Alive, TypeOK, InUse, Receive, Deliver
  <2>10. ASSUME NEW ch \in Chan, WorkerFuncReturns(ch) PROVE Same
    BY <2>10, <1>1 DEF Alive, TypeOK, InUse, WorkerFuncReturns
  <2>11. ASSUME NEW ch \in Chan, Stamp(ch) PROVE Same
    BY <2>11, <1>1 DEF Alive, TypeOK, InUse, Stamp
  <2>12. ASSUME NEW ch \in Chan, Release(ch) PROVE Same
    BY <2>12, <1>1 DEF Alive, TypeOK, InUse, Release, MayReturn
  <2>13. ASSUME NEW ch \in Chan, Put(ch) PROVE Same
    BY <2>13, <1>1 DEF Alive, TypeOK, InUse, Put
  <2>14. ASSUME CleanStart PROVE Same
    BY <2>14, <1>1 DEF Alive, TypeOK, InUse, CleanStart
  <2>15. ASSUME CleanLocked PROVE Same
    BY <2>15, <1>1 DEF Alive, TypeOK, InUse, CleanLocked, Kept
  <2>16. ASSUME CleanSend PROVE Same
    <3>1. Head(scratch) \in Chan /\ SendTo(Head(scratch), Nil)
      BY <2>16, <1>1 DEF TypeOK, InHand, CleanSend
    <3> QED
      BY <2>16, <1>1, <3>1 DEF Alive, TypeOK, InUse, SendTo, Deliver, CleanSend
  <2>17. ASSUME CleanAgain PROVE Same
    BY <2>17, <1>1 DEF Alive, TypeOK, InUse, CleanAgain
  <2>18. ASSUME Tick PROVE Same
    BY <2>18, <1>1 DEF Alive, TypeOK, InUse, Tick
  <2> QED
    BY <2>1, <2>2, <2>3, <2>4, <2>5, <2>6, <2>7, <2>8, <2>9, <2>10, <2>11, <2>12, <2>13,
       <2>14, <2>15, <2>16, <2>17, <2>18 DEF Next, Acceptor, WorkerLoop, Cleaner
<1>3. CASE Same \/ UNCHANGED vars
  BY <1>1, <1>3 DEF vars, Alive
<1>4. CASE CreateWorker
  <2>1. Alive' = Alive /\ workersCount' = workersCount + 1 /\ apc = "getCh" /\ apc' = "spawn"
    BY <1>4 DEF CreateWorker, Alive
  <2> QED
    BY <1>1, <2>1
<1>5. CASE Spawn
  <2>1. PICK ch \in Chan : wpc[ch] = "none" /\ wpc' = [wpc EXCEPT ![ch] = "recv"]
    BY <1>5 DEF Spawn
  <2>2. Alive' = Alive \cup {ch} /\ ch \notin Alive
    BY <1>1, <2>1 DEF Alive, TypeOK, InUse
  <2>3. workersCount' = workersCount /\ apc = "spawn" /\ apc' = "send"
    BY <1>5 DEF Spawn
  <2>4. IsFiniteSet(Alive') /\ Cardinality(Alive') = Cardinality(Alive) + 1
    BY <1>1, <2>2, FS_AddElement
  <2> QED
    BY <1>1, <2>3, <2>4
<1>6. ASSUME NEW ch \in Chan, Exit(ch) PROVE SameCount
  <2>1. Alive' = Alive \ {ch} /\ ch \in Alive
    BY <1>1, <1>6 DEF Alive, TypeOK, InUse, Exit
  <2>2. workersCount' = workersCount - 1 /\ apc' = apc
    BY <1>6 DEF Exit
  <2>3. IsFiniteSet(Alive') /\ Cardinality(Alive') = Cardinality(Alive) - 1
    BY <1>1, <2>1, FS_RemoveElement
  <2> QED
    BY <1>1, <2>2, <2>3
<1> QED
  BY <1>2, <1>3, <1>4, <1>5, <1>6

\* WorkersCounted holds after a step.
LEMMA CountedStep == IInv /\ [Next]_vars => WorkersCounted' /\ IsFiniteSet(Alive)'
<1> SUFFICES ASSUME IInv, [Next]_vars PROVE WorkersCounted' /\ IsFiniteSet(Alive)'
  OBVIOUS
<1>1. workersCount' \in 0 .. Max /\ Max \in Nat
  BY TypeStep, WorkerPoolAssumption DEF TypeOK
<1> QED
  BY <1>1, CountStep DEF WorkersCounted, Alive


\* A message too many in the channel of a worker, or one too few if it waits.
Owed(ch) == Len(buf[ch]) - (IF wpc[ch] = "recv" THEN 1 ELSE 0)
InAcceptor(ch) == IF apc = "send" /\ ach = ch THEN 1 ELSE 0
Reached(ch) == Places(ready, ch) + Places(scratch, ch) + InAcceptor(ch) + Owed(ch)

\* The handles of a worker and what it is owed, in one sum.
LEMMA HandlesOwed ==
  ASSUME NEW ch \in Chan, ready \in Seq(Chan), scratch \in Seq(Chan), Len(buf[ch]) \in Nat
  PROVE  /\ Handles(ch) = (IF wpc[ch] = "recv" THEN 1 ELSE 0) <=> Reached(ch) = 0
         /\ Owed(ch) \in Int /\ InAcceptor(ch) \in Int
<1> DEFINE a == Places(ready, ch)
           b == Places(scratch, ch)
           n == Len(buf[ch])
<1>1. a \in Nat /\ b \in Nat /\ n \in Nat
  BY PlacesType
<1>2. /\ Handles(ch) = a + b + n + InAcceptor(ch)
      /\ Reached(ch) = a + b + InAcceptor(ch) + Owed(ch)
      /\ Owed(ch) = n - (IF wpc[ch] = "recv" THEN 1 ELSE 0)
  BY DEF Handles, InAcceptor, Owed, Reached
<1>3. InAcceptor(ch) \in Int
  BY DEF InAcceptor
<1> HIDE DEF a, b, n
<1>4. CASE wpc[ch] = "recv"
  BY <1>1, <1>2, <1>3, <1>4
<1>5. CASE wpc[ch] # "recv"
  BY <1>1, <1>2, <1>3, <1>5
<1> QED
  BY <1>4, <1>5

\* The same invariant, and the numbers in it, in this state and in the next one.
LEMMA HandlesBefore ==
  ASSUME TypeOK
  PROVE  /\ OneHandle <=> \A ch \in Chan : Reached(ch) = 0
         /\ ready \in Seq(Chan) /\ scratch \in Seq(Chan)
         /\ \A ch \in Chan : /\ Len(buf[ch]) \in Nat /\ Owed(ch) \in Int /\ InAcceptor(ch) \in Int
                             /\ Places(ready, ch) \in Nat /\ Places(scratch, ch) \in Nat
<1>1. ready \in Seq(Chan) /\ scratch \in Seq(Chan) /\ \A ch \in Chan : Len(buf[ch]) \in Nat
  BY DEF TypeOK
<1> QED
  BY <1>1, HandlesOwed, PlacesType DEF OneHandle

InInt == \A ch \in Chan : Owed(ch) \in Int /\ InAcceptor(ch) \in Int
AllReached == \A ch \in Chan : Reached(ch) = 0

\* The same of the next state.
LEMMA HandlesAfter == TypeOK' =>
  /\ AllReached' => OneHandle'
  /\ ready' \in Seq(Chan) /\ scratch' \in Seq(Chan)
  /\ \A ch \in Chan : /\ Owed(ch)' \in Int /\ InAcceptor(ch)' \in Int
                      /\ Places(ready', ch) \in Nat /\ Places(scratch', ch) \in Nat
                      /\ Reached(ch)' = Places(ready', ch) + Places(scratch', ch) + InAcceptor(ch)' + Owed(ch)'
<1>1. TypeOK => (AllReached => OneHandle) /\ InInt
  BY HandlesBefore DEF AllReached, InInt
<1>2. TypeOK' => (AllReached' => OneHandle') /\ InInt'
  BY <1>1, PTL
<1>3. TypeOK' => ready' \in Seq(Chan) /\ scratch' \in Seq(Chan)
  BY DEF TypeOK
<1>4. \A ch \in Chan : Reached(ch)' = Places(ready', ch) + Places(scratch', ch) + InAcceptor(ch)' + Owed(ch)'
  BY DEF Reached
<1> QED
  BY <1>2, <1>3, <1>4, PlacesType DEF InInt

\* A send takes what the worker is owed, by hand or into the buffer.
LEMMA SendOwed ==
  ASSUME TypeOK, NEW ch \in Chan, NEW x \in Conn \cup {Nil}, SendTo(ch, x), NEW k \in Chan
  PROVE  Owed(k)' = (IF k = ch THEN Owed(k) + 1 ELSE Owed(k))
<1>1. Len(buf[k]) \in Nat /\ wpc \in [Chan -> InUse \cup {"none", "put"}]
      /\ buf \in [Chan -> Seq(Conn \cup {Nil})]
  BY DEF TypeOK
<1>2. CASE workerChanCap = 0 /\ Deliver(ch, x) /\ UNCHANGED <<buf, lastUse>>
  <2>1. buf' = buf /\ wpc[ch] = "recv" /\ wpc'[ch] # "recv" /\ (k # ch => wpc'[k] = wpc[k])
    BY <1>1, <1>2 DEF Deliver
  <2>2. CASE k = ch
    BY <1>1, <2>1, <2>2 DEF Owed
  <2>3. CASE k # ch
    BY <1>1, <2>1, <2>3 DEF Owed
  <2> QED
    BY <2>2, <2>3
<1>3. CASE Len(buf[ch]) < workerChanCap /\ buf' = [buf EXCEPT ![ch] = Append(@, x)]
           /\ UNCHANGED workers
  <2>1. Len(Append(buf[ch], x)) = Len(buf[ch]) + 1
    BY <1>1
  <2>2. wpc' = wpc /\ Len(buf'[k]) = (IF k = ch THEN Len(buf[k]) + 1 ELSE Len(buf[k]))
    BY <1>1, <1>3, <2>1 DEF workers
  <2>3. CASE wpc[k] = "recv"
    BY <1>1, <2>2, <2>3 DEF Owed
  <2>4. CASE wpc[k] # "recv"
    BY <1>1, <2>2, <2>4 DEF Owed
  <2> QED
    BY <2>3, <2>4
<1> QED
  BY <1>2, <1>3 DEF SendTo

\* Each step moves a worker's handle from one place to another, or makes or
\* takes one as the worker begins or stops to wait.
LEMMA HandleStep == IInv /\ [Next]_vars => OneHandle'
<1> DEFINE Kept0 == \A ch \in Chan : Reached(ch)' = 0
<1> SUFFICES ASSUME IInv, [Next]_vars PROVE Kept0
  BY TypeStep, HandlesAfter DEF AllReached
<1> USE DEF pool, workers, acceptor, cleaner
<1>1. /\ TypeOK /\ InHand /\ [Next]_vars /\ ready \in Seq(Chan) /\ scratch \in Seq(Chan)
      /\ \A ch \in Chan : /\ Reached(ch) = 0 /\ Len(buf[ch]) \in Nat
                          /\ Owed(ch) \in Int /\ InAcceptor(ch) \in Int
                          /\ Places(ready, ch) \in Nat /\ Places(scratch, ch) \in Nat
                          /\ Owed(ch)' \in Int /\ InAcceptor(ch)' \in Int
                          /\ Places(ready', ch) \in Nat /\ Places(scratch', ch) \in Nat
                          /\ 0 = Places(ready, ch) + Places(scratch, ch) + InAcceptor(ch) + Owed(ch)
                          /\ Reached(ch)' = Places(ready', ch) + Places(scratch', ch)
                                            + InAcceptor(ch)' + Owed(ch)'
  <2>1. TypeOK /\ InHand /\ OneHandle /\ TypeOK'
    BY TypeStep DEF IInv, PoolInv
  <2>2. \A ch \in Chan : Reached(ch) = Places(ready, ch) + Places(scratch, ch) + InAcceptor(ch) + Owed(ch)
    BY DEF Reached
  <2> QED
    BY <2>1, <2>2, HandlesBefore, HandlesAfter
<1>2. ASSUME NEW c \in Conn, Serve(c) PROVE Kept0
  <2>1. ready' = ready /\ scratch' = scratch /\ \A k \in Chan : Owed(k)' = Owed(k) /\ InAcceptor(k)' = InAcceptor(k)
    BY <1>2, <1>1 DEF TypeOK, InUse, Owed, InAcceptor, Serve
  <2> QED
    BY <1>1, <2>1
<1>3. ASSUME TakeReady PROVE Kept0
  <2> TAKE k \in Chan
  <2>1. Places(ready, k) = Places(ready', k) + (IF k = ach' THEN 1 ELSE 0)
    BY <1>3, <1>1, PlacesEnds DEF TakeReady
  <2>2. /\ scratch' = scratch /\ Owed(k)' = Owed(k)
        /\ InAcceptor(k) = 0 /\ InAcceptor(k)' = (IF k = ach' THEN 1 ELSE 0)
    BY <1>3 DEF TakeReady, InAcceptor, Owed
  <2>8. CASE k = ach'
    BY <1>1, <2>1, <2>2, <2>8
  <2>9. CASE ~(k = ach')
    BY <1>1, <2>1, <2>2, <2>9
  <2> QED
    BY <2>8, <2>9
<1>4. ASSUME CreateWorker PROVE Kept0
  <2>1. ready' = ready /\ scratch' = scratch /\ \A k \in Chan : Owed(k)' = Owed(k) /\ InAcceptor(k)' = InAcceptor(k)
    BY <1>4, <1>1 DEF TypeOK, InUse, Owed, InAcceptor, CreateWorker, MayCreate
  <2> QED
    BY <1>1, <2>1
<1>5. ASSUME Refuse PROVE Kept0
  <2>1. ready' = ready /\ scratch' = scratch /\ \A k \in Chan : Owed(k)' = Owed(k) /\ InAcceptor(k)' = InAcceptor(k)
    BY <1>5, <1>1 DEF TypeOK, InUse, Owed, InAcceptor, Refuse, Answer
  <2> QED
    BY <1>1, <2>1
<1>6. ASSUME Spawn PROVE Kept0
  <2> TAKE k \in Chan
  <2>1. PICK ch \in Chan : wpc[ch] = "none" /\ wpc' = [wpc EXCEPT ![ch] = "recv"] /\ ach' = ch
    BY <1>6 DEF Spawn
  <2>2. /\ ready' = ready /\ scratch' = scratch /\ buf' = buf
        /\ InAcceptor(k) = 0 /\ InAcceptor(k)' = (IF k = ch THEN 1 ELSE 0)
    BY <1>6, <2>1 DEF Spawn, InAcceptor
  <2>3. CASE k = ch
    <3>1. wpc[k] = "none" /\ wpc'[k] = "recv"
      BY <1>1, <2>1, <2>3 DEF TypeOK
    <3>2. Owed(k)' = Owed(k) - 1
      BY <1>1, <2>2, <3>1 DEF Owed
    <3> QED
      BY <1>1, <2>2, <2>3, <3>2
  <2>4. CASE k # ch
    <3>1. wpc'[k] = wpc[k]
      BY <1>1, <2>1, <2>4 DEF TypeOK
    <3> QED
      BY <1>1, <2>2, <2>4, <3>1 DEF Owed
  <2> QED
    BY <2>3, <2>4
<1>7. ASSUME Send PROVE Kept0
  <2> TAKE k \in Chan
  <2>1. ach \in Chan /\ SendTo(ach, aconn) /\ aconn \in Conn \cup {Nil}
    BY <1>7, <1>1 DEF TypeOK, InHand, Send
  <2>2. Owed(k)' = (IF k = ach THEN Owed(k) + 1 ELSE Owed(k))
    BY <1>1, <2>1, SendOwed
  <2>3. ready' = ready /\ scratch' = scratch
        /\ InAcceptor(k) = (IF k = ach THEN 1 ELSE 0) /\ InAcceptor(k)' = 0
    BY <1>7 DEF Send, InAcceptor
  <2>8. CASE k = ach
    BY <1>1, <2>2, <2>3, <2>8
  <2>9. CASE ~(k = ach)
    BY <1>1, <2>2, <2>3, <2>9
  <2> QED
    BY <2>8, <2>9
<1>8. ASSUME StopClose PROVE Kept0
  <2>1. ready' = ready /\ scratch' = scratch /\ \A k \in Chan : Owed(k)' = Owed(k) /\ InAcceptor(k)' = InAcceptor(k)
    BY <1>8, <1>1 DEF TypeOK, InUse, Owed, InAcceptor, StopClose
  <2> QED
    BY <1>1, <2>1
<1>9. ASSUME StopLock PROVE Kept0
  <2>1. ready' = ready /\ scratch' = scratch /\ \A k \in Chan : Owed(k)' = Owed(k) /\ InAcceptor(k)' = InAcceptor(k)
    BY <1>9, <1>1 DEF TypeOK, InUse, Owed, InAcceptor, StopLock
  <2> QED
    BY <1>1, <2>1
<1>10. ASSUME StopSend PROVE Kept0
  <2> TAKE k \in Chan
  <2>1. Head(ready) \in Chan /\ SendTo(Head(ready), Nil) /\ Nil \in Conn \cup {Nil}
    BY SMTT(30), <1>10, <1>1 DEF TypeOK, InHand, StopSend
  <2>2. Owed(k)' = (IF k = Head(ready) THEN Owed(k) + 1 ELSE Owed(k))
    BY <1>1, <2>1, SendOwed
  <2>3. Places(ready, k) = Places(ready', k) + (IF k = Head(ready) THEN 1 ELSE 0)
    BY <1>10, <1>1, PlacesEnds DEF StopSend
  <2>4. scratch' = scratch /\ InAcceptor(k)' = InAcceptor(k)
    BY <1>10 DEF StopSend, InAcceptor
  <2>5. CASE k = Head(ready)
    <3>1. Owed(k)' = Owed(k) + 1 /\ Places(ready, k) = Places(ready', k) + 1
      BY <2>2, <2>3, <2>5
    <3> QED
      BY <1>1, <2>4, <3>1
  <2>6. CASE k # Head(ready)
    <3>1. Owed(k)' = Owed(k) /\ Places(ready, k) = Places(ready', k)
      BY <1>1, <2>2, <2>3, <2>6
    <3> QED
      BY <1>1, <2>4, <3>1
  <2> QED
    BY <2>5, <2>6
<1>11. ASSUME StopUnlock PROVE Kept0
  <2>1. ready' = ready /\ scratch' = scratch /\ \A k \in Chan : Owed(k)' = Owed(k) /\ InAcceptor(k)' = InAcceptor(k)
    BY <1>11, <1>1 DEF TypeOK, InUse, Owed, InAcceptor, StopUnlock
  <2> QED
    BY <1>1, <2>1
<1>12. ASSUME NEW ch \in Chan, Receive(ch) PROVE Kept0
  <2> TAKE k \in Chan
  <2>1. Len(Tail(buf[ch])) = Len(buf[ch]) - 1
    BY <1>12, <1>1, HeadTailProperties DEF TypeOK, Receive
  <2>2. ready' = ready /\ scratch' = scratch /\ InAcceptor(k)' = InAcceptor(k)
        /\ wpc[ch] = "recv" /\ wpc'[ch] # "recv" /\ buf' = [buf EXCEPT ![ch] = Tail(@)]
        /\ (k # ch => wpc'[k] = wpc[k])
    BY <1>12, <1>1 DEF Receive, Deliver, InAcceptor, TypeOK
  <2>3. CASE k = ch
    <3>1. Len(buf'[k]) = Len(buf[k]) - 1
      BY <1>1, <2>1, <2>2, <2>3 DEF TypeOK
    <3>2. Owed(k)' = Owed(k)
      BY <1>1, <2>2, <2>3, <3>1 DEF Owed
    <3> QED
      BY <1>1, <2>2, <3>2
  <2>4. CASE k # ch
    <3>1. buf'[k] = buf[k]
      BY <1>1, <2>2, <2>4 DEF TypeOK
    <3> QED
      BY <1>1, <2>2, <2>4, <3>1 DEF Owed
  <2> QED
    BY <2>3, <2>4
<1>13. ASSUME NEW ch \in Chan, WorkerFuncReturns(ch) PROVE Kept0
  <2>1. ready' = ready /\ scratch' = scratch /\ \A k \in Chan : Owed(k)' = Owed(k) /\ InAcceptor(k)' = InAcceptor(k)
    BY <1>13, <1>1 DEF TypeOK, InUse, Owed, InAcceptor, WorkerFuncReturns
  <2> QED
    BY <1>1, <2>1
<1>14. ASSUME NEW ch \in Chan, Stamp(ch) PROVE Kept0
  <2>1. ready' = ready /\ scratch' = scratch /\ \A k \in Chan : Owed(k)' = Owed(k) /\ InAcceptor(k)' = InAcceptor(k)
    BY <1>14, <1>1 DEF TypeOK, InUse, Owed, InAcceptor, Stamp
  <2> QED
    BY <1>1, <2>1
<1>15. ASSUME NEW ch \in Chan, Release(ch) PROVE Kept0
  <2> TAKE k \in Chan
  <2>1. CASE MayReturn /\ ready' = Append(ready, ch) /\ wpc' = [wpc EXCEPT ![ch] = "recv"]
    <3>1. Places(ready', k) = Places(ready, k) + (IF k = ch THEN 1 ELSE 0)
      BY <1>1, <2>1, PlacesAppend
    <3>2. scratch' = scratch /\ InAcceptor(k)' = InAcceptor(k) /\ buf' = buf /\ wpc[ch] = "release"
      BY <1>15 DEF Release, InAcceptor
    <3>3. CASE k = ch
      <4>1. wpc[k] = "release" /\ wpc'[k] = "recv" /\ buf'[k] = buf[k]
        BY <1>1, <2>1, <3>2, <3>3 DEF TypeOK
      <4>2. Owed(k)' = Owed(k) - 1
        BY <1>1, <4>1 DEF Owed
      <4> QED
        BY SMTT(30), <1>1, <3>1, <3>2, <3>3, <4>2
    <3>4. CASE k # ch
      <4>1. wpc'[k] = wpc[k] /\ buf'[k] = buf[k]
        BY <1>1, <2>1, <3>2, <3>4 DEF TypeOK
      <4>2. Owed(k)' = Owed(k)
        BY <4>1 DEF Owed
      <4>3. Places(ready', k) = Places(ready, k)
        BY <1>1, <3>1, <3>4
      <4> QED
        BY <1>1, <3>2, <4>2, <4>3
    <3> QED
      BY <3>3, <3>4
  <2>2. CASE ~MayReturn /\ ready' = ready /\ wpc' = [wpc EXCEPT ![ch] = "exit"]
    <3>1. scratch' = scratch /\ Owed(k)' = Owed(k) /\ InAcceptor(k)' = InAcceptor(k)
      BY <1>15, <1>1, <2>2 DEF TypeOK, Owed, InAcceptor, Release
    <3> QED
      BY <1>1, <2>2, <3>1
  <2> QED
    BY <1>15, <2>1, <2>2 DEF Release
<1>16. ASSUME NEW ch \in Chan, Exit(ch) PROVE Kept0
  <2>1. ready' = ready /\ scratch' = scratch /\ \A k \in Chan : Owed(k)' = Owed(k) /\ InAcceptor(k)' = InAcceptor(k)
    BY <1>16, <1>1 DEF TypeOK, InUse, Owed, InAcceptor, Exit
  <2> QED
    BY <1>1, <2>1
<1>17. ASSUME NEW ch \in Chan, Put(ch) PROVE Kept0
  <2>1. ready' = ready /\ scratch' = scratch /\ \A k \in Chan : Owed(k)' = Owed(k) /\ InAcceptor(k)' = InAcceptor(k)
    BY <1>17, <1>1 DEF TypeOK, InUse, Owed, InAcceptor, Put
  <2> QED
    BY <1>1, <2>1
<1>18. ASSUME CleanStart PROVE Kept0
  <2>1. ready' = ready /\ scratch' = scratch /\ \A k \in Chan : Owed(k)' = Owed(k) /\ InAcceptor(k)' = InAcceptor(k)
    BY <1>18, <1>1 DEF TypeOK, InUse, Owed, InAcceptor, CleanStart
  <2> QED
    BY <1>1, <2>1
<1>19. ASSUME CleanLocked PROVE Kept0
  <2> TAKE k \in Chan
  <2> DEFINE n == CleanUpTo(ready, crit)
  <2>1. n \in 0 .. Len(ready)
    BY <1>1, CleanUpToIs
  <2>2. scratch' = SubSeq(ready, 1, n) /\ ready' = SubSeq(ready, n + 1, Len(ready))
    BY <1>19 DEF CleanLocked, Kept
  <2> HIDE DEF n
  <2>3. Places(ready, k) = Places(scratch', k) + Places(ready', k)
    BY <1>1, <2>1, <2>2, PlacesSplit
  <2>4. Places(scratch, k) = 0
    BY <1>19, <1>1, PlacesEmpty DEF InHand, CleanLocked
  <2>5. Owed(k)' = Owed(k) /\ InAcceptor(k)' = InAcceptor(k)
    BY <1>19 DEF CleanLocked, Owed, InAcceptor
  <2> QED
    BY <1>1, <2>3, <2>4, <2>5
<1>20. ASSUME CleanSend PROVE Kept0
  <2> TAKE k \in Chan
  <2>1. Head(scratch) \in Chan /\ SendTo(Head(scratch), Nil) /\ Nil \in Conn \cup {Nil}
    BY SMTT(30), <1>20, <1>1 DEF TypeOK, InHand, CleanSend
  <2>2. Owed(k)' = (IF k = Head(scratch) THEN Owed(k) + 1 ELSE Owed(k))
    BY <1>1, <2>1, SendOwed
  <2>3. Places(scratch, k) = Places(scratch', k) + (IF k = Head(scratch) THEN 1 ELSE 0)
    BY <1>20, <1>1, PlacesEnds DEF CleanSend
  <2>4. ready' = ready /\ InAcceptor(k)' = InAcceptor(k)
    BY <1>20 DEF CleanSend, InAcceptor
  <2>5. CASE k = Head(scratch)
    <3>1. Owed(k)' = Owed(k) + 1 /\ Places(scratch, k) = Places(scratch', k) + 1
      BY <2>2, <2>3, <2>5
    <3> QED
      BY <1>1, <2>4, <3>1
  <2>6. CASE k # Head(scratch)
    <3>1. Owed(k)' = Owed(k) /\ Places(scratch, k) = Places(scratch', k)
      BY <1>1, <2>2, <2>3, <2>6
    <3> QED
      BY <1>1, <2>4, <3>1
  <2> QED
    BY <2>5, <2>6
<1>21. ASSUME CleanAgain PROVE Kept0
  <2>1. ready' = ready /\ scratch' = scratch /\ \A k \in Chan : Owed(k)' = Owed(k) /\ InAcceptor(k)' = InAcceptor(k)
    BY <1>21, <1>1 DEF TypeOK, InUse, Owed, InAcceptor, CleanAgain
  <2> QED
    BY <1>1, <2>1
<1>22. ASSUME Tick PROVE Kept0
  <2>1. ready' = ready /\ scratch' = scratch /\ \A k \in Chan : Owed(k)' = Owed(k) /\ InAcceptor(k)' = InAcceptor(k)
    BY <1>22, <1>1 DEF TypeOK, InUse, Owed, InAcceptor, Tick
  <2> QED
    BY <1>1, <2>1
<1>23. CASE UNCHANGED vars
  <2>1. ready' = ready /\ scratch' = scratch /\ \A k \in Chan : Owed(k)' = Owed(k) /\ InAcceptor(k)' = InAcceptor(k)
    BY <1>23, <1>1 DEF TypeOK, InUse, Owed, InAcceptor, vars
  <2> QED
    BY <1>1, <2>1
<1> QED
  BY <1>1, <1>2, <1>3, <1>4, <1>5, <1>6, <1>7, <1>8, <1>9, <1>10, <1>11, <1>12, <1>13,
     <1>14, <1>15, <1>16, <1>17, <1>18, <1>19, <1>20, <1>21, <1>22, <1>23 DEF Next,
     Acceptor, WorkerLoop, Cleaner

-----------------------------------------------------------------------------
(***************************************************************************)
(* A connection in one place.                                              *)
(***************************************************************************)
\* Nobody else has anything to say to a worker that is in somebody's hands.
LEMMA Reachable ==
  ASSUME IInv, NEW ch \in Chan
  PROVE  /\ \/ apc = "send" /\ ach = ch
            \/ ready # <<>> /\ Head(ready) = ch
            \/ scratch # <<>> /\ Head(scratch) = ch
            => buf[ch] = <<>> /\ wpc[ch] = "recv"
         /\ wpc[ch] # "recv" => buf[ch] = <<>>
<1>1. /\ ready \in Seq(Chan) /\ scratch \in Seq(Chan) /\ buf[ch] \in Seq(Conn \cup {Nil})
      /\ Places(ready, ch) \in Nat /\ Places(scratch, ch) \in Nat /\ Len(buf[ch]) \in Nat
      /\ InAcceptor(ch) \in {0, 1}
  BY HandlesBefore DEF IInv, PoolInv, TypeOK, InAcceptor
<1>2. /\ Handles(ch) = Places(ready, ch) + Places(scratch, ch) + Len(buf[ch]) + InAcceptor(ch)
      /\ Handles(ch) = (IF wpc[ch] = "recv" THEN 1 ELSE 0)
  BY DEF IInv, OneHandle, Handles, InAcceptor
<1>3. CASE wpc[ch] # "recv"
  <2>1. /\ Places(ready, ch) = 0 /\ Places(scratch, ch) = 0 /\ Len(buf[ch]) = 0
        /\ InAcceptor(ch) = 0
    BY <1>1, <1>2, <1>3
  <2>2. ~(apc = "send" /\ ach = ch)
    BY <2>1 DEF InAcceptor
  <2>3. ready # <<>> /\ Head(ready) = ch => FALSE
    <3> SUFFICES ASSUME ready # <<>>, Head(ready) = ch PROVE FALSE
      OBVIOUS
    <3>1. Places(ready, ch) = Places(Tail(ready), ch) + 1 /\ Places(Tail(ready), ch) \in Nat
      BY <1>1, PlacesEnds, PlacesType, HeadTailProperties
    <3> QED
      BY <2>1, <3>1
  <2>4. scratch # <<>> /\ Head(scratch) = ch => FALSE
    <3> SUFFICES ASSUME scratch # <<>>, Head(scratch) = ch PROVE FALSE
      OBVIOUS
    <3>1. Places(scratch, ch) = Places(Tail(scratch), ch) + 1 /\ Places(Tail(scratch), ch) \in Nat
      BY <1>1, PlacesEnds, PlacesType, HeadTailProperties
    <3> QED
      BY <2>1, <3>1
  <2>5. buf[ch] = <<>>
    BY <1>1, <2>1
  <2> QED
    BY <1>3, <2>2, <2>3, <2>4, <2>5
<1>4. CASE wpc[ch] = "recv"
  <2> SUFFICES ASSUME \/ apc = "send" /\ ach = ch
                      \/ ready # <<>> /\ Head(ready) = ch
                      \/ scratch # <<>> /\ Head(scratch) = ch
               PROVE  buf[ch] = <<>>
    BY <1>4
  <2>1. CASE apc = "send" /\ ach = ch
    BY <1>1, <1>2, <1>4, <2>1 DEF InAcceptor
  <2>2. CASE ready # <<>> /\ Head(ready) = ch
    <3>1. Places(ready, ch) = Places(Tail(ready), ch) + 1 /\ Places(Tail(ready), ch) \in Nat
      BY <1>1, <2>2, PlacesEnds, PlacesType, HeadTailProperties
    <3> QED
      BY <1>1, <1>2, <1>4, <3>1
  <2>3. CASE scratch # <<>> /\ Head(scratch) = ch
    <3>1. Places(scratch, ch) = Places(Tail(scratch), ch) + 1 /\ Places(Tail(scratch), ch) \in Nat
      BY <1>1, <2>3, PlacesEnds, PlacesType, HeadTailProperties
    <3> QED
      BY <1>1, <1>2, <1>4, <3>1
  <2> QED
    BY <2>1, <2>2, <2>3
<1> QED
  BY <1>3, <1>4

\* A send to a worker that nobody else can reach puts the message, a connection
\* or nil, where it alone will find it.
LEMMA SendHolds ==
  ASSUME TypeOK, NEW ch \in Chan, NEW x \in Conn \cup {Nil}, SendTo(ch, x),
         buf[ch] = <<>>, wpc[ch] = "recv"
  PROVE  /\ \A k \in Chan, c \in Conn : Holds(k, c)' <=> Holds(k, c) \/ (k = ch /\ c = x)
         /\ \A k \in Chan : wpc'[k] = "serving" => \/ wpc[k] = "serving" /\ wconn'[k] = wconn[k]
                                                  \/ wconn'[k] \in Conn
<1> USE WorkerPoolAssumption
<1>1. CASE workerChanCap = 0 /\ Deliver(ch, x) /\ UNCHANGED <<buf, lastUse>>
  BY <1>1 DEF TypeOK, Deliver, Holds
<1>2. CASE Len(buf[ch]) < workerChanCap /\ buf' = [buf EXCEPT ![ch] = Append(@, x)]
           /\ UNCHANGED workers
  <2>1. buf'[ch] # <<>> /\ Head(buf'[ch]) = x /\ \A k \in Chan : k # ch => buf'[k] = buf[k]
    BY <1>2 DEF TypeOK
  <2> QED
    BY <1>2, <2>1 DEF TypeOK, Holds, workers
<1> QED
  BY <1>1, <1>2 DEF SendTo

\* A sequence of one has an empty tail.
LEMMA ShortTail ==
  ASSUME NEW S, NEW s \in Seq(S), s # <<>>, Len(s) <= 1
  PROVE  Tail(s) = <<>>
<1> DEFINE t == Tail(s)
           n == Len(s)
           m == Len(t)
<1>1. t \in Seq(S) /\ m = n - 1 /\ n \in Nat /\ n <= 1 /\ m \in Nat
  BY HeadTailProperties
<1> HIDE DEF n, m
<1>2. m = 0
  BY <1>1
<1> HIDE DEF t
<1> QED
  BY <1>1, <1>2 DEF m, t

\* A step that moves no connection keeps them in one place.
LEMMA PlaceKept ==
  ASSUME OnePlace, outcome' = outcome,
         \A k \in Chan, c \in Conn : Holds(k, c)' <=> Holds(k, c),
         \A c \in Conn : Carried(c)' => Carried(c),
         apc' \in {"getCh", "spawn", "send"} => aconn' \in Conn,
         \A k \in Chan : wpc'[k] = "serving" => wconn'[k] \in Conn
  PROVE  OnePlace'
BY DEF OnePlace

\* A connection moves from the acceptor through a channel to a worker.
LEMMA PlaceStep == IInv /\ [Next]_vars => OnePlace'
<1> SUFFICES ASSUME IInv, [Next]_vars PROVE OnePlace'
  OBVIOUS
<1> USE WorkerPoolAssumption DEF pool, workers, acceptor, cleaner
<1>1. /\ TypeOK /\ InHand /\ OnePlace /\ [Next]_vars
      /\ apc \in {"getCh", "spawn", "send"} => aconn \in Conn
      /\ \A k \in Chan : wpc[k] = "serving" => wconn[k] \in Conn
      /\ wpc \in [Chan -> InUse \cup {"none", "put"}]
      /\ buf \in [Chan -> Seq(Conn \cup {Nil})]
  BY DEF IInv, PoolInv, OnePlace, TypeOK
<1>2. ASSUME NEW c \in Conn, Serve(c) PROVE OnePlace'
  <2>1. /\ \A k \in Chan, d \in Conn : Holds(k, d)' <=> Holds(k, d)
        /\ \A d \in Conn : Carried(d)' <=> d = c
        /\ \A d \in Conn : d # c => outcome'[d] = outcome[d]
        /\ outcome[c] = "new" /\ outcome'[c] = "offered" /\ aconn' = c
        /\ \A k \in Chan : wpc'[k] = "serving" => wconn'[k] \in Conn
    BY <1>2, <1>1 DEF Holds, Carried, Serve, TypeOK
  <2>2. \A k \in Chan : ~Holds(k, c)
    BY <1>1, <2>1 DEF OnePlace
  <2> QED
    BY <1>1, <2>1, <2>2 DEF OnePlace
<1>3. ASSUME TakeReady PROVE OnePlace'
  <2>1. \A k \in Chan, c \in Conn : Holds(k, c)' <=> Holds(k, c)
    BY <1>3, <1>1 DEF Holds, TakeReady
  <2>2. outcome' = outcome /\ \A c \in Conn : Carried(c)' => Carried(c)
    BY <1>3, <1>1 DEF Carried, TakeReady
  <2>3. /\ apc' \in {"getCh", "spawn", "send"} => aconn' \in Conn
        /\ \A k \in Chan : wpc'[k] = "serving" => wconn'[k] \in Conn
    BY <1>3, <1>1 DEF TakeReady
  <2> QED
    BY <1>1, <2>1, <2>2, <2>3, PlaceKept
<1>4. ASSUME CreateWorker PROVE OnePlace'
  <2>1. \A k \in Chan, c \in Conn : Holds(k, c)' <=> Holds(k, c)
    BY <1>4, <1>1 DEF Holds, CreateWorker, MayCreate
  <2>2. outcome' = outcome /\ \A c \in Conn : Carried(c)' => Carried(c)
    BY <1>4, <1>1 DEF Carried, CreateWorker, MayCreate
  <2>3. /\ apc' \in {"getCh", "spawn", "send"} => aconn' \in Conn
        /\ \A k \in Chan : wpc'[k] = "serving" => wconn'[k] \in Conn
    BY <1>4, <1>1 DEF CreateWorker, MayCreate
  <2> QED
    BY <1>1, <2>1, <2>2, <2>3, PlaceKept
<1>5. ASSUME Refuse PROVE OnePlace'
  <2>1. /\ \A k \in Chan, d \in Conn : Holds(k, d)' <=> Holds(k, d)
        /\ \A d \in Conn : ~Carried(d)'
        /\ \A d \in Conn : d # aconn => outcome'[d] = outcome[d]
        /\ aconn \in Conn /\ Carried(aconn) /\ apc' = "idle"
        /\ \A k \in Chan : wpc'[k] = "serving" => wconn'[k] \in Conn
    BY <1>5, <1>1 DEF Holds, Carried, Refuse, Answer, TypeOK
  <2>2. \A k \in Chan : ~Holds(k, aconn)
    BY <1>1, <2>1 DEF OnePlace
  <2> QED
    BY <1>1, <2>1, <2>2 DEF OnePlace
<1>6. ASSUME Spawn PROVE OnePlace'
  <2>1. \A k \in Chan, c \in Conn : Holds(k, c)' <=> Holds(k, c)
    BY <1>6, <1>1 DEF Holds, Spawn
  <2>2. outcome' = outcome /\ \A c \in Conn : Carried(c)' => Carried(c)
    BY <1>6, <1>1 DEF Carried, Spawn
  <2>3. /\ apc' \in {"getCh", "spawn", "send"} => aconn' \in Conn
        /\ \A k \in Chan : wpc'[k] = "serving" => wconn'[k] \in Conn
    BY <1>6, <1>1 DEF Spawn
  <2> QED
    BY <1>1, <2>1, <2>2, <2>3, PlaceKept
<1>7. ASSUME Send PROVE OnePlace'
  <2>1. /\ aconn \in Conn /\ ach \in Chan /\ SendTo(ach, aconn) /\ Carried(aconn) /\ apc' = "idle"
        /\ outcome' = [outcome EXCEPT ![aconn] = "offered"] /\ apc = "send"
    BY <1>7, <1>1 DEF InHand, Carried, Send, Answer
  <2>2. buf[ach] = <<>> /\ wpc[ach] = "recv"
    BY <2>1, Reachable
  <2>3. \A k \in Chan, c \in Conn : Holds(k, c)' <=> Holds(k, c) \/ (k = ach /\ c = aconn)
    BY <1>1, <2>1, <2>2, SendHolds
  <2>4. \A k \in Chan : wpc'[k] = "serving" => wconn'[k] \in Conn
    BY <1>1, <2>1, <2>2, SendHolds
  <2>5. \A c \in Conn : ~Carried(c)'
    BY <2>1 DEF Carried
  <2>6. outcome[aconn] = "offered" /\ \A k \in Chan : ~Holds(k, aconn)
    BY <1>1, <2>1 DEF OnePlace
  <2>7. \A c \in Conn : outcome'[c] = outcome[c]
    BY <1>1, <2>1, <2>6 DEF TypeOK
  <2> QED
    BY <1>1, <2>1, <2>3, <2>4, <2>5, <2>6, <2>7 DEF OnePlace
<1>8. ASSUME StopClose PROVE OnePlace'
  <2>1. \A k \in Chan, c \in Conn : Holds(k, c)' <=> Holds(k, c)
    BY <1>8, <1>1 DEF Holds, StopClose
  <2>2. outcome' = outcome /\ \A c \in Conn : Carried(c)' => Carried(c)
    BY <1>8, <1>1 DEF Carried, StopClose
  <2>3. /\ apc' \in {"getCh", "spawn", "send"} => aconn' \in Conn
        /\ \A k \in Chan : wpc'[k] = "serving" => wconn'[k] \in Conn
    BY <1>8, <1>1 DEF StopClose
  <2> QED
    BY <1>1, <2>1, <2>2, <2>3, PlaceKept
<1>9. ASSUME StopLock PROVE OnePlace'
  <2>1. \A k \in Chan, c \in Conn : Holds(k, c)' <=> Holds(k, c)
    BY <1>9, <1>1 DEF Holds, StopLock
  <2>2. outcome' = outcome /\ \A c \in Conn : Carried(c)' => Carried(c)
    BY <1>9, <1>1 DEF Carried, StopLock
  <2>3. /\ apc' \in {"getCh", "spawn", "send"} => aconn' \in Conn
        /\ \A k \in Chan : wpc'[k] = "serving" => wconn'[k] \in Conn
    BY <1>9, <1>1 DEF StopLock
  <2> QED
    BY <1>1, <2>1, <2>2, <2>3, PlaceKept
<1>10. ASSUME StopSend PROVE OnePlace'
  <2> DEFINE h == Head(ready)
  <2>1. h \in Chan /\ SendTo(h, Nil) /\ Nil \in Conn \cup {Nil} /\ Nil \notin Conn
    BY <1>10, <1>1 DEF TypeOK, InHand, StopSend
  <2>2. buf[h] = <<>> /\ wpc[h] = "recv"
    BY <1>10, <2>1, Reachable DEF StopSend
  <2> HIDE DEF h
  <2>3. \A k \in Chan, c \in Conn : Holds(k, c)' <=> Holds(k, c)
    BY <1>1, <2>1, <2>2, SendHolds
  <2>4. \A k \in Chan : wpc'[k] = "serving" => wconn'[k] \in Conn
    BY <1>1, <2>1, <2>2, SendHolds
  <2>5. outcome' = outcome /\ UNCHANGED acceptor
    BY <1>10 DEF StopSend
  <2> QED
    BY <1>1, <2>3, <2>4, <2>5, PlaceKept DEF Carried
<1>11. ASSUME StopUnlock PROVE OnePlace'
  <2>1. \A k \in Chan, c \in Conn : Holds(k, c)' <=> Holds(k, c)
    BY <1>11, <1>1 DEF Holds, StopUnlock
  <2>2. outcome' = outcome /\ \A c \in Conn : Carried(c)' => Carried(c)
    BY <1>11, <1>1 DEF Carried, StopUnlock
  <2>3. /\ apc' \in {"getCh", "spawn", "send"} => aconn' \in Conn
        /\ \A k \in Chan : wpc'[k] = "serving" => wconn'[k] \in Conn
    BY <1>11, <1>1 DEF StopUnlock
  <2> QED
    BY <1>1, <2>1, <2>2, <2>3, PlaceKept
<1>12. ASSUME NEW ch \in Chan, Receive(ch) PROVE OnePlace'
  <2>1. /\ wpc[ch] = "recv" /\ wconn' = [wconn EXCEPT ![ch] = Head(buf[ch])]
        /\ wpc' = [wpc EXCEPT ![ch] = IF Head(buf[ch]) = Nil THEN "exit" ELSE "serving"]
        /\ buf' = [buf EXCEPT ![ch] = Tail(@)] /\ buf[ch] # <<>>
    BY <1>12 DEF Receive, Deliver
  <2>2. Tail(buf[ch]) = <<>> /\ Head(buf[ch]) \in Conn \cup {Nil}
    <3>1. /\ buf[ch] \in Seq(Conn \cup {Nil}) /\ Len(buf[ch]) \in Nat /\ Len(buf[ch]) <= workerChanCap
          /\ workerChanCap \in {0, 1}
      BY <1>1 DEF TypeOK
    <3>2. Len(buf[ch]) <= 1
      BY <3>1
    <3> QED
      BY <2>1, <3>1, <3>2, ShortTail, HeadTailProperties
  <2>3. \A k \in Chan, c \in Conn : Holds(k, c)' <=> Holds(k, c)
    <3> TAKE k \in Chan, c \in Conn
    <3>1. CASE k = ch
      BY <1>1, <2>1, <2>2, <3>1 DEF Holds, TypeOK
    <3>2. CASE k # ch
      BY <1>1, <2>1, <3>2 DEF Holds, TypeOK
    <3> QED
      BY <3>1, <3>2
  <2>4. \A k \in Chan : wpc'[k] = "serving" => wconn'[k] \in Conn
    BY <1>1, <2>1, <2>2 DEF TypeOK
  <2>5. outcome' = outcome /\ UNCHANGED acceptor
    BY <1>12 DEF Receive
  <2> QED
    BY <1>1, <2>3, <2>4, <2>5, PlaceKept DEF Carried
<1>13. ASSUME NEW ch \in Chan, WorkerFuncReturns(ch) PROVE OnePlace'
  <2> DEFINE d == wconn[ch]
  <2>1. /\ d \in Conn /\ Holds(ch, d) /\ UNCHANGED acceptor
        /\ outcome' = [outcome EXCEPT ![d] = "served"]
        /\ \A k \in Chan : wpc'[k] = "serving" => wconn'[k] \in Conn
    BY <1>13, <1>1 DEF Holds, WorkerFuncReturns, TypeOK
  <2>2. \A k \in Chan, c \in Conn : Holds(k, c)' <=> Holds(k, c) /\ k # ch
    <3>1. buf[ch] = <<>>
      BY <1>13, Reachable DEF WorkerFuncReturns
    <3> QED
      BY <1>13, <1>1, <3>1 DEF Holds, WorkerFuncReturns
  <2> HIDE DEF d
  <2>3. (\A k \in Chan : Holds(k, d) => k = ch) /\ ~Carried(d)
    BY <1>1, <2>1 DEF OnePlace
  <2>4. \A c \in Conn : c # d => outcome'[c] = outcome[c]
    BY <2>1, <1>1 DEF TypeOK
  <2>5. \A c \in Conn : Carried(c)' <=> Carried(c)
    BY <2>1 DEF Carried
  <2>6. apc' \in {"getCh", "spawn", "send"} => aconn' \in Conn
    BY <1>1, <2>1
  <2> QED
    BY <1>1, <2>1, <2>2, <2>3, <2>4, <2>5, <2>6 DEF OnePlace
<1>14. ASSUME NEW ch \in Chan, Stamp(ch) PROVE OnePlace'
  <2>1. \A k \in Chan, c \in Conn : Holds(k, c)' <=> Holds(k, c)
    BY <1>14, <1>1 DEF Holds, Stamp
  <2>2. outcome' = outcome /\ \A c \in Conn : Carried(c)' => Carried(c)
    BY <1>14, <1>1 DEF Carried, Stamp
  <2>3. /\ apc' \in {"getCh", "spawn", "send"} => aconn' \in Conn
        /\ \A k \in Chan : wpc'[k] = "serving" => wconn'[k] \in Conn
    BY <1>14, <1>1 DEF Stamp
  <2> QED
    BY <1>1, <2>1, <2>2, <2>3, PlaceKept
<1>15. ASSUME NEW ch \in Chan, Release(ch) PROVE OnePlace'
  <2>1. \A k \in Chan, c \in Conn : Holds(k, c)' <=> Holds(k, c)
    BY <1>15, <1>1 DEF Holds, Release, MayReturn
  <2>2. outcome' = outcome /\ \A c \in Conn : Carried(c)' => Carried(c)
    BY <1>15, <1>1 DEF Carried, Release, MayReturn
  <2>3. /\ apc' \in {"getCh", "spawn", "send"} => aconn' \in Conn
        /\ \A k \in Chan : wpc'[k] = "serving" => wconn'[k] \in Conn
    BY <1>15, <1>1 DEF Release, MayReturn
  <2> QED
    BY <1>1, <2>1, <2>2, <2>3, PlaceKept
<1>16. ASSUME NEW ch \in Chan, Exit(ch) PROVE OnePlace'
  <2>1. \A k \in Chan, c \in Conn : Holds(k, c)' <=> Holds(k, c)
    BY <1>16, <1>1 DEF Holds, Exit
  <2>2. outcome' = outcome /\ \A c \in Conn : Carried(c)' => Carried(c)
    BY <1>16, <1>1 DEF Carried, Exit
  <2>3. /\ apc' \in {"getCh", "spawn", "send"} => aconn' \in Conn
        /\ \A k \in Chan : wpc'[k] = "serving" => wconn'[k] \in Conn
    BY <1>16, <1>1 DEF Exit
  <2> QED
    BY <1>1, <2>1, <2>2, <2>3, PlaceKept
<1>17. ASSUME NEW ch \in Chan, Put(ch) PROVE OnePlace'
  <2>1. \A k \in Chan, c \in Conn : Holds(k, c)' <=> Holds(k, c)
    BY <1>17, <1>1 DEF Holds, Put
  <2>2. outcome' = outcome /\ \A c \in Conn : Carried(c)' => Carried(c)
    BY <1>17, <1>1 DEF Carried, Put
  <2>3. /\ apc' \in {"getCh", "spawn", "send"} => aconn' \in Conn
        /\ \A k \in Chan : wpc'[k] = "serving" => wconn'[k] \in Conn
    BY <1>17, <1>1 DEF Put
  <2> QED
    BY <1>1, <2>1, <2>2, <2>3, PlaceKept
<1>18. ASSUME CleanStart PROVE OnePlace'
  <2>1. \A k \in Chan, c \in Conn : Holds(k, c)' <=> Holds(k, c)
    BY <1>18, <1>1 DEF Holds, CleanStart
  <2>2. outcome' = outcome /\ \A c \in Conn : Carried(c)' => Carried(c)
    BY <1>18, <1>1 DEF Carried, CleanStart
  <2>3. /\ apc' \in {"getCh", "spawn", "send"} => aconn' \in Conn
        /\ \A k \in Chan : wpc'[k] = "serving" => wconn'[k] \in Conn
    BY <1>18, <1>1 DEF CleanStart
  <2> QED
    BY <1>1, <2>1, <2>2, <2>3, PlaceKept
<1>19. ASSUME CleanLocked PROVE OnePlace'
  <2>1. \A k \in Chan, c \in Conn : Holds(k, c)' <=> Holds(k, c)
    BY <1>19, <1>1 DEF Holds, CleanLocked, Kept
  <2>2. outcome' = outcome /\ \A c \in Conn : Carried(c)' => Carried(c)
    BY <1>19, <1>1 DEF Carried, CleanLocked, Kept
  <2>3. /\ apc' \in {"getCh", "spawn", "send"} => aconn' \in Conn
        /\ \A k \in Chan : wpc'[k] = "serving" => wconn'[k] \in Conn
    BY <1>19, <1>1 DEF CleanLocked, Kept
  <2> QED
    BY <1>1, <2>1, <2>2, <2>3, PlaceKept
<1>20. ASSUME CleanSend PROVE OnePlace'
  <2> DEFINE h == Head(scratch)
  <2>1. h \in Chan /\ SendTo(h, Nil) /\ Nil \in Conn \cup {Nil} /\ Nil \notin Conn
    BY <1>20, <1>1 DEF TypeOK, InHand, CleanSend
  <2>2. buf[h] = <<>> /\ wpc[h] = "recv"
    BY <1>20, <2>1, Reachable DEF CleanSend
  <2> HIDE DEF h
  <2>3. \A k \in Chan, c \in Conn : Holds(k, c)' <=> Holds(k, c)
    BY <1>1, <2>1, <2>2, SendHolds
  <2>4. \A k \in Chan : wpc'[k] = "serving" => wconn'[k] \in Conn
    BY <1>1, <2>1, <2>2, SendHolds
  <2>5. outcome' = outcome /\ UNCHANGED acceptor
    BY <1>20 DEF CleanSend
  <2> QED
    BY <1>1, <2>3, <2>4, <2>5, PlaceKept DEF Carried
<1>21. ASSUME CleanAgain PROVE OnePlace'
  <2>1. \A k \in Chan, c \in Conn : Holds(k, c)' <=> Holds(k, c)
    BY <1>21, <1>1 DEF Holds, CleanAgain
  <2>2. outcome' = outcome /\ \A c \in Conn : Carried(c)' => Carried(c)
    BY <1>21, <1>1 DEF Carried, CleanAgain
  <2>3. /\ apc' \in {"getCh", "spawn", "send"} => aconn' \in Conn
        /\ \A k \in Chan : wpc'[k] = "serving" => wconn'[k] \in Conn
    BY <1>21, <1>1 DEF CleanAgain
  <2> QED
    BY <1>1, <2>1, <2>2, <2>3, PlaceKept
<1>22. ASSUME Tick PROVE OnePlace'
  <2>1. \A k \in Chan, c \in Conn : Holds(k, c)' <=> Holds(k, c)
    BY <1>22, <1>1 DEF Holds, Tick
  <2>2. outcome' = outcome /\ \A c \in Conn : Carried(c)' => Carried(c)
    BY <1>22, <1>1 DEF Carried, Tick
  <2>3. /\ apc' \in {"getCh", "spawn", "send"} => aconn' \in Conn
        /\ \A k \in Chan : wpc'[k] = "serving" => wconn'[k] \in Conn
    BY <1>22, <1>1 DEF Tick
  <2> QED
    BY <1>1, <2>1, <2>2, <2>3, PlaceKept
<1>23. CASE UNCHANGED vars
  <2>1. \A k \in Chan, c \in Conn : Holds(k, c)' <=> Holds(k, c)
    BY <1>23, <1>1 DEF Holds, vars
  <2>2. outcome' = outcome /\ \A c \in Conn : Carried(c)' => Carried(c)
    BY <1>23, <1>1 DEF Carried, vars
  <2>3. /\ apc' \in {"getCh", "spawn", "send"} => aconn' \in Conn
        /\ \A k \in Chan : wpc'[k] = "serving" => wconn'[k] \in Conn
    BY <1>23, <1>1 DEF vars
  <2> QED
    BY <1>1, <2>1, <2>2, <2>3, PlaceKept
<1> QED
  BY <1>1, <1>2, <1>3, <1>4, <1>5, <1>6, <1>7, <1>8, <1>9, <1>10, <1>11, <1>12, <1>13,
     <1>14, <1>15, <1>16, <1>17, <1>18, <1>19, <1>20, <1>21, <1>22, <1>23 DEF Next,
     Acceptor, WorkerLoop, Cleaner

\* Stop leaves ready empty, and the acceptor and the cleaner start with nothing.
LEMMA HandStep == IInv /\ [Next]_vars => InHand' /\ NothingReadyAfterStop'
<1> SUFFICES ASSUME IInv, [Next]_vars PROVE InHand' /\ NothingReadyAfterStop'
  OBVIOUS
<1> USE DEF pool, workers, acceptor, cleaner
<1>1. TypeOK /\ InHand /\ NothingReadyAfterStop /\ [Next]_vars
  BY DEF IInv, PoolInv
<1>2. ASSUME NEW c \in Conn, Serve(c) PROVE InHand' /\ NothingReadyAfterStop'
  BY <1>2, <1>1 DEF InHand, NothingReadyAfterStop, Serve
<1>3. ASSUME TakeReady PROVE InHand' /\ NothingReadyAfterStop'
  BY <1>3, <1>1 DEF InHand, NothingReadyAfterStop, TypeOK, TakeReady
<1>4. ASSUME CreateWorker PROVE InHand' /\ NothingReadyAfterStop'
  BY <1>4, <1>1 DEF InHand, NothingReadyAfterStop, CreateWorker, MayCreate
<1>5. ASSUME Refuse PROVE InHand' /\ NothingReadyAfterStop'
  BY <1>5, <1>1 DEF InHand, NothingReadyAfterStop, Refuse, Answer
<1>6. ASSUME Spawn PROVE InHand' /\ NothingReadyAfterStop'
  BY <1>6, <1>1 DEF InHand, NothingReadyAfterStop, Spawn
<1>7. ASSUME Send PROVE InHand' /\ NothingReadyAfterStop'
  BY <1>7, <1>1 DEF InHand, NothingReadyAfterStop, Send, Answer
<1>8. ASSUME StopClose PROVE InHand' /\ NothingReadyAfterStop'
  BY <1>8, <1>1 DEF InHand, NothingReadyAfterStop, StopClose
<1>9. ASSUME StopLock PROVE InHand' /\ NothingReadyAfterStop'
  BY <1>9, <1>1 DEF InHand, NothingReadyAfterStop, StopLock
<1>10. ASSUME StopSend PROVE InHand' /\ NothingReadyAfterStop'
  BY <1>10, <1>1 DEF InHand, NothingReadyAfterStop, StopSend
<1>11. ASSUME StopUnlock PROVE InHand' /\ NothingReadyAfterStop'
  BY <1>11, <1>1 DEF InHand, NothingReadyAfterStop, StopUnlock
<1>12. ASSUME NEW ch \in Chan, Receive(ch) PROVE InHand' /\ NothingReadyAfterStop'
  BY <1>12, <1>1 DEF InHand, NothingReadyAfterStop, Receive, Deliver
<1>13. ASSUME NEW ch \in Chan, WorkerFuncReturns(ch) PROVE InHand' /\ NothingReadyAfterStop'
  BY <1>13, <1>1 DEF InHand, NothingReadyAfterStop, WorkerFuncReturns
<1>14. ASSUME NEW ch \in Chan, Stamp(ch) PROVE InHand' /\ NothingReadyAfterStop'
  BY <1>14, <1>1 DEF InHand, NothingReadyAfterStop, Stamp
<1>15. ASSUME NEW ch \in Chan, Release(ch) PROVE InHand' /\ NothingReadyAfterStop'
  BY <1>15, <1>1 DEF InHand, NothingReadyAfterStop, Release, MayReturn
<1>16. ASSUME NEW ch \in Chan, Exit(ch) PROVE InHand' /\ NothingReadyAfterStop'
  BY <1>16, <1>1 DEF InHand, NothingReadyAfterStop, Exit
<1>17. ASSUME NEW ch \in Chan, Put(ch) PROVE InHand' /\ NothingReadyAfterStop'
  BY <1>17, <1>1 DEF InHand, NothingReadyAfterStop, Put
<1>18. ASSUME CleanStart PROVE InHand' /\ NothingReadyAfterStop'
  BY <1>18, <1>1 DEF InHand, NothingReadyAfterStop, CleanStart
<1>19. ASSUME CleanLocked PROVE InHand' /\ NothingReadyAfterStop'
  <2> DEFINE n == CleanUpTo(ready, crit)
  <2>1. ready \in Seq(Chan) /\ n \in 0 .. Len(ready) /\ ready' = SubSeq(ready, n + 1, Len(ready))
    BY <1>19, <1>1, CleanUpToIs DEF CleanLocked, Kept, TypeOK
  <2> HIDE DEF n
  <2>2. ready = <<>> => ready' = <<>>
    BY <2>1
  <2> QED
    BY <1>19, <1>1, <2>2 DEF InHand, NothingReadyAfterStop, CleanLocked
<1>20. ASSUME CleanSend PROVE InHand' /\ NothingReadyAfterStop'
  BY <1>20, <1>1 DEF InHand, NothingReadyAfterStop, CleanSend
<1>21. ASSUME CleanAgain PROVE InHand' /\ NothingReadyAfterStop'
  BY <1>21, <1>1 DEF InHand, NothingReadyAfterStop, CleanAgain
<1>22. ASSUME Tick PROVE InHand' /\ NothingReadyAfterStop'
  BY <1>22, <1>1 DEF InHand, NothingReadyAfterStop, Tick
<1>23. CASE UNCHANGED vars
  BY <1>23, <1>1 DEF InHand, NothingReadyAfterStop, vars
<1> QED
  BY <1>1, <1>2, <1>3, <1>4, <1>5, <1>6, <1>7, <1>8, <1>9, <1>10, <1>11, <1>12, <1>13,
     <1>14, <1>15, <1>16, <1>17, <1>18, <1>19, <1>20, <1>21, <1>22, <1>23 DEF Next,
     Acceptor, WorkerLoop, Cleaner

\* The invariant holds in a new pool,
LEMMA InvInit == Init => IInv
<1> SUFFICES ASSUME Init PROVE IInv
  OBVIOUS
<1> USE WorkerPoolAssumption
<1>1. TypeOK
  <2>1. workerChanCap \in {0, 1} /\ 0 \in 0 .. MaxTime /\ 0 \in 0 .. Max
        /\ 0 \in -MaxIdle .. MaxTime
    BY DEF Init
  <2>2. \A ch \in Chan : buf[ch] = <<>> /\ Len(buf[ch]) <= workerChanCap
    BY <2>1 DEF Init
  <2>3. /\ buf \in [Chan -> Seq(Conn \cup {Nil})] /\ wpc \in [Chan -> InUse \cup {"none", "put"}]
        /\ wconn \in [Chan -> Conn \cup {Nil}] /\ lastUse \in [Chan -> 0 .. MaxTime]
        /\ outcome \in [Conn -> {"new", "offered", "refused", "served"}]
        /\ ready \in Seq(Chan) /\ scratch \in Seq(Chan)
    BY <2>1 DEF Init
  <2>4. /\ workersCount \in 0 .. Max /\ mustStop \in BOOLEAN /\ stopCh \in BOOLEAN
        /\ now \in 0 .. MaxTime /\ crit \in -MaxIdle .. MaxTime
        /\ apc = "idle" /\ ach = Nil /\ aconn = Nil /\ cpc = "start"
    BY <2>1 DEF Init
  <2> QED
    BY <2>1, <2>2, <2>3, <2>4 DEF TypeOK
<1>2. Alive = {}
  BY DEF Init, Alive, InUse
<1>3. IsFiniteSet(Alive) /\ Cardinality(Alive) = 0
  BY <1>2, FS_EmptySet
<1>4. WorkersCounted
  BY <1>3 DEF Init, WorkersCounted, Alive
<1>5. OneHandle
  <2> SUFFICES ASSUME NEW ch \in Chan PROVE Handles(ch) = 0 /\ wpc[ch] # "recv"
    BY DEF OneHandle
  <2>1. Places(ready, ch) = 0 /\ Places(scratch, ch) = 0 /\ Len(buf[ch]) = 0
    BY PlacesEmpty DEF Init
  <2> QED
    BY <2>1 DEF Init, Handles
<1>6. NothingReadyAfterStop /\ InHand /\ OnePlace
  BY DEF Init, NothingReadyAfterStop, InHand, OnePlace, Carried, Holds
<1> QED
  BY <1>1, <1>3, <1>4, <1>5, <1>6 DEF IInv, PoolInv

\* and after every step.
LEMMA InvStep == IInv /\ [Next]_vars => IInv'
BY TypeStep, CountedStep, HandleStep, PlaceStep, HandStep DEF IInv, PoolInv

\* At any moment the types and the limits of workerpool.go hold, workersCount is
\* right, nothing is in ready after Stop and each connection is in one place.
THEOREM PoolIsRight == Spec => []PoolInv
<1>1. IInv => PoolInv
  BY DEF IInv
<1> QED
  BY <1>1, InvInit, InvStep, PTL DEF Spec

\* At any moment a worker that waits can be reached in exactly one way, and no
\* other can: no worker is forgotten and no send of Serve, clean or Stop blocks.
THEOREM OneHandleAlways == Spec => []OneHandle
<1>1. IInv => OneHandle
  BY DEF IInv
<1> QED
  BY <1>1, InvInit, InvStep, PTL DEF Spec

-----------------------------------------------------------------------------
(***************************************************************************)
(* The pool implements the dispatcher.                                     *)
(***************************************************************************)
Limited == IsFiniteSet(Serving) /\ Cardinality(Serving) <= Max

\* Each connection served has a worker of its own that is alive.
LEMMA ServingIsLimited == IInv => Limited
<1> SUFFICES ASSUME IInv PROVE Limited
  OBVIOUS
<1> DEFINE Image == {wconn[ch] : ch \in Alive}
<1>1. IsFiniteSet(Alive) /\ Cardinality(Alive) \in Nat /\ Cardinality(Alive) <= Max
  <2>1. workersCount <= Max /\ workersCount \in Nat /\ Max \in Nat
    BY WorkerPoolAssumption DEF IInv, PoolInv, WorkersCounted, TypeOK
  <2>2. IsFiniteSet(Alive)
    BY DEF IInv
  <2> QED
    BY <2>1, <2>2, AliveCount
<1>2. IsFiniteSet(Image) /\ Cardinality(Image) <= Cardinality(Alive)
  <2> DEFINE f == [ch \in Alive |-> wconn[ch]]
  <2>1. Image = {f[ch] : ch \in Alive} /\ f \in [Alive -> Image]
    OBVIOUS
  <2> HIDE DEF f, Image
  <2>2. f \in Surjection(Alive, Image)
    BY <2>1 DEF Surjection
  <2> QED
    BY <1>1, <2>2, FS_Surjection
<1>3. Serving \subseteq Image
  BY DEF Serving, Alive, InUse
<1> HIDE DEF Image
<1>4. IsFiniteSet(Serving) /\ Cardinality(Serving) <= Cardinality(Image)
  BY <1>2, <1>3, FS_Subset
<1>5. Cardinality(Serving) \in Nat /\ Cardinality(Image) \in Nat /\ Max \in Nat
  BY <1>2, <1>4, FS_CardinalityType, WorkerPoolAssumption
<1> QED
  BY <1>1, <1>2, <1>4, <1>5 DEF Limited

\* What a worker that takes a message from its channel does to the dispatcher.
LEMMA DeliverBegins ==
  ASSUME IInv, IInv', NEW ch \in Chan, NEW x \in Conn \cup {Nil}, Deliver(ch, x),
         \A c \in Conn : outcome'[c] = outcome[c],
         x \in Conn => outcome[x] = "offered" /\ x \notin Serving
  PROVE  [D!Next]_D!dvars
<1> USE WorkerPoolAssumption
<1>1. /\ wpc \in [Chan -> InUse \cup {"none", "put"}] /\ wconn \in [Chan -> Conn \cup {Nil}]
      /\ wpc[ch] = "recv" /\ wpc' = [wpc EXCEPT ![ch] = IF x = Nil THEN "exit" ELSE "serving"]
      /\ wconn' = [wconn EXCEPT ![ch] = x]
  BY DEF IInv, PoolInv, TypeOK, Deliver
<1>2. With("served")' = With("served") /\ With("refused")' = With("refused")
      /\ With("offered")' = With("offered")
  BY DEF With
<1>3. CASE x = Nil
  <2>1. Serving' = Serving
    BY <1>1, <1>3 DEF Serving
  <2> QED
    BY <1>2, <2>1 DEF D!dvars
<1>4. CASE x # Nil
  <2>1. Serving' = Serving \cup {x}
    BY <1>1, <1>4 DEF Serving
  <2>2. x \in With("offered") \ Serving
    BY <1>4 DEF With
  <2>3. Cardinality(Serving) < Max
    <3>1. Limited /\ Limited'
      <4>1. IInv' => Limited'
        BY ServingIsLimited, PTL
      <4> QED
        BY <4>1, ServingIsLimited
    <3>2. Cardinality(Serving') = Cardinality(Serving) + 1 /\ Cardinality(Serving) \in Nat
      BY <2>1, <2>2, <3>1, FS_AddElement, FS_CardinalityType DEF Limited
    <3> QED
      BY <3>1, <3>2 DEF Limited
  <2>4. D!Begin(x)
    <3>1. (With("offered") \ Serving)' = (With("offered") \ Serving) \ {x}
      BY <2>1 DEF With
    <3>2. UNCHANGED <<With("served"), With("refused")>>
      BY <1>2
    <3>3. D!Cardinality(Serving) = Cardinality(Serving)
      BY Zenon DEF D!Cardinality, Cardinality
    <3> QED
      BY <2>1, <2>2, <2>3, <3>1, <3>2, <3>3, Zenon DEF D!Begin
  <2> QED
    BY <1>4, <2>4 DEF D!Next
<1> QED
  BY <1>3, <1>4

\* A step of the pool is a step of the dispatcher or none.
LEMMA DispatcherStep == IInv /\ IInv' /\ [Next]_vars => [D!Next]_D!dvars
<1> SUFFICES ASSUME IInv, IInv', [Next]_vars PROVE [D!Next]_D!dvars
  OBVIOUS
<1> USE WorkerPoolAssumption DEF pool, workers, acceptor, cleaner
<1>1. /\ TypeOK /\ InHand /\ OnePlace /\ [Next]_vars
      /\ apc \in {"getCh", "spawn", "send"} => aconn \in Conn
      /\ \A k \in Chan : wpc[k] = "serving" => wconn[k] \in Conn
      /\ wpc \in [Chan -> InUse \cup {"none", "put"}]
      /\ \A c \in Serving : outcome[c] = "offered"
      /\ \A c \in Conn : Carried(c) => c \in With("offered") \ Serving
  <2>1. TypeOK /\ InHand /\ OnePlace
    BY DEF IInv, PoolInv
  <2>2. \A c \in Serving : \E k \in Chan : Holds(k, c)
    BY DEF Serving, Holds
  <2> QED
    BY <2>1, <2>2 DEF OnePlace, TypeOK, With, Serving
<1>2. ASSUME NEW c \in Conn, Serve(c) PROVE [D!Next]_D!dvars
  <2>1. /\ outcome[c] = "new" /\ outcome' = [outcome EXCEPT ![c] = "offered"] /\ Serving' = Serving
        /\ outcome \in [Conn -> {"new", "offered", "refused", "served"}]
    BY <1>2, <1>1 DEF Serve, Serving, TypeOK
  <2>2. c \notin Serving
    BY <1>1, <2>1
  <2>3. D!Offer(c)
    BY <2>1, <2>2 DEF D!Offer, With
  <2> QED
    BY <2>3 DEF D!Next
<1>3. ASSUME TakeReady PROVE [D!Next]_D!dvars
  <2>1. outcome' = outcome /\ Serving' = Serving
    BY <1>3, <1>1 DEF Serving, TypeOK, TakeReady
  <2> QED
    BY <2>1 DEF With, D!dvars
<1>4. ASSUME CreateWorker PROVE [D!Next]_D!dvars
  <2>1. outcome' = outcome /\ Serving' = Serving
    BY <1>4, <1>1 DEF Serving, TypeOK, CreateWorker, MayCreate
  <2> QED
    BY <2>1 DEF With, D!dvars
<1>5. ASSUME Refuse PROVE [D!Next]_D!dvars
  <2>1. /\ aconn \in Conn /\ Carried(aconn) /\ outcome' = [outcome EXCEPT ![aconn] = "refused"]
        /\ Serving' = Serving /\ outcome \in [Conn -> {"new", "offered", "refused", "served"}]
    BY <1>5, <1>1 DEF Refuse, Serving, Carried, Answer, TypeOK
  <2>2. aconn \in With("offered") \ Serving
    BY <1>1, <2>1
  <2>3. D!Refuse(aconn)
    BY <2>1, <2>2 DEF D!Refuse, With
  <2> QED
    BY <2>1, <2>3 DEF D!Next
<1>6. ASSUME Spawn PROVE [D!Next]_D!dvars
  <2>1. outcome' = outcome /\ Serving' = Serving
    BY <1>6, <1>1 DEF Serving, TypeOK, Spawn
  <2> QED
    BY <2>1 DEF With, D!dvars
<1>7. ASSUME Send PROVE [D!Next]_D!dvars
  <2>1. /\ aconn \in Conn /\ ach \in Chan /\ SendTo(ach, aconn) /\ Carried(aconn)
        /\ outcome' = [outcome EXCEPT ![aconn] = "offered"]
    BY <1>7, <1>1 DEF InHand, Carried, Send, Answer
  <2>2. aconn \notin Serving /\ outcome[aconn] = "offered" /\ \A c \in Conn : outcome'[c] = outcome[c]
    BY <1>1, <2>1 DEF With, TypeOK
  <2>3. CASE Deliver(ach, aconn)
    BY <2>1, <2>2, <2>3, DeliverBegins
  <2>4. CASE UNCHANGED workers
    BY <2>2, <2>4 DEF Serving, With, D!dvars
  <2> QED
    BY <2>1, <2>3, <2>4 DEF SendTo
<1>8. ASSUME StopClose PROVE [D!Next]_D!dvars
  <2>1. outcome' = outcome /\ Serving' = Serving
    BY <1>8, <1>1 DEF Serving, TypeOK, StopClose
  <2> QED
    BY <2>1 DEF With, D!dvars
<1>9. ASSUME StopLock PROVE [D!Next]_D!dvars
  <2>1. outcome' = outcome /\ Serving' = Serving
    BY <1>9, <1>1 DEF Serving, TypeOK, StopLock
  <2> QED
    BY <2>1 DEF With, D!dvars
<1>10. ASSUME StopSend PROVE [D!Next]_D!dvars
  <2>1. Head(ready) \in Chan /\ SendTo(Head(ready), Nil) /\ outcome' = outcome
    BY <1>10, <1>1 DEF TypeOK, InHand, StopSend
  <2>2. CASE Deliver(Head(ready), Nil)
    BY <2>1, <2>2, DeliverBegins
  <2>3. CASE UNCHANGED workers
    BY <2>1, <2>3 DEF Serving, With, D!dvars
  <2> QED
    BY <2>1, <2>2, <2>3 DEF SendTo
<1>11. ASSUME StopUnlock PROVE [D!Next]_D!dvars
  <2>1. outcome' = outcome /\ Serving' = Serving
    BY <1>11, <1>1 DEF Serving, TypeOK, StopUnlock
  <2> QED
    BY <2>1 DEF With, D!dvars
<1>12. ASSUME NEW ch \in Chan, Receive(ch) PROVE [D!Next]_D!dvars
  <2> DEFINE x == Head(buf[ch])
  <2>1. /\ Deliver(ch, x) /\ buf[ch] # <<>> /\ outcome' = outcome /\ wpc[ch] = "recv"
        /\ x \in Conn \cup {Nil}
    BY <1>12, <1>1 DEF Receive, Deliver, TypeOK
  <2>2. Holds(ch, x)
    BY <2>1 DEF Holds
  <2> HIDE DEF x
  <2>3. ASSUME x \in Conn PROVE outcome[x] = "offered" /\ x \notin Serving
    <3>1. outcome[x] = "offered" /\ \A k \in Chan : Holds(k, x) => k = ch
      BY <1>1, <2>2, <2>3 DEF OnePlace
    <3> QED
      BY <2>1, <3>1 DEF Serving, Holds
  <2> QED
    BY <2>1, <2>3, DeliverBegins
<1>13. ASSUME NEW ch \in Chan, WorkerFuncReturns(ch) PROVE [D!Next]_D!dvars
  <2> DEFINE d == wconn[ch]
  <2>1. /\ d \in Conn /\ d \in Serving /\ Holds(ch, d)
        /\ outcome' = [outcome EXCEPT ![d] = "served"]
        /\ outcome \in [Conn -> {"new", "offered", "refused", "served"}]
    BY <1>13, <1>1 DEF Holds, WorkerFuncReturns, Serving, TypeOK
  <2>2. \A k \in Chan : Holds(k, d) => k = ch
    BY <1>1, <2>1 DEF OnePlace
  <2>3. Serving' = Serving \ {d}
    BY <1>13, <1>1, <2>2 DEF WorkerFuncReturns, Serving, Holds
  <2> HIDE DEF d
  <2>4. outcome[d] = "offered"
    BY <1>1, <2>1
  <2>5. D!Finish(d)
    BY <2>1, <2>3, <2>4 DEF D!Finish, With
  <2> QED
    BY <2>1, <2>5 DEF D!Next
<1>14. ASSUME NEW ch \in Chan, Stamp(ch) PROVE [D!Next]_D!dvars
  <2>1. outcome' = outcome /\ Serving' = Serving
    BY <1>14, <1>1 DEF Serving, TypeOK, Stamp
  <2> QED
    BY <2>1 DEF With, D!dvars
<1>15. ASSUME NEW ch \in Chan, Release(ch) PROVE [D!Next]_D!dvars
  <2>1. outcome' = outcome /\ Serving' = Serving
    BY <1>15, <1>1 DEF Serving, TypeOK, Release, MayReturn
  <2> QED
    BY <2>1 DEF With, D!dvars
<1>16. ASSUME NEW ch \in Chan, Exit(ch) PROVE [D!Next]_D!dvars
  <2>1. outcome' = outcome /\ Serving' = Serving
    BY <1>16, <1>1 DEF Serving, TypeOK, Exit
  <2> QED
    BY <2>1 DEF With, D!dvars
<1>17. ASSUME NEW ch \in Chan, Put(ch) PROVE [D!Next]_D!dvars
  <2>1. outcome' = outcome /\ Serving' = Serving
    BY <1>17, <1>1 DEF Serving, TypeOK, Put
  <2> QED
    BY <2>1 DEF With, D!dvars
<1>18. ASSUME CleanStart PROVE [D!Next]_D!dvars
  <2>1. outcome' = outcome /\ Serving' = Serving
    BY <1>18, <1>1 DEF Serving, TypeOK, CleanStart
  <2> QED
    BY <2>1 DEF With, D!dvars
<1>19. ASSUME CleanLocked PROVE [D!Next]_D!dvars
  <2>1. outcome' = outcome /\ Serving' = Serving
    BY <1>19, <1>1 DEF Serving, TypeOK, CleanLocked, Kept
  <2> QED
    BY <2>1 DEF With, D!dvars
<1>20. ASSUME CleanSend PROVE [D!Next]_D!dvars
  <2>1. Head(scratch) \in Chan /\ SendTo(Head(scratch), Nil) /\ outcome' = outcome
    BY <1>20, <1>1 DEF TypeOK, InHand, CleanSend
  <2>2. CASE Deliver(Head(scratch), Nil)
    BY <2>1, <2>2, DeliverBegins
  <2>3. CASE UNCHANGED workers
    BY <2>1, <2>3 DEF Serving, With, D!dvars
  <2> QED
    BY <2>1, <2>2, <2>3 DEF SendTo
<1>21. ASSUME CleanAgain PROVE [D!Next]_D!dvars
  <2>1. outcome' = outcome /\ Serving' = Serving
    BY <1>21, <1>1 DEF Serving, TypeOK, CleanAgain
  <2> QED
    BY <2>1 DEF With, D!dvars
<1>22. ASSUME Tick PROVE [D!Next]_D!dvars
  <2>1. outcome' = outcome /\ Serving' = Serving
    BY <1>22, <1>1 DEF Serving, TypeOK, Tick
  <2> QED
    BY <2>1 DEF With, D!dvars
<1>23. CASE UNCHANGED vars
  <2>1. outcome' = outcome /\ Serving' = Serving
    BY <1>23, <1>1 DEF Serving, TypeOK, vars
  <2> QED
    BY <2>1 DEF With, D!dvars
<1> QED
  BY <1>1, <1>2, <1>3, <1>4, <1>5, <1>6, <1>7, <1>8, <1>9, <1>10, <1>11, <1>12, <1>13,
     <1>14, <1>15, <1>16, <1>17, <1>18, <1>19, <1>20, <1>21, <1>22, <1>23 DEF Next,
     Acceptor, WorkerLoop, Cleaner

\* Every step of the pool is one of the dispatcher's or leaves it alone: each
\* connection is served once or refused, at most MaxWorkersCount at a time.
THEOREM PoolImplementsDispatcher == Spec => ImplementsDispatcher
<1>1. Init => D!Init
  BY DEF Init, D!Init, Serving, With
<1> QED
  BY <1>1, InvInit, InvStep, DispatcherStep, PTL DEF Spec, ImplementsDispatcher, D!Spec

-----------------------------------------------------------------------------
(***************************************************************************)
(* The server takes the pool's steps.                                      *)
(***************************************************************************)
PoolMoves == UNCHANGED server /\ (Acceptor \/ Cleaner \/ Tick \/ \E ch \in Chan : WorkerLoop(ch))

\* Serve is the pool's acceptor and serveConn its WorkerFunc: a step of the server
\* is a step of the pool or leaves the pool alone.
LEMMA ServerLifts ==
  ASSUME ServerTypeOK, ServeInTurn, [SNext]_svars
  PROVE  [Next]_vars
<1>1. CountAndServe => \E c \in Conn : Serve(c)
  BY DEF CountAndServe, ServeInTurn
<1>2. AcceptFails => StopClose
  BY DEF AcceptFails
<1>3. \A ch \in Chan : CleanupConcurrency(ch) => WorkerFuncReturns(ch)
  BY DEF CleanupConcurrency
<1>4. CountWaiting \/ AcceptNil \/ ServeReturns \/ Uncount \/ CloseRefused \/ Leave
        => UNCHANGED vars
  BY DEF CountWaiting, AcceptNil, ServeReturns, Uncount, CloseRefused, Leave
<1>5. \A c \in Conn : AcceptConn(c) => UNCHANGED vars
  BY DEF AcceptConn
<1>6. \A ch \in Chan : EnterServeConn(ch) \/ ReplyAndClose(ch) \/ CleanupOpen(ch) => UNCHANGED vars
  BY DEF EnterServeConn, ReplyAndClose, CleanupOpen
<1>7. UNCHANGED svars => UNCHANGED vars
  BY DEF svars
<1> QED
  BY <1>1, <1>2, <1>3, <1>4, <1>5, <1>6, <1>7 DEF Next, SNext, ServeLoop, ServeConn, PoolStep

\* What the pool does on its own: it may refuse the connection it was given, and
\* lets no worker leave its connection.
LEMMA PoolKeeps ==
  ASSUME IInv, PoolMoves
  PROVE  /\ apc' \in {"getCh", "spawn", "send"} => apc \in {"getCh", "spawn", "send"} /\ aconn' = aconn
         /\ \A c \in Conn : \/ outcome'[c] = outcome[c]
                            \/ /\ apc \in {"getCh", "spawn", "send"} /\ c = aconn
                               /\ outcome[c] = "offered" /\ outcome'[c] = "refused"
         /\ \A ch \in Chan : wpc[ch] = "serving" => wpc'[ch] = "serving" /\ wconn'[ch] = wconn[ch]
<1> DEFINE Keeps ==
      /\ apc' \in {"getCh", "spawn", "send"} => apc \in {"getCh", "spawn", "send"} /\ aconn' = aconn
      /\ \A c \in Conn : \/ outcome'[c] = outcome[c]
                         \/ /\ apc \in {"getCh", "spawn", "send"} /\ c = aconn
                            /\ outcome[c] = "offered" /\ outcome'[c] = "refused"
      /\ \A ch \in Chan : wpc[ch] = "serving" => wpc'[ch] = "serving" /\ wconn'[ch] = wconn[ch]
<1> SUFFICES Keeps
  OBVIOUS
<1> USE DEF pool, workers, acceptor, cleaner
<1>1. /\ TypeOK /\ InHand /\ PoolMoves /\ wpc \in [Chan -> InUse \cup {"none", "put"}]
      /\ wconn \in [Chan -> Conn \cup {Nil}]
      /\ apc \in {"getCh", "spawn", "send"} => aconn \in Conn /\ outcome[aconn] = "offered"
      /\ outcome \in [Conn -> {"new", "offered", "refused", "served"}]
  BY DEF IInv, PoolInv, TypeOK, OnePlace, Carried
<1>2. ASSUME TakeReady PROVE Keeps
  BY <1>2, <1>1 DEF TakeReady
<1>3. ASSUME CreateWorker PROVE Keeps
  BY <1>3, <1>1 DEF CreateWorker, MayCreate
<1>4. ASSUME Refuse PROVE Keeps
  BY <1>4, <1>1 DEF Refuse, Answer
<1>5. ASSUME Spawn PROVE Keeps
  BY <1>5, <1>1 DEF Spawn
<1>6. ASSUME Send PROVE Keeps
  <2>1. ach \in Chan
    BY <1>6, <1>1 DEF InHand, Send
  <2> QED
    BY <1>6, <1>1, <2>1 DEF Send, Answer, SendTo, Deliver
<1>7. ASSUME StopLock PROVE Keeps
  BY <1>7, <1>1 DEF StopLock
<1>8. ASSUME StopSend PROVE Keeps
  <2>1. Head(ready) \in Chan
    BY <1>8, <1>1 DEF TypeOK, StopSend
  <2> QED
    BY <1>8, <1>1, <2>1 DEF StopSend, SendTo, Deliver
<1>9. ASSUME StopUnlock PROVE Keeps
  BY <1>9, <1>1 DEF StopUnlock
<1>10. ASSUME CleanStart PROVE Keeps
  BY <1>10, <1>1 DEF CleanStart
<1>11. ASSUME CleanLocked PROVE Keeps
  BY <1>11, <1>1 DEF CleanLocked, Kept
<1>12. ASSUME CleanSend PROVE Keeps
  <2>1. Head(scratch) \in Chan
    BY <1>12, <1>1 DEF TypeOK, CleanSend
  <2> QED
    BY <1>12, <1>1, <2>1 DEF CleanSend, SendTo, Deliver
<1>13. ASSUME CleanAgain PROVE Keeps
  BY <1>13, <1>1 DEF CleanAgain
<1>14. ASSUME Tick PROVE Keeps
  BY <1>14, <1>1 DEF Tick
<1>15. ASSUME NEW ch \in Chan, Receive(ch) PROVE Keeps
  BY <1>15, <1>1 DEF Receive, Deliver
<1>16. ASSUME NEW ch \in Chan, Stamp(ch) PROVE Keeps
  BY <1>16, <1>1 DEF Stamp
<1>17. ASSUME NEW ch \in Chan, Release(ch) PROVE Keeps
  BY <1>17, <1>1 DEF Release, MayReturn
<1>18. ASSUME NEW ch \in Chan, Exit(ch) PROVE Keeps
  BY <1>18, <1>1 DEF Exit
<1>19. ASSUME NEW ch \in Chan, Put(ch) PROVE Keeps
  BY <1>19, <1>1 DEF Put
<1> QED
  BY <1>1, <1>2, <1>3, <1>4, <1>5, <1>6, <1>7, <1>8, <1>9, <1>10, <1>11, <1>12, <1>13,
     <1>14, <1>15, <1>16, <1>17, <1>18, <1>19 DEF PoolMoves, Acceptor, WorkerLoop,
     Cleaner

-----------------------------------------------------------------------------
(***************************************************************************)
(* The inductive invariant.                                                *)
(***************************************************************************)
\* The workers that are inside a serveConn.
Busy == {ch \in Chan : scp[ch] # "enter"}

SInv == IInv /\ ServerInv /\ IsFiniteSet(Counted) /\ IsFiniteSet(Busy)

\* The part of the types that says nothing of the counters.
ServerPlaces ==
  /\ srv \in {"start", "accept", "count", "serve", "refused", "close", "panic",
              "panicked", "stop", "returned"}
  /\ sconn \in Conn \cup {Nil}
  /\ scp \in [Chan -> {"enter", "reply", "open", "concurrency"}]
  /\ net \in [Conn -> {"backlog", "open", "closed"}]

\* Serve and each serveConn stay where they may be.
LEMMA TurnStep == SInv /\ [SNext]_svars => ServerPlaces' /\ ServeInTurn' /\ ServeConnInTurn'
<1> SUFFICES ASSUME SInv, [SNext]_svars PROVE ServerPlaces' /\ ServeInTurn' /\ ServeConnInTurn'
  OBVIOUS
<1> USE WorkerPoolAssumption
<1> USE DEF pool, workers, acceptor, cleaner
<1>1. /\ ServerPlaces /\ TypeOK /\ ServeInTurn /\ ServeConnInTurn /\ [SNext]_svars /\ IInv
      /\ outcome \in [Conn -> {"new", "offered", "refused", "served"}]
      /\ wpc \in [Chan -> InUse \cup {"none", "put"}] /\ wconn \in [Chan -> Conn \cup {Nil}]
      /\ \A k \in Chan : wpc[k] = "serving" => wconn[k] \in Conn /\ outcome[wconn[k]] = "offered"
  BY DEF SInv, IInv, ServerInv, ServerTypeOK, ServerPlaces, PoolInv, TypeOK, OnePlace, Holds
<1>2. ASSUME CountWaiting PROVE ServerPlaces' /\ ServeInTurn' /\ ServeConnInTurn'
  <2>1. ServerPlaces'
    BY <1>2, <1>1 DEF ServerPlaces, CountWaiting, vars
  <2>2. ServeInTurn'
    BY <1>2, <1>1 DEF ServeInTurn, ServerPlaces, CountWaiting, vars
  <2>3. ServeConnInTurn'
    BY <1>2, <1>1 DEF ServeConnInTurn, ServerPlaces, CountWaiting, vars
  <2> QED
    BY <2>1, <2>2, <2>3
<1>3. ASSUME CountAndServe PROVE ServerPlaces' /\ ServeInTurn' /\ ServeConnInTurn'
  <2>1. ServerPlaces'
    BY <1>3, <1>1 DEF ServerPlaces, CountAndServe, Serve
  <2>2. ServeInTurn'
    BY <1>3, <1>1 DEF ServeInTurn, ServerPlaces, CountAndServe, Serve
  <2>3. ServeConnInTurn'
    BY <1>3, <1>1 DEF ServeConnInTurn, ServerPlaces, CountAndServe, Serve
  <2> QED
    BY <2>1, <2>2, <2>3
<1>4. ASSUME ServeReturns PROVE ServerPlaces' /\ ServeInTurn' /\ ServeConnInTurn'
  <2>1. ServerPlaces'
    BY <1>4, <1>1 DEF ServerPlaces, ServeReturns, vars
  <2>2. ServeInTurn'
    BY <1>4, <1>1 DEF ServeInTurn, ServerPlaces, ServeReturns, vars
  <2>3. ServeConnInTurn'
    BY <1>4, <1>1 DEF ServeConnInTurn, ServerPlaces, ServeReturns, vars
  <2> QED
    BY <2>1, <2>2, <2>3
<1>5. ASSUME Uncount PROVE ServerPlaces' /\ ServeInTurn' /\ ServeConnInTurn'
  <2>1. ServerPlaces'
    BY <1>5, <1>1 DEF ServerPlaces, Uncount, vars
  <2>2. ServeInTurn'
    BY <1>5, <1>1 DEF ServeInTurn, ServerPlaces, Uncount, vars
  <2>3. ServeConnInTurn'
    BY <1>5, <1>1 DEF ServeConnInTurn, ServerPlaces, Uncount, vars
  <2> QED
    BY <2>1, <2>2, <2>3
<1>6. ASSUME CloseRefused PROVE ServerPlaces' /\ ServeInTurn' /\ ServeConnInTurn'
  <2>1. ServerPlaces'
    BY <1>6, <1>1 DEF ServerPlaces, CloseRefused, vars
  <2>2. ServeInTurn'
    BY <1>6, <1>1 DEF ServeInTurn, ServerPlaces, CloseRefused, vars
  <2>3. ServeConnInTurn'
    BY <1>6, <1>1 DEF ServeConnInTurn, ServerPlaces, CloseRefused, vars
  <2> QED
    BY <2>1, <2>2, <2>3
<1>7. ASSUME Leave PROVE ServerPlaces' /\ ServeInTurn' /\ ServeConnInTurn'
  <2>1. ServerPlaces'
    BY <1>7, <1>1 DEF ServerPlaces, Leave, vars
  <2>2. ServeInTurn'
    BY <1>7, <1>1 DEF ServeInTurn, ServerPlaces, Leave, vars
  <2>3. ServeConnInTurn'
    BY <1>7, <1>1 DEF ServeConnInTurn, ServerPlaces, Leave, vars
  <2> QED
    BY <2>1, <2>2, <2>3
<1>8. ASSUME NEW c \in Conn, AcceptConn(c) PROVE ServerPlaces' /\ ServeInTurn' /\ ServeConnInTurn'
  <2>1. ServerPlaces'
    BY <1>8, <1>1 DEF ServerPlaces, AcceptConn, vars
  <2>2. ServeInTurn'
    BY <1>8, <1>1 DEF ServeInTurn, ServerPlaces, AcceptConn, vars
  <2>3. ServeConnInTurn'
    BY <1>8, <1>1 DEF ServeConnInTurn, ServerPlaces, AcceptConn, vars
  <2> QED
    BY <2>1, <2>2, <2>3
<1>9. ASSUME AcceptFails PROVE ServerPlaces' /\ ServeInTurn' /\ ServeConnInTurn'
  <2>1. ServerPlaces'
    BY <1>9, <1>1 DEF ServerPlaces, AcceptFails, StopClose
  <2>2. ServeInTurn'
    BY <1>9, <1>1 DEF ServeInTurn, ServerPlaces, AcceptFails, StopClose
  <2>3. ServeConnInTurn'
    BY <1>9, <1>1 DEF ServeConnInTurn, ServerPlaces, AcceptFails, StopClose
  <2> QED
    BY <2>1, <2>2, <2>3
<1>10. ASSUME NEW ch \in Chan, EnterServeConn(ch) PROVE ServerPlaces' /\ ServeInTurn' /\ ServeConnInTurn'
  <2>1. ServerPlaces'
    BY <1>10, <1>1 DEF ServerPlaces, EnterServeConn, vars
  <2>2. ServeInTurn'
    BY <1>10, <1>1 DEF ServeInTurn, ServerPlaces, EnterServeConn, vars
  <2>3. ServeConnInTurn'
    BY <1>10, <1>1 DEF ServeConnInTurn, ServerPlaces, EnterServeConn, vars
  <2> QED
    BY <2>1, <2>2, <2>3
<1>11. ASSUME NEW ch \in Chan, ReplyAndClose(ch) PROVE ServerPlaces' /\ ServeInTurn' /\ ServeConnInTurn'
  <2>1. ServerPlaces'
    BY <1>11, <1>1 DEF ServerPlaces, ReplyAndClose, vars
  <2>2. ServeInTurn'
    BY <1>11, <1>1 DEF ServeInTurn, ServerPlaces, ReplyAndClose, vars
  <2>3. ServeConnInTurn'
    BY <1>11, <1>1 DEF ServeConnInTurn, ServerPlaces, ReplyAndClose, vars
  <2> QED
    BY <2>1, <2>2, <2>3
<1>12. ASSUME NEW ch \in Chan, CleanupOpen(ch) PROVE ServerPlaces' /\ ServeInTurn' /\ ServeConnInTurn'
  <2>1. ServerPlaces'
    BY <1>12, <1>1 DEF ServerPlaces, CleanupOpen, vars
  <2>2. ServeInTurn'
    BY <1>12, <1>1 DEF ServeInTurn, ServerPlaces, CleanupOpen, vars
  <2>3. ServeConnInTurn'
    BY <1>12, <1>1 DEF ServeConnInTurn, ServerPlaces, CleanupOpen, vars
  <2> QED
    BY <2>1, <2>2, <2>3
<1>13. ASSUME NEW ch \in Chan, CleanupConcurrency(ch) PROVE ServerPlaces' /\ ServeInTurn' /\ ServeConnInTurn'
  <2>1. ServerPlaces'
    BY <1>13, <1>1 DEF ServerPlaces, CleanupConcurrency, WorkerFuncReturns
  <2>2. ServeInTurn'
    BY <1>13, <1>1 DEF ServeInTurn, ServerPlaces, CleanupConcurrency, WorkerFuncReturns
  <2>3. ServeConnInTurn'
    BY <1>13, <1>1 DEF ServeConnInTurn, ServerPlaces, CleanupConcurrency, WorkerFuncReturns
  <2> QED
    BY <2>1, <2>2, <2>3
<1>14. ASSUME PoolMoves PROVE ServerPlaces' /\ ServeInTurn' /\ ServeConnInTurn'
  <2>1. ServerPlaces'
    BY <1>14, <1>1 DEF ServerPlaces, PoolMoves, server
  <2>2. ServeInTurn'
    <3>1. srv' = srv /\ sconn' = sconn
      BY <1>14 DEF PoolMoves, server
    <3>2. \A c \in Conn : outcome[c] = "refused" => outcome'[c] = "refused"
      BY <1>14, <1>1, PoolKeeps
    <3>3. \A c \in Conn : outcome'[c] = "refused" /\ outcome[c] # "refused"
                           => c = sconn /\ srv = "serve"
      BY <1>14, <1>1, PoolKeeps DEF ServeInTurn
    <3>4. apc' \in {"getCh", "spawn", "send"} => srv = "serve" /\ aconn' = sconn
      BY <1>14, <1>1, PoolKeeps DEF ServeInTurn
    <3> QED
      BY <1>1, <3>1, <3>2, <3>3, <3>4 DEF ServeInTurn, ServerPlaces
  <2>3. ServeConnInTurn'
    BY <1>14, <1>1, PoolKeeps DEF ServeConnInTurn, PoolMoves, server
  <2> QED
    BY <2>1, <2>2, <2>3
<1>15. ASSUME AcceptNil PROVE ServerPlaces' /\ ServeInTurn' /\ ServeConnInTurn'
  <2>1. ServerPlaces'
    BY <1>15, <1>1 DEF ServerPlaces, AcceptNil, vars
  <2>2. ServeInTurn'
    BY <1>15, <1>1 DEF ServeInTurn, AcceptNil, vars
  <2>3. ServeConnInTurn'
    BY <1>15, <1>1 DEF ServeConnInTurn, ServerPlaces, AcceptNil, vars
  <2> QED
    BY <2>1, <2>2, <2>3
<1>16. CASE UNCHANGED svars
  BY <1>16, <1>1 DEF ServerPlaces, ServeInTurn, ServeConnInTurn, svars, vars, server
<1> QED
  BY <1>1, <1>2, <1>3, <1>4, <1>5, <1>6, <1>7, <1>8, <1>9, <1>10, <1>11, <1>12, <1>13,
     <1>14, <1>15, <1>16 DEF SNext, ServeLoop, ServeConn, PoolStep, PoolMoves

-----------------------------------------------------------------------------
(***************************************************************************)
(* s.concurrency.                                                          *)
(***************************************************************************)
\* Entering and leaving a serveConn are counted, and nothing else is.
LEMMA BusyStep == SInv /\ [SNext]_svars => IsFiniteSet(Busy)' /\ ConcurrencyCounts'
<1> DEFINE Right == IsFiniteSet(Busy') /\ concurrency' = Cardinality(Busy')
           Same == scp' = scp /\ concurrency' = concurrency
<1> SUFFICES ASSUME SInv, [SNext]_svars PROVE Right
  BY DEF ConcurrencyCounts, Busy
<1>1. /\ scp \in [Chan -> {"enter", "reply", "open", "concurrency"}] /\ [SNext]_svars
      /\ IsFiniteSet(Busy) /\ concurrency = Cardinality(Busy) /\ Cardinality(Busy) \in Nat
  BY FS_CardinalityType DEF SInv, ServerInv, ServerTypeOK, ConcurrencyCounts, Busy
<1>2. ASSUME CountWaiting PROVE Right
  <2>1. Busy' = Busy /\ concurrency' = concurrency
    BY <1>2, <1>1 DEF Busy, CountWaiting
  <2> QED
    BY <1>1, <2>1
<1>3. ASSUME CountAndServe PROVE Right
  <2>1. Busy' = Busy /\ concurrency' = concurrency
    BY <1>3, <1>1 DEF Busy, CountAndServe
  <2> QED
    BY <1>1, <2>1
<1>4. ASSUME ServeReturns PROVE Right
  <2>1. Busy' = Busy /\ concurrency' = concurrency
    BY <1>4, <1>1 DEF Busy, ServeReturns
  <2> QED
    BY <1>1, <2>1
<1>5. ASSUME Uncount PROVE Right
  <2>1. Busy' = Busy /\ concurrency' = concurrency
    BY <1>5, <1>1 DEF Busy, Uncount
  <2> QED
    BY <1>1, <2>1
<1>6. ASSUME CloseRefused PROVE Right
  <2>1. Busy' = Busy /\ concurrency' = concurrency
    BY <1>6, <1>1 DEF Busy, CloseRefused
  <2> QED
    BY <1>1, <2>1
<1>7. ASSUME Leave PROVE Right
  <2>1. Busy' = Busy /\ concurrency' = concurrency
    BY <1>7, <1>1 DEF Busy, Leave
  <2> QED
    BY <1>1, <2>1
<1>8. ASSUME NEW c \in Conn, AcceptConn(c) PROVE Right
  <2>1. Busy' = Busy /\ concurrency' = concurrency
    BY <1>8, <1>1 DEF Busy, AcceptConn
  <2> QED
    BY <1>1, <2>1
<1>9. ASSUME AcceptFails PROVE Right
  <2>1. Busy' = Busy /\ concurrency' = concurrency
    BY <1>9, <1>1 DEF Busy, AcceptFails
  <2> QED
    BY <1>1, <2>1
<1>10. ASSUME NEW ch \in Chan, EnterServeConn(ch) PROVE Right
  <2>1. Busy' = Busy \cup {ch} /\ ch \notin Busy /\ concurrency' = concurrency + 1
    BY <1>10, <1>1 DEF Busy, EnterServeConn
  <2>2. IsFiniteSet(Busy') /\ Cardinality(Busy') = Cardinality(Busy) + 1
    BY <1>1, <2>1, FS_AddElement
  <2> QED
    BY <1>1, <2>1, <2>2
<1>11. ASSUME NEW ch \in Chan, ReplyAndClose(ch) PROVE Right
  <2>1. Busy' = Busy /\ concurrency' = concurrency
    BY <1>11, <1>1 DEF Busy, ReplyAndClose
  <2> QED
    BY <1>1, <2>1
<1>12. ASSUME NEW ch \in Chan, CleanupOpen(ch) PROVE Right
  <2>1. Busy' = Busy /\ concurrency' = concurrency
    BY <1>12, <1>1 DEF Busy, CleanupOpen
  <2> QED
    BY <1>1, <2>1
<1>13. ASSUME NEW ch \in Chan, CleanupConcurrency(ch) PROVE Right
  <2>1. Busy' = Busy \ {ch} /\ ch \in Busy /\ concurrency' = concurrency - 1
    BY <1>13, <1>1 DEF Busy, CleanupConcurrency, OneLess
  <2>2. IsFiniteSet(Busy') /\ Cardinality(Busy') = Cardinality(Busy) - 1
    BY <1>1, <2>1, FS_RemoveElement
  <2> QED
    BY <1>1, <2>1, <2>2
<1>14. ASSUME PoolMoves PROVE Right
  <2>1. Busy' = Busy /\ concurrency' = concurrency
    BY <1>14, <1>1 DEF Busy, PoolMoves, server
  <2> QED
    BY <1>1, <2>1
<1>15. ASSUME AcceptNil PROVE Right
  <2>1. Busy' = Busy /\ concurrency' = concurrency
    BY <1>15, <1>1 DEF Busy, AcceptNil
  <2> QED
    BY <1>1, <2>1
<1>16. CASE UNCHANGED svars
  BY <1>16, <1>1 DEF svars, server, Busy
<1> QED
  BY <1>1, <1>2, <1>3, <1>4, <1>5, <1>6, <1>7, <1>8, <1>9, <1>10, <1>11, <1>12, <1>13,
     <1>14, <1>15, <1>16 DEF SNext, ServeLoop, ServeConn, PoolStep, PoolMoves

\* s.concurrency counts workers that serve, and those are alive.
LEMMA BusyIsAlive ==
  IInv /\ ServeConnInTurn /\ ConcurrencyCounts => ConcurrencyWithinWorkers /\ concurrency \in 0 .. Max
<1> SUFFICES ASSUME IInv, ServeConnInTurn, ConcurrencyCounts
             PROVE  ConcurrencyWithinWorkers /\ concurrency \in 0 .. Max
  OBVIOUS
<1>1. Busy \subseteq Alive /\ IsFiniteSet(Alive) /\ concurrency = Cardinality(Busy)
  BY DEF IInv, ServeConnInTurn, ConcurrencyCounts, Busy, Alive, InUse
<1>2. concurrency <= Cardinality(Alive) /\ concurrency \in Nat
  BY <1>1, FS_Subset, FS_CardinalityType
<1>3. workersCount >= Cardinality(Alive) /\ Cardinality(Alive) \in Nat
      /\ workersCount \in Nat /\ workersCount <= Max /\ Max \in Nat
  BY AliveCount, WorkerPoolAssumption DEF IInv, PoolInv, TypeOK
<1> QED
  BY <1>2, <1>3 DEF ConcurrencyWithinWorkers

-----------------------------------------------------------------------------
(***************************************************************************)
(* s.open.                                                                 *)
(***************************************************************************)
\* 1 while the wait for a connection is counted.
Wait == IF srv \in {"start", "panicked", "returned"} THEN 0 ELSE 1

\* The pool moves connections about, but leaves them all counted; so does a
\* serveConn that ends, for it has counted its connection out before.
LEMMA CountedKept ==
  ASSUME SInv, PoolMoves
  PROVE  Counted' = Counted
<1>1. /\ ServeInTurn /\ ServeConnInTurn /\ srv' = srv /\ scp' = scp /\ IInv
  BY DEF SInv, ServerInv, PoolMoves, server
<1> DEFINE Left(c) == \E ch \in Chan : wpc[ch] = "serving" /\ wconn[ch] = c /\ scp[ch] = "concurrency"
<1>2. \A c \in Conn : Left(c)' <=> Left(c)
  BY <1>1, PoolKeeps DEF ServeConnInTurn
<1>3. \A c \in Conn : \/ outcome'[c] = outcome[c]
                      \/ srv = "serve" /\ outcome[c] = "offered" /\ outcome'[c] = "refused" /\ ~Left(c)
  <2> SUFFICES ASSUME NEW c \in Conn, outcome'[c] # outcome[c]
               PROVE  srv = "serve" /\ outcome[c] = "offered" /\ outcome'[c] = "refused" /\ ~Left(c)
    OBVIOUS
  <2>1. /\ apc \in {"getCh", "spawn", "send"} /\ c = aconn
        /\ outcome[c] = "offered" /\ outcome'[c] = "refused"
    BY <1>1, PoolKeeps
  <2>2. \A ch \in Chan : ~Holds(ch, c)
    BY <2>1 DEF SInv, IInv, PoolInv, OnePlace, Carried
  <2> QED
    BY <1>1, <2>1, <2>2 DEF ServeInTurn, Holds
<1>4. \A c \in Conn : c \in Counted <=> \/ outcome[c] = "offered" /\ ~Left(c)
                                        \/ outcome[c] = "refused" /\ srv \in {"serve", "refused"}
  BY DEF Counted
<1>5. \A c \in Conn : c \in Counted' <=> \/ outcome'[c] = "offered" /\ ~Left(c)'
                                         \/ outcome'[c] = "refused" /\ srv' \in {"serve", "refused"}
  BY DEF Counted
<1>6. Counted \subseteq Conn /\ Counted' \subseteq Conn
  BY DEF Counted
<1> HIDE DEF Left
<1>7. \A c \in Conn : c \in Counted' <=> c \in Counted
  BY <1>1, <1>2, <1>3, <1>4, <1>5
<1> QED
  BY <1>6, <1>7

\* Every connection is counted when it is given to the pool and counted out once.
LEMMA OpenStep == SInv /\ [SNext]_svars => IsFiniteSet(Counted)' /\ OpenCounts' /\ OpenInTurn'
<1> DEFINE Right == /\ IsFiniteSet(Counted') /\ open' = Cardinality(Counted') + Wait'
                    /\ OpenInTurn'
<1> SUFFICES ASSUME SInv, [SNext]_svars PROVE Right
  BY DEF OpenCounts, Wait
<1>1. /\ ServerPlaces /\ ServeInTurn /\ ServeConnInTurn /\ OpenInTurn /\ [SNext]_svars
      /\ IsFiniteSet(Counted) /\ open = Cardinality(Counted) + Wait /\ Cardinality(Counted) \in Nat
      /\ Wait \in {0, 1}
      /\ outcome \in [Conn -> {"new", "offered", "refused", "served"}]
      /\ wpc \in [Chan -> InUse \cup {"none", "put"}] /\ wconn \in [Chan -> Conn \cup {Nil}]
  BY FS_CardinalityType DEF SInv, IInv, ServerInv, ServerTypeOK, ServerPlaces, OpenCounts, Wait,
     PoolInv, TypeOK
<1>0. \A ch \in Chan : wpc[ch] = "serving" =>
        /\ wconn[ch] \in Conn /\ outcome[wconn[ch]] = "offered"
        /\ \A k \in Chan : wpc[k] = "serving" /\ wconn[k] = wconn[ch] => k = ch
  BY DEF SInv, IInv, PoolInv, OnePlace, Holds
<1>2. ASSUME CountWaiting PROVE Right
  <2>1. Counted' = Counted
    BY <1>2, <1>1 DEF Counted, ServeInTurn, vars, workers, CountWaiting, WaitingToAccept
  <2>2. open' = open + 1 /\ Wait = 0 /\ Wait' = 1
    BY <1>2, <1>1 DEF Wait, CountWaiting, WaitingToAccept
  <2>3. OpenInTurn'
    BY <1>2, <1>1, <2>1 DEF OpenInTurn, ServerPlaces, ServeInTurn, CountWaiting, WaitingToAccept
  <2> QED
    BY <1>1, <2>1, <2>2, <2>3
<1>3. ASSUME CountAndServe PROVE Right
  <2>1. Counted' = Counted \cup {sconn} /\ sconn \notin Counted
    <3>1. sconn \in Conn /\ outcome[sconn] = "new" /\ outcome' = [outcome EXCEPT ![sconn] = "offered"]
          /\ wpc' = wpc /\ wconn' = wconn /\ scp' = scp /\ srv = "count" /\ srv' = "serve"
      BY <1>3, <1>1 DEF CountAndServe, Serve, ServeInTurn, workers
    <3>2. \A ch \in Chan : ~(wpc[ch] = "serving" /\ wconn[ch] = sconn)
      <4>1. outcome[sconn] # "offered"
        BY <3>1
      <4> QED
        BY <1>0, <4>1, Zenon
    <3>3. \A c \in Conn : outcome[c] # "refused"
      BY <1>1, <3>1 DEF ServeInTurn
    <3> QED
      BY <1>1, <3>1, <3>2, <3>3 DEF Counted
  <2>2. IsFiniteSet(Counted') /\ Cardinality(Counted') = Cardinality(Counted) + 1
    BY <1>1, <2>1, FS_AddElement
  <2>3. OpenInTurn'
    BY <1>3, <1>1, <2>1 DEF OpenInTurn, ServerPlaces, ServeInTurn, ServeConnInTurn, CountAndServe, Serve
  <2>4. open' = open + 1 /\ Wait' = Wait
    BY <1>3 DEF Wait, CountAndServe
  <2> QED
    BY <1>1, <2>1, <2>2, <2>3, <2>4
<1>4. ASSUME ServeReturns PROVE Right
  <2>1. Counted' = Counted
    BY <1>4, <1>1 DEF Counted, ServeInTurn, vars, workers, ServeReturns
  <2>2. open' = open /\ Wait' = Wait
    BY <1>4, <1>1 DEF Wait, ServeReturns
  <2>3. OpenInTurn'
    BY <1>4, <1>1, <2>1 DEF OpenInTurn, ServerPlaces, ServeInTurn, ServeReturns
  <2> QED
    BY <1>1, <2>1, <2>2, <2>3
<1>5. ASSUME Uncount PROVE Right
  <2>1. Counted' = Counted \ {sconn} /\ sconn \in Counted
    BY <1>5, <1>1, WorkerPoolAssumption DEF Counted, Uncount, ServeInTurn, vars, workers
  <2>2. IsFiniteSet(Counted') /\ Cardinality(Counted') = Cardinality(Counted) - 1
    BY <1>1, <2>1, FS_RemoveElement
  <2>3. OpenInTurn'
    BY <1>5, <1>1, <2>1 DEF OpenInTurn, ServerPlaces, Uncount
  <2>4. open' = open - 1 /\ Wait' = Wait
    BY <1>5 DEF Wait, Uncount
  <2> QED
    BY <1>1, <2>1, <2>2, <2>3, <2>4
<1>6. ASSUME CloseRefused PROVE Right
  <2>1. Counted' = Counted
    BY <1>6, <1>1 DEF Counted, ServeInTurn, vars, workers, CloseRefused
  <2>2. open' = open /\ Wait' = Wait
    BY <1>6, <1>1 DEF Wait, CloseRefused
  <2>3. OpenInTurn'
    BY <1>6, <1>1, <2>1 DEF OpenInTurn, ServerPlaces, ServeInTurn, CloseRefused
  <2> QED
    BY <1>1, <2>1, <2>2, <2>3
<1>7. ASSUME Leave PROVE Right
  <2>1. Counted' = Counted
    BY <1>7, <1>1 DEF Counted, ServeInTurn, vars, workers, Leave, WaitingToAccept
  <2>2. open' = open - 1 /\ Wait = 1 /\ Wait' = 0
    BY <1>7, <1>1 DEF Wait, Leave, WaitingToAccept
  <2>3. OpenInTurn'
    BY <1>7, <1>1, <2>1 DEF OpenInTurn, ServerPlaces, ServeInTurn, Leave, WaitingToAccept
  <2> QED
    BY <1>1, <2>1, <2>2, <2>3
<1>8. ASSUME NEW c \in Conn, AcceptConn(c) PROVE Right
  <2>1. Counted' = Counted /\ open' = open /\ Wait' = Wait
    BY <1>8, <1>1 DEF Counted, Wait, ServeInTurn, vars, workers, AcceptConn
  <2>2. OpenInTurn'
    BY <1>8, <1>1, <2>1 DEF OpenInTurn, ServerPlaces, ServeInTurn, AcceptConn
  <2> QED
    BY <1>1, <2>1, <2>2
<1>9. ASSUME AcceptFails PROVE Right
  <2>1. Counted' = Counted
    BY <1>9, <1>1 DEF Counted, ServeInTurn, vars, workers, AcceptFails, StopClose
  <2>2. open' = open /\ Wait' = Wait
    BY <1>9, <1>1 DEF Wait, AcceptFails, StopClose
  <2>3. OpenInTurn'
    BY <1>9, <1>1, <2>1 DEF OpenInTurn, ServerPlaces, ServeInTurn, AcceptFails, StopClose
  <2> QED
    BY <1>1, <2>1, <2>2, <2>3
<1>10. ASSUME NEW ch \in Chan, EnterServeConn(ch) PROVE Right
  <2>1. Counted' = Counted
    BY <1>10, <1>1 DEF Counted, ServeInTurn, vars, workers, EnterServeConn
  <2>2. open' = open /\ Wait' = Wait
    BY <1>10, <1>1 DEF Wait, EnterServeConn
  <2>3. OpenInTurn'
    BY <1>10, <1>1, <2>1 DEF OpenInTurn, ServerPlaces, ServeInTurn, EnterServeConn
  <2> QED
    BY <1>1, <2>1, <2>2, <2>3
<1>11. ASSUME NEW ch \in Chan, ReplyAndClose(ch) PROVE Right
  <2>1. Counted' = Counted
    BY <1>11, <1>1 DEF Counted, ServeInTurn, vars, workers, ReplyAndClose
  <2>2. open' = open /\ Wait' = Wait
    BY <1>11, <1>1 DEF Wait, ReplyAndClose
  <2>3. OpenInTurn'
    BY <1>11, <1>1, <2>1 DEF OpenInTurn, ServerPlaces, ServeInTurn, ReplyAndClose
  <2> QED
    BY <1>1, <2>1, <2>2, <2>3
<1>12. ASSUME NEW ch \in Chan, CleanupOpen(ch) PROVE Right
  <2>1. Counted' = Counted \ {wconn[ch]} /\ wconn[ch] \in Counted
    <3>1. /\ UNCHANGED <<outcome, wpc, wconn, srv>> /\ scp' = [scp EXCEPT ![ch] = "concurrency"]
          /\ scp[ch] = "open" /\ wpc[ch] = "serving" /\ scp \in [Chan -> {"enter", "reply", "open", "concurrency"}]
      BY <1>12, <1>1 DEF CleanupOpen, ServeConnInTurn, ServerPlaces, vars, workers
    <3>2. wconn[ch] \in Conn /\ outcome[wconn[ch]] = "offered"
          /\ \A k \in Chan : wpc[k] = "serving" /\ wconn[k] = wconn[ch] => k = ch
      BY <1>0, <3>1
    <3>3. wconn[ch] \in Counted
      BY <3>1, <3>2 DEF Counted
    <3>4. \A c \in Conn : c \in Counted' <=> c \in Counted /\ c # wconn[ch]
      <4> TAKE c \in Conn
      <4>1. CASE c = wconn[ch]
        BY <3>1, <3>2, <4>1 DEF Counted
      <4>2. CASE c # wconn[ch]
        BY <3>1, <4>2 DEF Counted
      <4> QED
        BY <4>1, <4>2
    <3> QED
      BY <3>3, <3>4 DEF Counted
  <2>2. IsFiniteSet(Counted') /\ Cardinality(Counted') = Cardinality(Counted) - 1
    BY <1>1, <2>1, FS_RemoveElement
  <2>3. OpenInTurn'
    BY <1>12, <1>1, <2>1, <1>0 DEF OpenInTurn, ServerPlaces, CleanupOpen, ServeConnInTurn, vars, workers
  <2>4. open' = open - 1 /\ Wait' = Wait
    BY <1>12 DEF Wait, CleanupOpen
  <2> QED
    BY <1>1, <2>1, <2>2, <2>3, <2>4
<1>13. ASSUME NEW ch \in Chan, CleanupConcurrency(ch) PROVE Right
  <2>1. Counted' = Counted
    <3>1. /\ UNCHANGED srv /\ wpc[ch] = "serving" /\ scp[ch] = "concurrency"
          /\ outcome' = [outcome EXCEPT ![wconn[ch]] = "served"]
          /\ wpc' = [wpc EXCEPT ![ch] = "served"] /\ wconn' = [wconn EXCEPT ![ch] = Nil]
          /\ scp' = [scp EXCEPT ![ch] = "enter"]
          /\ scp \in [Chan -> {"enter", "reply", "open", "concurrency"}]
      BY <1>13, <1>1 DEF CleanupConcurrency, WorkerFuncReturns, ServerPlaces
    <3>2. wconn[ch] \in Conn /\ outcome[wconn[ch]] = "offered"
          /\ \A k \in Chan : wpc[k] = "serving" /\ wconn[k] = wconn[ch] => k = ch
      BY <1>0, <3>1
    <3>3. \A c \in Conn : c \in Counted' <=> c \in Counted
      <4> TAKE c \in Conn
      <4>1. CASE c = wconn[ch]
        BY <1>1, <3>1, <3>2, <4>1 DEF Counted
      <4>2. CASE c # wconn[ch]
        BY <1>1, <3>1, <4>2 DEF Counted
      <4> QED
        BY <4>1, <4>2
    <3> QED
      BY <3>3 DEF Counted
  <2>2. OpenInTurn' /\ open' = open /\ Wait' = Wait
    BY <1>13, <1>1, <2>1 DEF OpenInTurn, Wait, CleanupConcurrency
  <2> QED
    BY <1>1, <2>1, <2>2
<1>14. ASSUME PoolMoves PROVE Right
  <2>1. Counted' = Counted
    BY <1>14, CountedKept
  <2>2. OpenInTurn' /\ open' = open /\ Wait' = Wait
    BY <1>14, <1>1, <2>1 DEF OpenInTurn, Wait, PoolMoves, server
  <2> QED
    BY <1>1, <2>1, <2>2
<1>15. ASSUME AcceptNil PROVE Right
  <2>1. Counted' = Counted /\ open' = open /\ Wait' = Wait
    BY <1>15, <1>1 DEF Counted, Wait, ServeInTurn, vars, workers, AcceptNil
  <2>2. OpenInTurn'
    BY <1>15, <1>1, <2>1 DEF OpenInTurn, ServerPlaces, ServeInTurn, AcceptNil
  <2> QED
    BY <1>1, <2>1, <2>2
<1>16. CASE UNCHANGED svars
  <2>1. Counted' = Counted
    BY <1>16, <1>1 DEF Counted, ServeInTurn, vars, workers, svars, server
  <2>2. open' = open /\ Wait' = Wait
    BY <1>16, <1>1 DEF Wait, svars, server
  <2>3. OpenInTurn'
    BY <1>16, <1>1, <2>1 DEF OpenInTurn, ServerPlaces, ServeInTurn, svars, server
  <2> QED
    BY <1>1, <2>1, <2>2, <2>3
<1> QED
  BY <1>1, <1>2, <1>3, <1>4, <1>5, <1>6, <1>7, <1>8, <1>9, <1>10, <1>11, <1>12, <1>13,
     <1>14, <1>15, <1>16 DEF SNext, ServeLoop, ServeConn, PoolStep, PoolMoves

\* s.open covers the connections that are open.
LEMMA OpenIsCovered ==
  IsFiniteSet(Counted) /\ OpenCounts /\ OpenInTurn => OpenCovers /\ open \in Nat
<1> SUFFICES ASSUME IsFiniteSet(Counted), OpenCounts, OpenInTurn
             PROVE  OpenCovers /\ open \in Nat
  OBVIOUS
<1> DEFINE Opened == {c \in Conn : net[c] = "open"}
<1>1. Cardinality(Counted) \in Nat /\ open = Cardinality(Counted) + Wait /\ Wait \in {0, 1}
  BY FS_CardinalityType DEF OpenCounts, Wait
<1>2. CASE srv \in {"count", "close"}
  <2>1. Opened \subseteq Counted \cup {sconn} /\ Wait = 1
    BY <1>2 DEF OpenInTurn, Wait
  <2>2. IsFiniteSet(Counted \cup {sconn}) /\ Cardinality(Counted \cup {sconn}) <= Cardinality(Counted) + 1
    <3>1. CASE sconn \in Counted
      <4>1. Counted \cup {sconn} = Counted
        BY <3>1
      <4> QED
        BY <1>1, <4>1
    <3>2. CASE sconn \notin Counted
      BY <1>1, <3>2, FS_AddElement
    <3> QED
      BY <3>1, <3>2
  <2>3. Cardinality(Opened) <= Cardinality(Counted \cup {sconn}) /\ IsFiniteSet(Opened)
    BY <2>1, <2>2, FS_Subset
  <2>4. Cardinality(Opened) \in Nat /\ Cardinality(Counted \cup {sconn}) \in Nat
    BY <2>2, <2>3, FS_CardinalityType
  <2> QED
    BY <1>1, <2>1, <2>2, <2>3, <2>4 DEF OpenCovers
<1>3. CASE srv \notin {"count", "close"}
  <2>1. Opened \subseteq Counted
    BY <1>3 DEF OpenInTurn
  <2>2. IsFiniteSet(Opened) /\ Cardinality(Opened) <= Cardinality(Counted)
    BY <2>1, FS_Subset
  <2>3. Cardinality(Opened) \in Nat
    BY <2>2, FS_CardinalityType
  <2> QED
    BY <1>1, <2>2, <2>3 DEF OpenCovers
<1> QED
  BY <1>2, <1>3

-----------------------------------------------------------------------------
(***************************************************************************)
(* The theorems.                                                           *)
(***************************************************************************)
\* The invariant holds when the server starts,
LEMMA SInvInit == SInit => SInv
<1> SUFFICES ASSUME SInit PROVE SInv
  OBVIOUS
<1>1. IInv /\ PoolInv
  BY InvInit DEF SInit, IInv
<1>2. ServerPlaces /\ ServeInTurn /\ ServeConnInTurn
  BY DEF SInit, Init, ServerPlaces, ServeInTurn, ServeConnInTurn
<1>3. Counted = {} /\ Busy = {}
  BY DEF SInit, Init, Counted, Busy
<1>4. IsFiniteSet(Counted) /\ IsFiniteSet(Busy) /\ Cardinality(Counted) = 0 /\ Cardinality(Busy) = 0
  BY <1>3, FS_EmptySet
<1>5. OpenCounts /\ OpenInTurn /\ ConcurrencyCounts
  BY <1>4 DEF SInit, OpenCounts, OpenInTurn, ConcurrencyCounts, Busy
<1>6. /\ OpenCovers /\ open \in Nat
      /\ ConcurrencyWithinWorkers /\ concurrency \in 0 .. Max
  BY <1>1, <1>2, <1>4, <1>5, OpenIsCovered, BusyIsAlive
<1> QED
  BY <1>1, <1>2, <1>4, <1>5, <1>6 DEF SInv, ServerInv, ServerTypeOK, ServerPlaces

\* and after every step of the server,
LEMMA SInvStep == SInv /\ [SNext]_svars => SInv'
<1> SUFFICES ASSUME SInv, [SNext]_svars PROVE SInv'
  OBVIOUS
<1>1. IInv'
  BY ServerLifts, InvStep DEF SInv, ServerInv
<1>2. ServerPlaces' /\ ServeInTurn' /\ ServeConnInTurn'
  BY TurnStep
<1>3. IsFiniteSet(Busy)' /\ ConcurrencyCounts'
  BY BusyStep
<1>4. IsFiniteSet(Counted)' /\ OpenCounts' /\ OpenInTurn'
  BY OpenStep
<1>5. ConcurrencyWithinWorkers' /\ (concurrency \in 0 .. Max)'
  BY <1>1, <1>2, <1>3, BusyIsAlive, PTL
<1>6. OpenCovers' /\ (open \in Nat)'
  BY <1>4, OpenIsCovered, PTL
<1>7. PoolInv'
  BY <1>1 DEF IInv
<1>8. ServerTypeOK'
  BY <1>2, <1>5, <1>6 DEF ServerTypeOK, ServerPlaces
<1> QED
  BY <1>1, <1>2, <1>3, <1>4, <1>5, <1>6, <1>7, <1>8 DEF SInv, ServerInv

\* so it always holds.
LEMMA SInvAlways == SSpec => []SInv
BY SInvInit, SInvStep, PTL DEF SSpec

\* The types, the limits and both counters of the server, and the pool's own
\* bookkeeping under it, are right at any moment (server.go:351-354).
THEOREM ServerIsRight == SSpec => []ServerInv
<1>1. SInv => ServerInv
  BY DEF SInv
<1> QED
  BY <1>1, SInvAlways, PTL

\* Under the server, too, a waiting worker can be reached in exactly one way.
THEOREM ServerKeepsOneHandle == SSpec => []OneHandle
<1>1. SInv => OneHandle
  BY DEF SInv, IInv
<1> QED
  BY <1>1, SInvAlways, PTL

\* Under the server, too, clean cuts ready between an expired worker and one that
\* has not expired, also when connections that end at a time have left the list out
\* of order (workerpool.go:138-148, 213-219).
THEOREM ServerCleanCuts == SSpec => []CleanCutsRight
<1>1. SInv => CleanCutsRight
  BY BinarySearchCuts DEF SInv, IInv, PoolInv
<1> QED
  BY <1>1, SInvAlways, PTL

\* The server takes no step that the pool would not: it serves each connection
\* once or refuses it, and no more than MaxWorkersCount at a time.
THEOREM ServerImplementsPool == SSpec => Spec
<1>1. SInit => Init
  BY DEF SInit
<1>2. SInv /\ [SNext]_svars => [Next]_vars
  BY ServerLifts DEF SInv, ServerInv
<1> QED
  BY <1>1, <1>2, SInvAlways, PTL DEF SSpec, Spec

\* So each connection that the server accepts is served once or refused.
THEOREM ServerImplementsDispatcher == SSpec => ImplementsDispatcher
BY ServerImplementsPool, PoolImplementsDispatcher

=============================================================================
