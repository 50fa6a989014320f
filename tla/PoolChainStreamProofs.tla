------------------------ MODULE PoolChainStreamProofs ------------------------
(***************************************************************************)
(* The proofs about two models that share nothing, PoolChain and Stream.   *)
(***************************************************************************)
EXTENDS PoolChain, Stream, FiniteSetTheorems, SequenceTheorems, NaturalsInduction, TLAPS

(***************************************************************************)
(* The poolChain is right for any number of consumers, any items, any      *)
(* sizes of its dequeues and any number of them: dropped dequeues are      *)
(* empty, links move one way, and the chain is one double-ended queue.     *)
(***************************************************************************)
-----------------------------------------------------------------------------
(***************************************************************************)
(* FlattenSeq: what it does to one changed part of a sequence.             *)
(***************************************************************************)
\* What holds of m, and of k + 1 if of k, holds of all the numbers from m to n.
LEMMA CountingUp ==
  ASSUME NEW m \in Nat, NEW n \in Nat, NEW P,
         m \in P, \A k \in m .. n - 1 : k \in P => k + 1 \in P
  PROVE  m .. n \subseteq P
<1> DEFINE R == OpToRel(<, Nat)
           T == {k \in m .. n : k \notin P}
<1> SUFFICES ASSUME T # {} PROVE FALSE
  OBVIOUS
<1>1. IsWellFoundedOn(R, Nat)
  BY NatLessThanWellFounded
<1>2. \A x, y \in Nat : y < x => <<y, x>> \in R
  BY DEF OpToRel
<1>3. T \in SUBSET Nat
  OBVIOUS
<1> HIDE DEF R
<1>4. \E x \in T : \A y \in T : ~ (<<y, x>> \in R)
  <2> HIDE DEF T
  <2> QED
    BY <1>1, <1>3, WFMin
<1>5. PICK k \in T : \A y \in T : ~ (<<y, k>> \in R)
  BY <1>4
<1>6. k # m /\ k - 1 \in m .. n - 1
  BY <1>5
<1>7. k - 1 \notin T
  <2>1. k \in Nat /\ k - 1 \in Nat /\ k - 1 < k
    BY <1>5, <1>6
  <2> HIDE DEF T
  <2> QED
    BY <1>2, <1>5, <2>1
<1> QED
  BY <1>5, <1>6, <1>7

\* The parts of s joined up to each of them: the function FlattenSeq is defined by.
Joined(s) == CHOOSE f : f = [i \in 1 .. Len(s) |-> IF i = 1 THEN s[i] ELSE f[i - 1] \o s[i]]

\* The first k parts of s joined.
Upto(s, k) == IF k = 0 THEN <<>> ELSE Joined(s)[k]

\* That definition defines something.
LEMMA JoinExists ==
  ASSUME NEW s, NEW n \in Nat
  PROVE  \E f : f = [i \in 1 .. n |-> IF i = 1 THEN s[i] ELSE f[i - 1] \o s[i]]
<1> DEFINE Is(f, m) == f = [i \in 1 .. m |-> IF i = 1 THEN s[i] ELSE f[i - 1] \o s[i]]
           P == {m \in Nat : \E f : Is(f, m)}
<1>1. 0 \in P
  <2>1. Is([i \in 1 .. 0 |-> s], 0)
    OBVIOUS
  <2> QED
    BY <2>1
<1>2. ASSUME NEW m \in 0 .. n - 1, m \in P PROVE m + 1 \in P
  <2>1. PICK f : Is(f, m)
    BY <1>2
  <2> DEFINE g == [i \in 1 .. m + 1 |-> IF i = 1 THEN s[i] ELSE f[i - 1] \o s[i]]
  <2>2. ASSUME NEW i \in 1 .. m + 1, i # 1 PROVE f[i - 1] = g[i - 1]
    <3>1. i - 1 \in 1 .. m /\ i - 1 \in 1 .. m + 1
      BY <2>2
    <3>2. f[i - 1] = IF i - 1 = 1 THEN s[i - 1] ELSE f[i - 1 - 1] \o s[i - 1]
      BY <2>1, <3>1, Zenon
    <3>3. g[i - 1] = IF i - 1 = 1 THEN s[i - 1] ELSE f[i - 1 - 1] \o s[i - 1]
      BY <3>1, Zenon
    <3> QED
      BY <3>2, <3>3, Zenon
  <2>3. g = [i \in 1 .. m + 1 |-> IF i = 1 THEN s[i] ELSE g[i - 1] \o s[i]]
    BY <2>2, Zenon
  <2>4. Is(g, m + 1)
    BY <2>3, Zenon
  <2> HIDE DEF g, Is
  <2>5. m + 1 \in Nat
    OBVIOUS
  <2> QED
    BY <2>4, <2>5, Zenon
<1>3. 0 .. n \subseteq P
  <2> HIDE DEF P
  <2> QED
    BY <1>1, <1>2, CountingUp
<1>4. n \in P
  <2> HIDE DEF P
  <2> QED
    BY <1>3
<1> QED
  BY <1>4, Zenon

\* The sequences of n sequences over S.
Parts(S, n) == [1 .. n -> Seq(S)]

\* The parts of s from the i-th to the j-th are empty.
Empty(s, i, j) == \A m \in i .. j : s[m] = <<>>

\* s and t are the same but for their k-th parts.
SameBut(s, t, k, n) == \A i \in 1 .. n : i # k => t[i] = s[i]

\* The parts, joined one by one.
LEMMA UptoIs ==
  ASSUME NEW S, NEW n \in Nat, NEW s \in Parts(S, n)
  PROVE  /\ Upto(s, 0) = <<>>
         /\ \A k \in 0 .. n - 1 : Upto(s, k + 1) = Upto(s, k) \o s[k + 1]
         /\ \A k \in 0 .. n : Upto(s, k) \in Seq(S)
         /\ FlattenSeq(s) = Upto(s, n)
<1>1. s \in Seq(Seq(S)) /\ Len(s) = n
  BY DEF Parts
<1>2. PICK f : f = [i \in 1 .. Len(s) |-> IF i = 1 THEN s[i] ELSE f[i - 1] \o s[i]]
  BY <1>1, JoinExists
<1>3. Joined(s) = [i \in 1 .. Len(s) |-> IF i = 1 THEN s[i] ELSE Joined(s)[i - 1] \o s[i]]
  BY <1>2, Zenon DEF Joined
<1>4. Upto(s, 0) = <<>>
  BY DEF Upto
<1>5. ASSUME NEW k \in 0 .. n - 1 PROVE Upto(s, k + 1) = Upto(s, k) \o s[k + 1]
  <2>1. PICK j \in 1 .. n : j = k + 1
    OBVIOUS
  <2>2. j - 1 = k /\ s[j] \in Seq(S) /\ j # 0
    BY <2>1 DEF Parts
  <2>3. \A i \in 1 .. n : Joined(s)[i] = IF i = 1 THEN s[i] ELSE Joined(s)[i - 1] \o s[i]
    BY <1>1, <1>3
  <2>4. Upto(s, j) = IF j = 1 THEN s[j] ELSE Joined(s)[k] \o s[j]
    BY <2>2, <2>3, Zenon DEF Upto
  <2>5. CASE k = 0
    <3>1. Upto(s, j) = s[j]
      BY <2>1, <2>4, <2>5
    <3>2. <<>> \o s[j] = s[j]
      BY <2>2, ConcatEmptySeq, Zenon
    <3> QED
      BY <1>4, <2>1, <2>5, <3>1, <3>2
  <2>6. CASE k # 0
    <3>1. j # 1
      BY <2>1, <2>6
    <3>2. Upto(s, j) = Upto(s, k) \o s[j]
      BY <2>4, <2>6, <3>1, Zenon DEF Upto
    <3> QED
      BY <2>1, <3>2
  <2> QED
    BY <2>5, <2>6
<1>6. \A k \in 0 .. n : Upto(s, k) \in Seq(S)
  <2> DEFINE P == {k \in 0 .. n : Upto(s, k) \in Seq(S)}
  <2>1. 0 \in P
    <3>1. 0 \in 0 .. n /\ <<>> \in Seq(S)
      OBVIOUS
    <3> QED
      BY <1>4, <3>1, Zenon
  <2>2. ASSUME NEW k \in 0 .. n - 1, k \in P PROVE k + 1 \in P
    <3>1. Upto(s, k) \in Seq(S) /\ s[k + 1] \in Seq(S)
      BY <2>2 DEF Parts
    <3>2. Upto(s, k) \o s[k + 1] \in Seq(S)
      BY <3>1, ConcatProperties
    <3>3. Upto(s, k + 1) \in Seq(S)
      BY <1>5, <3>2, Zenon
    <3>4. k + 1 \in 0 .. n
      OBVIOUS
    <3> QED
      BY <3>3, <3>4, Zenon
  <2>3. 0 .. n \subseteq P
    <3> HIDE DEF P
    <3> QED
      BY <2>1, <2>2, CountingUp
  <2> QED
    BY <2>3
<1>7. FlattenSeq(s) = Upto(s, n)
  <2>1. CASE n = 0
    <3>1. FlattenSeq(s) = s
      BY <1>1, <2>1 DEF FlattenSeq
    <3>2. s = <<>>
      BY <1>1, <2>1
    <3> QED
      BY <1>4, <2>1, <3>1, <3>2
  <2>2. CASE n # 0
    <3>1. Len(s) # 0
      BY <1>1, <2>2
    <3>2. FlattenSeq(s) = Joined(s)[Len(s)]
      BY <3>1, Zenon DEF FlattenSeq, Joined
    <3> QED
      BY <1>1, <2>2, <3>2 DEF Upto
  <2> QED
    BY <2>1, <2>2
<1> QED
  BY <1>4, <1>5, <1>6, <1>7

\* What is joined depends on the joined parts only.
LEMMA UptoSame ==
  ASSUME NEW S, NEW n \in Nat, NEW s \in Parts(S, n), NEW t \in Parts(S, n),
         NEW k \in 0 .. n, \A i \in 1 .. k : s[i] = t[i]
  PROVE  Upto(s, k) = Upto(t, k)
<1> DEFINE P == {j \in 0 .. k : Upto(s, j) = Upto(t, j)}
<1>1. 0 \in P
  BY DEF Upto
<1>2. ASSUME NEW j \in 0 .. k - 1, j \in P PROVE j + 1 \in P
  <2>1. j \in 0 .. n - 1 /\ j + 1 \in 0 .. k /\ s[j + 1] = t[j + 1]
    OBVIOUS
  <2>2. Upto(s, j + 1) = Upto(s, j) \o s[j + 1] /\ Upto(t, j + 1) = Upto(t, j) \o t[j + 1]
    <3>1. \A u \in Parts(S, n) : \A i \in 0 .. n - 1 : Upto(u, i + 1) = Upto(u, i) \o u[i + 1]
      <4> TAKE u \in Parts(S, n)
      <4>1. \A i \in 0 .. n - 1 : Upto(u, i + 1) = Upto(u, i) \o u[i + 1]
        BY UptoIs, ZenonT(30)
      <4> QED
        BY <4>1
    <3> QED
      BY <2>1, <3>1, Zenon
  <2>3. Upto(s, j + 1) = Upto(t, j + 1)
    BY <1>2, <2>1, <2>2, Zenon
  <2> QED
    BY <2>1, <2>3, Zenon
<1>3. 0 .. k \subseteq P
  <2>1. k \in Nat
    OBVIOUS
  <2> HIDE DEF P
  <2> QED
    BY <1>1, <1>2, <2>1, CountingUp
<1> QED
  BY <1>3

\* Empty parts at the end add nothing.
LEMMA UptoDrained ==
  ASSUME NEW S, NEW n \in Nat, NEW s \in Parts(S, n),
         NEW k \in 0 .. n, \A i \in k + 1 .. n : s[i] = <<>>
  PROVE  Upto(s, n) = Upto(s, k)
<1> DEFINE P == {j \in k .. n : Upto(s, j) = Upto(s, k)}
<1>1. k \in P
  OBVIOUS
<1>u. /\ \A j \in 0 .. n - 1 : Upto(s, j + 1) = Upto(s, j) \o s[j + 1]
      /\ \A j \in 0 .. n : Upto(s, j) \in Seq(S)
  BY UptoIs
<1>2. ASSUME NEW j \in k .. n - 1, j \in P PROVE j + 1 \in P
  <2>1. j \in 0 .. n - 1 /\ j \in 0 .. n /\ j + 1 \in k .. n /\ s[j + 1] = <<>>
    OBVIOUS
  <2>2. Upto(s, j + 1) = Upto(s, j) \o s[j + 1] /\ Upto(s, j) \in Seq(S)
    BY <1>u, <2>1
  <2>3. Upto(s, j) \o <<>> = Upto(s, j)
    BY <2>2, ConcatEmptySeq, Zenon
  <2>4. Upto(s, j + 1) = Upto(s, k)
    BY <1>2, <2>1, <2>2, <2>3, Zenon
  <2> QED
    BY <2>1, <2>4, Zenon
<1>3. k .. n \subseteq P
  <2>1. k \in Nat
    OBVIOUS
  <2> HIDE DEF P
  <2> QED
    BY <1>1, <1>2, <2>1, CountingUp
<1> QED
  BY <1>3

\* Empty parts joined are empty.
LEMMA UptoNothing ==
  ASSUME NEW S, NEW n \in Nat, NEW s \in Parts(S, n),
         NEW k \in 0 .. n, \A i \in 1 .. k : s[i] = <<>>
  PROVE  Upto(s, k) = <<>>
<1> DEFINE P == {j \in 0 .. k : Upto(s, j) = <<>>}
<1>u. \A j \in 0 .. n - 1 : Upto(s, j + 1) = Upto(s, j) \o s[j + 1]
  BY UptoIs
<1>1. 0 \in P
  BY DEF Upto
<1>2. ASSUME NEW j \in 0 .. k - 1, j \in P PROVE j + 1 \in P
  <2>1. j \in 0 .. n - 1 /\ j + 1 \in 0 .. k /\ s[j + 1] = <<>>
    OBVIOUS
  <2>2. Upto(s, j + 1) = Upto(s, j) \o s[j + 1]
    BY <1>u, <2>1
  <2>3. <<>> \o <<>> = <<>>
    OBVIOUS
  <2>4. Upto(s, j + 1) = <<>>
    BY <1>2, <2>1, <2>2, <2>3, Zenon
  <2> QED
    BY <2>1, <2>4, Zenon
<1>3. 0 .. k \subseteq P
  <2>1. k \in Nat
    OBVIOUS
  <2> HIDE DEF P
  <2> QED
    BY <1>1, <1>2, <2>1, CountingUp
<1> QED
  BY <1>3

\* A sequence after another: one more at its end is one more at the end.
LEMMA JoinAppend ==
  ASSUME NEW S, NEW a \in Seq(S), NEW b \in Seq(S), NEW x \in S
  PROVE  a \o Append(b, x) = Append(a \o b, x)
<1>1. Append(b, x) = b \o <<x>> /\ <<x>> \in Seq(S) /\ a \o b \in Seq(S)
  BY AppendIsConcat, ConcatProperties
<1>2. Append(a \o b, x) = (a \o b) \o <<x>>
  BY <1>1, AppendIsConcat
<1> QED
  BY <1>1, <1>2, ConcatAssociative

\* Its last element is the last.
LEMMA JoinAtEnd ==
  ASSUME NEW S, NEW a \in Seq(S), NEW b \in Seq(S), b # <<>>
  PROVE  /\ a \o b # <<>>
         /\ (a \o b)[Len(a \o b)] = b[Len(b)]
         /\ a \o SubSeq(b, 1, Len(b) - 1) = SubSeq(a \o b, 1, Len(a \o b) - 1)
<1>1. PICK c \in Seq(S), y \in S : b = Append(c, y)
  BY SequenceEmptyOrAppend
<1>2. a \o b = Append(a \o c, y) /\ a \o c \in Seq(S)
  <2>1. Append(c, y) = c \o <<y>> /\ <<y>> \in Seq(S) /\ a \o c \in Seq(S)
    BY <1>1, AppendIsConcat, ConcatProperties
  <2>2. Append(a \o c, y) = (a \o c) \o <<y>>
    BY <2>1, AppendIsConcat
  <2> QED
    BY <1>1, <2>1, <2>2, ConcatAssociative
<1>3. ASSUME NEW d \in Seq(S)
      PROVE  /\ Append(d, y) # <<>> /\ Append(d, y)[Len(Append(d, y))] = y
             /\ SubSeq(Append(d, y), 1, Len(Append(d, y)) - 1) = d
  <2>1. /\ Append(d, y) # <<>> /\ Append(d, y) \in Seq(S)
        /\ Len(Append(d, y)) = Len(d) + 1 /\ Len(d) \in Nat
        /\ \A i \in 1 .. Len(d) : Append(d, y)[i] = d[i] /\ d[i] \in S
        /\ Append(d, y)[Len(d) + 1] = y
    BY AppendProperties, ElementOfSeq
  <2>2. PICK e : e = Append(d, y)
    OBVIOUS
  <2>3. Len(e) - 1 = Len(d) /\ \A i \in 1 .. Len(d) : e[i] \in S
    BY <2>1, <2>2
  <2>4. /\ SubSeq(e, 1, Len(d)) \in Seq(S) /\ Len(SubSeq(e, 1, Len(d))) = Len(d)
        /\ \A i \in 1 .. Len(d) : SubSeq(e, 1, Len(d))[i] = e[i]
    BY <2>1, <2>3, SubSeqProperties
  <2>5. SubSeq(e, 1, Len(d)) = d
    <3>1. \A i \in 1 .. Len(d) : SubSeq(e, 1, Len(d))[i] = d[i]
      BY <2>1, <2>2, <2>4
    <3> QED
      BY <2>4, <3>1, SeqEqual
  <2> QED
    BY <2>1, <2>2, <2>3, <2>5
<1> QED
  BY <1>1, <1>2, <1>3

\* A sequence before another: its first element is the first.
LEMMA JoinAtStart ==
  ASSUME NEW S, NEW a \in Seq(S), NEW b \in Seq(S), a # <<>>
  PROVE  a \o b # <<>> /\ Head(a \o b) = Head(a) /\ Tail(a \o b) = Tail(a) \o b
<1>1. /\ a \o b \in Seq(S) /\ Len(a \o b) = Len(a) + Len(b)
      /\ \A i \in 1 .. Len(a) + Len(b) : (a \o b)[i] = IF i <= Len(a) THEN a[i] ELSE b[i - Len(a)]
  BY ConcatProperties
<1>2. Len(a) \in Nat \ {0} /\ Len(b) \in Nat
  BY EmptySeq
<1>3. a \o b # <<>>
  BY <1>1, <1>2
<1>4. Head(a \o b) = Head(a)
  BY <1>1, <1>2
<1>5. /\ Tail(a) \in Seq(S) /\ Len(Tail(a)) = Len(a) - 1
      /\ \A i \in 1 .. Len(a) - 1 : Tail(a)[i] = a[i + 1]
  BY HeadTailProperties
<1>6. /\ Tail(a \o b) \in Seq(S) /\ Len(Tail(a \o b)) = Len(a) + Len(b) - 1
      /\ \A i \in 1 .. Len(a) + Len(b) - 1 : Tail(a \o b)[i] = (a \o b)[i + 1]
  BY <1>1, <1>3, HeadTailProperties
<1>7. /\ Tail(a) \o b \in Seq(S) /\ Len(Tail(a) \o b) = Len(a) - 1 + Len(b)
      /\ \A i \in 1 .. Len(a) - 1 + Len(b) :
           (Tail(a) \o b)[i] = IF i <= Len(a) - 1 THEN Tail(a)[i] ELSE b[i - (Len(a) - 1)]
  BY <1>5, ConcatProperties
<1>8. ASSUME NEW i \in 1 .. Len(a) + Len(b) - 1 PROVE Tail(a \o b)[i] = (Tail(a) \o b)[i]
  <2>1. i \in Int /\ i + 1 \in 1 .. Len(a) + Len(b) /\ i + 1 - Len(a) = i - (Len(a) - 1)
    BY <1>2
  <2>2. Tail(a \o b)[i] = IF i + 1 <= Len(a) THEN a[i + 1] ELSE b[i + 1 - Len(a)]
    BY <1>1, <1>6, <2>1
  <2>3. i \in 1 .. Len(a) - 1 + Len(b)
    BY <1>2
  <2>4. (Tail(a) \o b)[i] = IF i <= Len(a) - 1 THEN Tail(a)[i] ELSE b[i - (Len(a) - 1)]
    BY <1>7, <2>3
  <2>5. CASE i + 1 <= Len(a)
    BY <1>2, <1>5, <2>1, <2>2, <2>4, <2>5
  <2>6. CASE ~ (i + 1 <= Len(a))
    BY <1>2, <2>1, <2>2, <2>4, <2>6
  <2> QED
    BY <2>5, <2>6
<1>9. Tail(a \o b) = Tail(a) \o b
  <2>1. Len(Tail(a \o b)) = Len(Tail(a) \o b)
    BY <1>2, <1>6, <1>7
  <2>2. \A i \in 1 .. Len(Tail(a \o b)) : Tail(a \o b)[i] = (Tail(a) \o b)[i]
    BY <1>6, <1>8
  <2> QED
    BY <1>6, <1>7, <2>1, <2>2, SeqEqual
<1> QED
  BY <1>3, <1>4, <1>9

\* The parts as joined at the last of them that is not empty.
LEMMA JoinedAt ==
  ASSUME NEW S, NEW n \in Nat, NEW s \in Parts(S, n),
         NEW k \in 1 .. n, Empty(s, k + 1, n)
  PROVE  /\ FlattenSeq(s) = Upto(s, k - 1) \o s[k]
         /\ Upto(s, k - 1) \in Seq(S) /\ s[k] \in Seq(S)
<1>1. PICK j \in 0 .. n - 1 : j = k - 1
  OBVIOUS
<1>2. /\ \A i \in 0 .. n - 1 : Upto(s, i + 1) = Upto(s, i) \o s[i + 1]
      /\ \A i \in 0 .. n : Upto(s, i) \in Seq(S)
      /\ FlattenSeq(s) = Upto(s, n)
  BY UptoIs
<1>3. Upto(s, j + 1) = Upto(s, j) \o s[j + 1]
  BY <1>2
<1>4. j + 1 = k /\ k \in 0 .. n /\ s[k] \in Seq(S) /\ Upto(s, j) \in Seq(S)
  BY <1>1, <1>2 DEF Parts
<1>5. Upto(s, n) = Upto(s, k)
  BY <1>4, UptoDrained DEF Empty
<1> QED
  BY <1>1, <1>2, <1>3, <1>4, <1>5

\* Changing the last part that is not empty changes the end.
LEMMA FlattenAtEnd ==
  ASSUME NEW S, NEW n \in Nat, NEW s \in Parts(S, n), NEW t \in Parts(S, n),
         NEW k \in 1 .. n, Empty(s, k + 1, n),
         SameBut(s, t, k, n)
  PROVE  \E a \in Seq(S) : FlattenSeq(s) = a \o s[k] /\ FlattenSeq(t) = a \o t[k]
<1>1. FlattenSeq(s) = Upto(s, k - 1) \o s[k] /\ Upto(s, k - 1) \in Seq(S)
  BY JoinedAt
<1>2. FlattenSeq(t) = Upto(t, k - 1) \o t[k]
  <2>1. Empty(t, k + 1, n)
    BY DEF Empty, SameBut
  <2> QED
    BY <2>1, JoinedAt
<1>3. Upto(s, k - 1) = Upto(t, k - 1)
  <2>1. PICK j \in 0 .. n : j = k - 1
    OBVIOUS
  <2>2. \A i \in 1 .. j : s[i] = t[i]
    BY <2>1 DEF SameBut
  <2>3. Upto(s, j) = Upto(t, j)
    BY <2>2, UptoSame
  <2> QED
    BY <2>1, <2>3
<1> QED
  BY <1>1, <1>2, <1>3

\* One more at the end of the last part that is not empty is one more at the end.
LEMMA FlattenAppend ==
  ASSUME NEW S, NEW n \in Nat, NEW s \in Parts(S, n), NEW t \in Parts(S, n),
         NEW k \in 1 .. n, Empty(s, k + 1, n),
         SameBut(s, t, k, n),
         NEW x \in S, t[k] = Append(s[k], x)
  PROVE  FlattenSeq(t) = Append(FlattenSeq(s), x)
<1>1. PICK a \in Seq(S) : FlattenSeq(s) = a \o s[k] /\ FlattenSeq(t) = a \o t[k]
  BY FlattenAtEnd
<1>2. s[k] \in Seq(S)
  BY DEF Parts
<1>3. a \o Append(s[k], x) = Append(a \o s[k], x)
  <2>1. \A b \in Seq(S) : a \o Append(b, x) = Append(a \o b, x)
    BY JoinAppend
  <2> QED
    BY <1>2, <2>1
<1> QED
  BY <1>1, <1>3

\* One less at the end of that part is one less at the end.
LEMMA FlattenShorter ==
  ASSUME NEW S, NEW n \in Nat, NEW s \in Parts(S, n), NEW t \in Parts(S, n),
         NEW k \in 1 .. n, Empty(s, k + 1, n),
         SameBut(s, t, k, n),
         s[k] # <<>>, t[k] = SubSeq(s[k], 1, Len(s[k]) - 1)
  PROVE  /\ FlattenSeq(s) # <<>>
         /\ FlattenSeq(s)[Len(FlattenSeq(s))] = s[k][Len(s[k])]
         /\ FlattenSeq(t) = SubSeq(FlattenSeq(s), 1, Len(FlattenSeq(s)) - 1)
<1>1. PICK a \in Seq(S) : FlattenSeq(s) = a \o s[k] /\ FlattenSeq(t) = a \o t[k]
  BY FlattenAtEnd
<1>2. PICK b \in Seq(S) : b = s[k]
  BY DEF Parts
<1>3. /\ a \o b # <<>>
      /\ (a \o b)[Len(a \o b)] = b[Len(b)]
      /\ a \o SubSeq(b, 1, Len(b) - 1) = SubSeq(a \o b, 1, Len(a \o b) - 1)
  BY <1>2, JoinAtEnd
<1> QED
  BY <1>1, <1>2, <1>3

\* One less at the start of the first part that is not empty is one less at the start.
LEMMA FlattenTail ==
  ASSUME NEW S, NEW n \in Nat, NEW s \in Parts(S, n), NEW t \in Parts(S, n),
         NEW k \in 1 .. n, Empty(s, 1, k - 1),
         SameBut(s, t, k, n),
         s[k] # <<>>, t[k] = Tail(s[k])
  PROVE  /\ FlattenSeq(s) # <<>>
         /\ Head(FlattenSeq(s)) = Head(s[k])
         /\ FlattenSeq(t) = Tail(FlattenSeq(s))
<1> DEFINE P == {j \in k .. n : /\ Upto(s, j) # <<>> /\ Head(Upto(s, j)) = Head(s[k])
                                /\ Upto(t, j) = Tail(Upto(s, j))}
<1>1. s[k] \in Seq(S) /\ t[k] \in Seq(S) /\ k - 1 \in 0 .. n /\ k - 1 + 1 = k
  BY DEF Parts
<1>3. /\ \A j \in 0 .. n - 1 : Upto(s, j + 1) = Upto(s, j) \o s[j + 1]
      /\ \A j \in 0 .. n : Upto(s, j) \in Seq(S)
      /\ FlattenSeq(s) = Upto(s, n)
  BY UptoIs
<1>4. /\ \A j \in 0 .. n - 1 : Upto(t, j + 1) = Upto(t, j) \o t[j + 1]
      /\ FlattenSeq(t) = Upto(t, n)
  BY UptoIs
<1>5. k \in P
  <2>1. PICK i \in 0 .. n : i = k - 1
    BY <1>1
  <2>2. Upto(s, i) = <<>>
    BY <2>1, UptoNothing DEF Empty
  <2>3. Upto(t, i) = <<>>
    <3>1. \A j \in 1 .. i : t[j] = <<>>
      BY <2>1 DEF Empty, SameBut
    <3> QED
      BY <3>1, UptoNothing
  <2>4. i \in 0 .. n - 1 /\ i + 1 = k
    BY <2>1
  <2>5. Upto(s, i + 1) = Upto(s, i) \o s[i + 1] /\ Upto(t, i + 1) = Upto(t, i) \o t[i + 1]
    BY <1>3, <1>4, <2>4
  <2>6. <<>> \o s[k] = s[k] /\ <<>> \o t[k] = t[k]
    BY <1>1, ConcatEmptySeq
  <2>7. Upto(s, k) = s[k] /\ Upto(t, k) = t[k]
    BY <2>2, <2>3, <2>4, <2>5, <2>6
  <2>8. k \in k .. n
    OBVIOUS
  <2> QED
    BY <2>7, <2>8, Zenon
<1>6. ASSUME NEW j \in k .. n - 1, j \in P PROVE j + 1 \in P
  <2>1. j \in 0 .. n - 1 /\ j \in 0 .. n /\ j + 1 \in k .. n /\ s[j + 1] \in Seq(S) /\ t[j + 1] = s[j + 1]
    BY DEF Parts, SameBut
  <2>2. PICK a \in Seq(S) : a = Upto(s, j)
    BY <1>3, <2>1
  <2>3. a # <<>> /\ Head(a) = Head(s[k]) /\ Upto(t, j) = Tail(a)
    BY <1>6, <2>2, Zenon
  <2>4. /\ a \o s[j + 1] # <<>> /\ Head(a \o s[j + 1]) = Head(a)
        /\ Tail(a \o s[j + 1]) = Tail(a) \o s[j + 1]
    BY <2>1, <2>3, JoinAtStart
  <2>5. Upto(s, j + 1) = a \o s[j + 1] /\ Upto(t, j + 1) = Tail(a) \o s[j + 1]
    BY <1>3, <1>4, <2>1, <2>2, <2>3
  <2>6. /\ Upto(s, j + 1) # <<>> /\ Head(Upto(s, j + 1)) = Head(s[k])
        /\ Upto(t, j + 1) = Tail(Upto(s, j + 1))
    BY <2>3, <2>4, <2>5, Zenon
  <2> QED
    BY <2>1, <2>6, Zenon
<1>7. k .. n \subseteq P
  <2>1. k \in Nat
    OBVIOUS
  <2> HIDE DEF P
  <2> QED
    BY <1>5, <1>6, <2>1, CountingUp
<1>8. n \in P
  <2> HIDE DEF P
  <2> QED
    BY <1>7
<1> QED
  BY <1>3, <1>4, <1>8, Zenon

-----------------------------------------------------------------------------
(***************************************************************************)
(* The inductive invariant.                                                *)
(***************************************************************************)
\* Where a process may be.
Label == {"idle", "push", "link", "pushNew", "pop", "back", "next", "drop", "clear", "have"}

\* How many dequeues the chain has had: c.head, or 0 before the first push.
Newest == IF head = None THEN 0 ELSE head

\* c.head and c.tail are set together; dequeues are allocated in order.
EndsRight ==
  /\ head \in Link /\ tail \in Link
  /\ head = None <=> tail = None
  /\ tail # None => tail <= Newest
  /\ size \in [Elt -> 0 .. Limit]
  /\ \A e \in Elt : size[e] > 0 <=> e <= Newest

\* next leads to the next younger dequeue, but for the newest and, while the
\* producer has still to store it, the one before that.
NextRight ==
  /\ next \in [Elt -> Link]
  /\ \A e \in Elt : next[e] = IF e < Newest /\ ~(pc[Producer] = "link" /\ at[Producer] = e)
                              THEN e + 1 ELSE None

\* prev leads to the next older one; it is nil only at the tail and beyond.
PrevRight ==
  /\ prev \in [Elt -> Link]
  /\ \A e \in Elt : /\ prev[e] # None => e <= Newest /\ e > 1 /\ prev[e] = e - 1
                    /\ e <= Newest /\ prev[e] = None => e <= tail

\* The rings are within their sizes, and those before the tail are drained.
RingsRight ==
  /\ q \in [Elt -> Seq(Item)]
  /\ \A e \in Elt : Len(q[e]) <= size[e]
  /\ tail # None => \A e \in Elt : e < tail => q[e] = <<>>

\* The items are items, and who pushes or has popped has one.
ItemsRight ==
  /\ item \in [Proc -> Item \cup {None}] /\ out \subseteq Item
  /\ \A p \in Proc : pc[p] \in {"push", "link", "pushNew", "have"} => item[p] \in Item

\* The producer links only the dequeue it has just allocated, which is empty until
\* it pushes, and when it pops it has left only empty dequeues behind.
ProducerRight ==
  /\ pc[Producer] \in {"idle", "push", "link", "pushNew", "pop", "back", "have"}
  /\ pc[Producer] \in {"push", "link", "pushNew", "pop", "back"} => at[Producer] \in 1 .. Newest
  /\ pc[Producer] = "push" => at[Producer] = Newest
  /\ pc[Producer] = "link" => at[Producer] + 1 = Newest
  /\ pc[Producer] \in {"link", "pushNew"} => q[Newest] = <<>>
  /\ pc[Producer] \in {"pop", "back"} => \A e \in Elt : e > at[Producer] => q[e] = <<>>
  /\ pc[Producer] = "back" => q[at[Producer]] = <<>>

\* A consumer is at the tail or at a dequeue dropped since; the next one it knows
\* of is the one after it, and it drops only a drained dequeue.
ConsumerRight(c) ==
  /\ pc[c] \in {"idle", "next", "pop", "drop", "clear", "have"}
  /\ pc[c] \in {"next", "pop", "drop", "clear"} => tail # None /\ at[c] \in 1 .. tail
  /\ pc[c] \in {"pop", "drop", "clear"} /\ nx[c] # None => nx[c] = at[c] + 1 /\ nx[c] <= Newest
  /\ pc[c] = "drop" /\ nx[c] # None => q[at[c]] = <<>>
  /\ pc[c] = "clear" => nx[c] # None /\ nx[c] <= tail

\* All the processes are right.
ProcsRight ==
  /\ pc \in [Proc -> Label] /\ at \in [Proc -> Link] /\ nx \in [Proc -> Link]
  /\ ProducerRight
  /\ \A c \in Consumer : ConsumerRight(c)

\* The inductive invariant.
IInv == EndsRight /\ NextRight /\ PrevRight /\ RingsRight /\ ItemsRight /\ ProcsRight

\* The producer is no consumer, and None is no dequeue and no item.
LEMMA ProcFacts ==
  /\ Producer \in Proc /\ \A c \in Consumer : c \in Proc /\ c # Producer
  /\ \A p \in Proc : p = Producer \/ p \in Consumer
  /\ MaxElts \in Nat /\ None \notin Elt /\ None \notin Item
BY ChainAssumption DEF Proc, Elt

\* The next dequeue to be allocated is the one after the newest.
LEMMA FreshIs ==
  ASSUME EndsRight
  PROVE  Fresh = Newest + 1 /\ Newest \in 0 .. MaxElts
<1>1. Newest \in 0 .. MaxElts
  BY ProcFacts DEF EndsRight, Newest, Link, Elt
<1>2. {e \in Elt : size[e] > 0} = 1 .. Newest
  BY <1>1, ProcFacts DEF EndsRight, Elt
<1>3. Cardinality(1 .. Newest) = Newest
  BY <1>1, FS_Interval
<1> QED
  BY <1>1, <1>2, <1>3 DEF Fresh

\* The invariant holds of the chain that has no dequeue yet.
LEMMA InitIInv == Init => IInv
<1> SUFFICES ASSUME Init PROVE IInv
  OBVIOUS
<1>1. EndsRight
  BY ChainAssumption DEF Init, EndsRight, Newest, Link, Elt
<1>2. NextRight /\ PrevRight
  BY ChainAssumption DEF Init, NextRight, PrevRight, Newest, Link, Elt
<1>3. RingsRight
  BY ChainAssumption DEF Init, RingsRight, Elt
<1>4. ItemsRight
  BY ProcFacts DEF Init, ItemsRight
<1>5. ProcsRight
  BY ProcFacts DEF Init, ProcsRight, ProducerRight, ConsumerRight, Label, Link
<1> QED
  BY <1>1, <1>2, <1>3, <1>4, <1>5 DEF IInv

\* A sequence without its last element.
LEMMA FrontLast ==
  ASSUME NEW s \in Seq(Item), s # <<>>
  PROVE  /\ Front(s) = SubSeq(s, 1, Len(s) - 1) /\ Last(s) = s[Len(s)]
         /\ Front(s) \in Seq(Item) /\ Last(s) \in Item /\ Len(Front(s)) < Len(s)
<1>1. Len(s) \in Nat \ {0} /\ \A i \in 1 .. Len(s) : s[i] \in Item
  BY ElementOfSeq
<1>2. Front(s) = SubSeq(s, 1, Len(s) - 1) /\ Last(s) = s[Len(s)]
  BY DEF Front, Last
<1>3. \A i \in 1 .. Len(s) - 1 : s[i] \in Item
  BY <1>1
<1>4. /\ SubSeq(s, 1, Len(s) - 1) \in Seq(Item)
      /\ Len(SubSeq(s, 1, Len(s) - 1)) = IF 1 <= Len(s) - 1 THEN Len(s) - 1 - 1 + 1 ELSE 0
  BY <1>1, <1>3, SubSeqProperties
<1> QED
  BY <1>1, <1>2, <1>4

\* A pushHead begins: the first one allocates the first dequeue.
LEMMA PushHeadKeeps ==
  ASSUME IInv, NEW x \in Item, PushHead(x) PROVE IInv'
<1>0. /\ EndsRight /\ NextRight /\ PrevRight /\ RingsRight /\ ItemsRight /\ ProcsRight
      /\ ProducerRight /\ (\A k \in Consumer : ConsumerRight(k))
      /\ pc \in [Proc -> Label] /\ at \in [Proc -> Link] /\ nx \in [Proc -> Link]
  BY DEF IInv, ProcsRight
<1>a. /\ pc[Producer] = "idle" /\ x \in out /\ out' = out \ {x} /\ q' = q /\ nx' = nx
      /\ item' = [item EXCEPT ![Producer] = x] /\ pc' = [pc EXCEPT ![Producer] = "push"]
      /\ at' = [at EXCEPT ![Producer] = head'] /\ next' = next /\ prev' = prev
  BY DEF PushHead, Goto
<1>b. \/ head # None /\ head' = head /\ tail' = tail /\ size' = size
      \/ /\ head = None /\ 1 \in Elt /\ head' = 1 /\ tail' = 1 /\ size' = [size EXCEPT ![1] = InitSize]
  <2>1. head = None => Fresh \in Elt /\ Fresh = 1
    BY <1>0, FreshIs DEF PushHead, WithinBound, Newest
  <2> QED
    BY <2>1 DEF PushHead
<1>c. head' \in Elt /\ Newest' = head' /\ Newest <= head'
  BY <1>0, <1>b, ProcFacts DEF EndsRight, Newest, Link, Elt
<1>1. EndsRight'
  <2>1. CASE head # None
    BY <1>0, <1>b, <2>1 DEF EndsRight, Newest
  <2>2. CASE head = None
    <3>1. 1 \in Elt /\ head' = 1 /\ tail' = 1 /\ size' = [size EXCEPT ![1] = InitSize] /\ Newest = 0
      BY <1>b, <2>2 DEF Newest
    <3>2. size' \in [Elt -> 0 .. Limit]
      BY <1>0, <3>1, ChainAssumption DEF EndsRight
    <3>3. \A e \in Elt : size'[e] > 0 <=> e <= 1
      BY <1>0, <3>1, ChainAssumption DEF EndsRight, Elt
    <3> QED
      BY <3>1, <3>2, <3>3, <1>c, ProcFacts DEF EndsRight, Link
  <2> QED
    BY <2>1, <2>2
<1>2. NextRight'
  BY <1>0, ProcFacts DEF NextRight, EndsRight, ProducerRight, Newest, Link, Elt, PushHead, Goto
<1>3. PrevRight'
  BY <1>0, ProcFacts DEF PrevRight, EndsRight, ProducerRight, ConsumerRight, Newest, Link, Elt,
     PushHead, Goto
<1>4. RingsRight'
  <2>1. tail' # None => tail' = tail \/ tail' = 1
    BY <1>b
  <2>2. \A e \in Elt : size[e] <= size'[e]
    <3>1. size \in [Elt -> Int] /\ (head = None => \A e \in Elt : size[e] = 0)
      BY <1>0, ChainAssumption DEF EndsRight, Newest, Elt
    <3>2. InitSize \in Nat
      BY ChainAssumption
    <3> QED
      BY <1>b, <3>1, <3>2
  <2> QED
    BY <1>0, <1>1, <1>a, <1>b, <2>1, <2>2, ProcFacts DEF RingsRight, EndsRight, Elt
<1>5. ItemsRight'
  BY <1>0, ProcFacts DEF ItemsRight, RingsRight, PushHead, Goto
<1>6. pc' \in [Proc -> Label] /\ at' \in [Proc -> Link] /\ nx' \in [Proc -> Link]
  BY <1>0, <1>a, <1>c, ProcFacts DEF Label, Link
<1>7. ProducerRight'
  <2>1. pc'[Producer] = "push" /\ at'[Producer] = head' /\ head' \in 1 .. head'
    BY <1>0, <1>a, <1>c, ProcFacts DEF Elt
  <2> QED
    BY <1>c, <2>1 DEF ProducerRight
<1>8. ASSUME NEW k \in Consumer PROVE ConsumerRight(k)'
  BY <1>0, ProcFacts DEF ConsumerRight, ProducerRight, EndsRight, RingsRight, NextRight, Newest, Link,
     Elt, PushHead, Goto
<1> QED
  BY <1>1, <1>2, <1>3, <1>4, <1>5, <1>6, <1>7, <1>8 DEF IInv, ProcsRight

\* A push leaves the rings within their sizes and those before the tail drained.
LEMMA RingsAfterPush ==
  ASSUME EndsRight, RingsRight, head \in Elt, Newest = head, NEW x \in Item,
         q' = [q EXCEPT ![head] = Append(q[head], x)], Len(q[head]) < size[head],
         tail' = tail, size' = size
  PROVE  RingsRight'
<1>1. q[head] \in Seq(Item) /\ q' \in [Elt -> Seq(Item)]
  BY DEF RingsRight
<1>2. ASSUME NEW e \in Elt PROVE Len(q'[e]) <= size[e]
  <2>1. CASE e = head
    <3>1. q'[e] = Append(q[head], x)
      BY <2>1 DEF RingsRight
    <3>2. Len(q'[e]) = Len(q[head]) + 1
      BY <1>1, <3>1
    <3>3. size[head] \in Nat
      BY DEF EndsRight
    <3> QED
      BY <1>1, <2>1, <3>2, <3>3
  <2>2. CASE e # head
    BY <2>2 DEF RingsRight
  <2> QED
    BY <2>1, <2>2
<1>3. ASSUME tail # None, NEW e \in Elt, e < tail PROVE q'[e] = <<>>
  <2>1. tail \in 1 .. head /\ e \in Nat
    BY <1>3 DEF EndsRight, Elt
  <2>2. e # head
    BY <1>3, <2>1, ChainAssumption DEF Elt
  <2> QED
    BY <1>3, <2>2 DEF RingsRight
<1> QED
  BY <1>1, <1>2, <1>3 DEF RingsRight

\* The newest dequeue takes the item.
LEMMA PushKeeps ==
  ASSUME IInv, Push PROVE IInv'
<1>0. /\ EndsRight /\ NextRight /\ PrevRight /\ RingsRight /\ ItemsRight /\ ProcsRight
      /\ ProducerRight /\ (\A k \in Consumer : ConsumerRight(k))
      /\ pc \in [Proc -> Label] /\ at \in [Proc -> Link] /\ nx \in [Proc -> Link]
  BY DEF IInv, ProcsRight
<1>a. /\ pc[Producer] = "push" /\ pc' = [pc EXCEPT ![Producer] = "idle"] /\ head \in Elt /\ Newest = head
      /\ q' = [q EXCEPT ![head] = Append(q[head], item[Producer])] /\ item[Producer] \in Item
      /\ at' = [at EXCEPT ![Producer] = None] /\ nx' = [nx EXCEPT ![Producer] = None]
      /\ head' = head /\ tail' = tail /\ UNCHANGED <<next, prev, size, out>>
  BY <1>0, ProcFacts DEF Push, Goto, Return, links, ProducerRight, ItemsRight, Newest, EndsRight, Link, Elt
<1>1. EndsRight'
  BY <1>0 DEF EndsRight, Newest, Push, links
<1>2. NextRight'
  BY <1>0, ProcFacts DEF NextRight, ProducerRight, Newest, Push, Goto, Return, links
<1>3. PrevRight'
  BY <1>0 DEF PrevRight, Newest, Push, links
<1>4. RingsRight'
  <2>1. size' = size /\ Len(q[head]) < size[head]
    BY <1>0, <1>a, ProcFacts DEF Push, ProducerRight, EndsRight, Elt
  <2> QED
    BY <1>0, <1>a, <2>1, RingsAfterPush
<1>5. ItemsRight'
  BY <1>0, ProcFacts DEF ItemsRight, RingsRight, Push, Goto, Return, links
<1>6. pc' \in [Proc -> Label] /\ at' \in [Proc -> Link] /\ nx' \in [Proc -> Link]
  BY <1>0, ProcFacts DEF Label, Link, EndsRight, NextRight, PrevRight, Push, Goto, Return, links
<1>7. ProducerRight'
  BY <1>0, ProcFacts DEF ProducerRight, EndsRight, RingsRight, PrevRight, Newest, Link, Elt, Push,
     Goto, Return, links
<1>8. ASSUME NEW k \in Consumer PROVE ConsumerRight(k)'
  <2>1. pc'[k] = pc[k] /\ at'[k] = at[k] /\ nx'[k] = nx[k] /\ k # Producer
    BY <1>0, <1>a, ProcFacts
  <2>2. pc[k] = "drop" /\ nx[k] # None => at[k] \in Elt /\ at[k] # head
    BY <1>0, <1>a, ProcFacts DEF ConsumerRight, EndsRight, Newest, Elt, Link
  <2>3. \A e \in Elt : e # head => q'[e] = q[e]
    BY <1>0, <1>a DEF RingsRight
  <2> QED
    BY <1>0, <1>a, <2>1, <2>2, <2>3 DEF ConsumerRight, Newest
<1> QED
  BY <1>1, <1>2, <1>3, <1>4, <1>5, <1>6, <1>7, <1>8 DEF IInv, ProcsRight

\* The newest dequeue is full: the producer allocates the next one.
LEMMA PushFullKeeps ==
  ASSUME IInv, PushFull PROVE IInv'
<1>0. /\ EndsRight /\ NextRight /\ PrevRight /\ RingsRight /\ ItemsRight /\ ProcsRight
      /\ ProducerRight /\ (\A k \in Consumer : ConsumerRight(k))
      /\ pc \in [Proc -> Label] /\ at \in [Proc -> Link] /\ nx \in [Proc -> Link]
  BY DEF IInv, ProcsRight
<1>a. /\ pc[Producer] = "push" /\ pc' = [pc EXCEPT ![Producer] = "link"]
      /\ head \in Elt /\ at[Producer] = head /\ Newest = head
  BY <1>0, ProcFacts DEF PushFull, Goto, ProducerRight, Newest, EndsRight, Link, Elt
<1>b. /\ Fresh = head + 1 /\ head + 1 \in Elt
  BY <1>0, <1>a, FreshIs DEF PushFull
<1>c. NewSize(size[head]) \in 1 .. Limit
  BY <1>0, <1>a, ChainAssumption DEF EndsRight, NewSize, Elt
<1>d. /\ size' = [size EXCEPT ![head + 1] = NewSize(size[head])]
      /\ prev' = [prev EXCEPT ![head + 1] = head] /\ head' = head + 1
      /\ UNCHANGED <<tail, next, q, at, nx, item, out>>
  BY <1>b DEF PushFull, PrevOfNew
<1>e. Newest' = head + 1
  BY <1>b, <1>d, ProcFacts DEF Newest
<1>f. head \in 1 .. MaxElts - 1 /\ head \in Nat /\ tail # None /\ tail \in 1 .. head
  BY <1>0, <1>a, <1>b, ProcFacts DEF EndsRight, Link, Elt
<1>1. EndsRight'
  <2>1. size' \in [Elt -> 0 .. Limit]
    BY <1>0, <1>b, <1>c, <1>d DEF EndsRight
  <2>2. \A e \in Elt : size'[e] > 0 <=> e <= head + 1
    BY <1>0, <1>a, <1>b, <1>c, <1>d DEF EndsRight, Elt
  <2> QED
    BY <1>0, <1>a, <1>b, <1>d, <1>e, <1>f, <2>1, <2>2, ProcFacts DEF EndsRight, Link
<1>2. NextRight'
  <2>1. pc'[Producer] = "link" /\ at'[Producer] = head
    BY <1>0, <1>a, <1>d, ProcFacts
  <2>2. \A e \in Elt : next[e] = IF e < head THEN e + 1 ELSE None
    BY <1>0, <1>a DEF NextRight
  <2> QED
    BY <1>0, <1>a, <1>d, <1>e, <2>1, <2>2 DEF NextRight, Link, Elt
<1>3. PrevRight'
  <2>1. prev' \in [Elt -> Link]
    BY <1>0, <1>a, <1>d DEF PrevRight, Link
  <2>2. \A e \in Elt : prev'[e] = IF e = head + 1 THEN head ELSE prev[e]
    BY <1>0, <1>d DEF PrevRight
  <2>3. ASSUME NEW e \in Elt
        PROVE  /\ prev'[e] # None => e <= head + 1 /\ e > 1 /\ prev'[e] = e - 1
               /\ e <= head + 1 /\ prev'[e] = None => e <= tail
    <3>1. e \in Nat
      BY DEF Elt
    <3>2. CASE e = head + 1
      BY <1>a, <1>f, <2>2, <3>2, ProcFacts
    <3>3. CASE e # head + 1
      BY <1>0, <1>a, <1>f, <2>2, <3>1, <3>3 DEF PrevRight
    <3> QED
      BY <3>2, <3>3
  <2> QED
    BY <1>d, <1>e, <2>1, <2>3 DEF PrevRight
<1>4. RingsRight'
  <2>1. \A e \in Elt : size[e] <= size'[e]
    BY <1>0, <1>a, <1>b, <1>c, <1>d DEF EndsRight, Elt
  <2> QED
    BY <1>0, <1>1, <1>d, <2>1 DEF RingsRight, EndsRight
<1>5. ItemsRight'
  BY <1>0, ProcFacts DEF ItemsRight, PushFull, Goto
<1>6. pc' \in [Proc -> Label] /\ at' \in [Proc -> Link] /\ nx' \in [Proc -> Link]
  BY <1>0, ProcFacts DEF Label, Link, EndsRight, NextRight, PrevRight, PushFull, Goto
<1>7. ProducerRight'
  <2>1. pc'[Producer] = "link" /\ at'[Producer] = head
    BY <1>0, <1>a, <1>d, ProcFacts
  <2>2. q[head + 1] = <<>>
    <3>1. Len(q[head + 1]) <= 0 /\ q[head + 1] \in Seq(Item)
      BY <1>0, <1>a, <1>b, <1>f DEF EndsRight, RingsRight
    <3> QED
      BY <3>1
  <2> QED
    BY <1>d, <1>e, <1>f, <2>1, <2>2 DEF ProducerRight
<1>8. ASSUME NEW k \in Consumer PROVE ConsumerRight(k)'
  <2>1. pc'[k] = pc[k] /\ at'[k] = at[k] /\ nx'[k] = nx[k]
    BY <1>0, <1>a, <1>d, ProcFacts
  <2>2. nx[k] \in Link
    BY <1>0, ProcFacts
  <2> QED
    BY <1>0, <1>a, <1>d, <1>e, <1>f, <2>1, <2>2 DEF ConsumerRight, Link, Elt
<1> QED
  BY <1>1, <1>2, <1>3, <1>4, <1>5, <1>6, <1>7, <1>8 DEF IInv, ProcsRight

\* The dequeue before the new one gets its link.
LEMMA StoreNextKeeps ==
  ASSUME IInv, StoreNext PROVE IInv'
<1>0. /\ EndsRight /\ NextRight /\ PrevRight /\ RingsRight /\ ItemsRight /\ ProcsRight
      /\ ProducerRight /\ (\A k \in Consumer : ConsumerRight(k))
      /\ pc \in [Proc -> Label] /\ at \in [Proc -> Link] /\ nx \in [Proc -> Link]
  BY DEF IInv, ProcsRight
<1>1. EndsRight'
  BY <1>0 DEF EndsRight, Newest, StoreNext, rings
<1>2. NextRight'
  BY <1>0, ProcFacts DEF NextRight, EndsRight, ProducerRight, Newest, Link, Elt, StoreNext, Goto, rings
<1>3. PrevRight'
  BY <1>0 DEF PrevRight, Newest, StoreNext
<1>4. RingsRight'
  BY <1>0 DEF RingsRight, StoreNext, rings
<1>5. ItemsRight'
  BY <1>0, ProcFacts DEF ItemsRight, StoreNext, Goto, rings
<1>6. pc' \in [Proc -> Label] /\ at' \in [Proc -> Link] /\ nx' \in [Proc -> Link]
  BY <1>0, ProcFacts DEF Label, Link, EndsRight, NextRight, PrevRight, StoreNext, Goto, rings
<1>7. ProducerRight'
  BY <1>0, ProcFacts DEF ProducerRight, EndsRight, RingsRight, PrevRight, Newest, Link, Elt,
     StoreNext, Goto, rings
<1>8. ASSUME NEW k \in Consumer PROVE ConsumerRight(k)'
  BY <1>0, ProcFacts DEF ConsumerRight, ProducerRight, EndsRight, RingsRight, NextRight, Newest, Link,
     Elt, StoreNext, Goto, rings
<1> QED
  BY <1>1, <1>2, <1>3, <1>4, <1>5, <1>6, <1>7, <1>8 DEF IInv, ProcsRight

\* The new dequeue takes the item: it is empty, and one long at least.
LEMMA PushNewKeeps ==
  ASSUME IInv, PushNew PROVE IInv'
<1>0. /\ EndsRight /\ NextRight /\ PrevRight /\ RingsRight /\ ItemsRight /\ ProcsRight
      /\ ProducerRight /\ (\A k \in Consumer : ConsumerRight(k))
      /\ pc \in [Proc -> Label] /\ at \in [Proc -> Link] /\ nx \in [Proc -> Link]
  BY DEF IInv, ProcsRight
<1>a. /\ pc[Producer] = "pushNew" /\ pc' = [pc EXCEPT ![Producer] = "idle"] /\ head \in Elt /\ Newest = head
      /\ q' = [q EXCEPT ![head] = Append(q[head], item[Producer])] /\ item[Producer] \in Item
      /\ at' = [at EXCEPT ![Producer] = None] /\ nx' = [nx EXCEPT ![Producer] = None]
      /\ head' = head /\ tail' = tail /\ UNCHANGED <<next, prev, size, out>>
  BY <1>0, ProcFacts DEF PushNew, Goto, Return, links, ProducerRight, ItemsRight, Newest, EndsRight,
     Link, Elt
<1>1. EndsRight'
  BY <1>0 DEF EndsRight, Newest, PushNew, links
<1>2. NextRight'
  BY <1>0, ProcFacts DEF NextRight, ProducerRight, Newest, PushNew, Goto, Return, links
<1>3. PrevRight'
  BY <1>0 DEF PrevRight, Newest, PushNew, links
<1>4. RingsRight'
  <2>1. size' = size /\ Len(q[head]) < size[head]
    BY <1>0, <1>a, ProcFacts DEF PushNew, ProducerRight, EndsRight, Elt
  <2> QED
    BY <1>0, <1>a, <2>1, RingsAfterPush
<1>5. ItemsRight'
  BY <1>0, ProcFacts DEF ItemsRight, RingsRight, PushNew, Goto, Return, links
<1>6. pc' \in [Proc -> Label] /\ at' \in [Proc -> Link] /\ nx' \in [Proc -> Link]
  BY <1>0, ProcFacts DEF Label, Link, EndsRight, NextRight, PrevRight, PushNew, Goto, Return, links
<1>7. ProducerRight'
  BY <1>0, ProcFacts DEF ProducerRight, EndsRight, RingsRight, PrevRight, Newest, Link, Elt, PushNew,
     Goto, Return, links
<1>8. ASSUME NEW k \in Consumer PROVE ConsumerRight(k)'
  <2>1. pc'[k] = pc[k] /\ at'[k] = at[k] /\ nx'[k] = nx[k] /\ k # Producer
    BY <1>0, <1>a, ProcFacts
  <2>2. pc[k] = "drop" /\ nx[k] # None => at[k] \in Elt /\ at[k] # head
    BY <1>0, <1>a, ProcFacts DEF ConsumerRight, EndsRight, Newest, Elt, Link
  <2>3. \A e \in Elt : e # head => q'[e] = q[e]
    BY <1>0, <1>a DEF RingsRight
  <2> QED
    BY <1>0, <1>a, <2>1, <2>2, <2>3 DEF ConsumerRight, Newest
<1> QED
  BY <1>1, <1>2, <1>3, <1>4, <1>5, <1>6, <1>7, <1>8 DEF IInv, ProcsRight

\* A popHead begins at the newest dequeue.
LEMMA PopHeadKeeps ==
  ASSUME IInv, PopHead PROVE IInv'
<1>0. /\ EndsRight /\ NextRight /\ PrevRight /\ RingsRight /\ ItemsRight /\ ProcsRight
      /\ ProducerRight /\ (\A k \in Consumer : ConsumerRight(k))
      /\ pc \in [Proc -> Label] /\ at \in [Proc -> Link] /\ nx \in [Proc -> Link]
  BY DEF IInv, ProcsRight
<1>a. \/ UNCHANGED <<pc, at>>
      \/ /\ head \in Elt /\ Newest = head
         /\ pc' = [pc EXCEPT ![Producer] = "pop"] /\ at' = [at EXCEPT ![Producer] = head]
  BY <1>0, ProcFacts DEF PopHead, Goto, EndsRight, Newest, Link
<1>b. head' = head /\ q' = q /\ Newest' = Newest
  BY DEF PopHead, links, rings, Newest
<1>1. EndsRight'
  BY <1>0 DEF EndsRight, Newest, PopHead, links, rings
<1>2. NextRight'
  BY <1>0, ProcFacts DEF NextRight, ProducerRight, Newest, PopHead, Goto, links, rings
<1>3. PrevRight'
  BY <1>0 DEF PrevRight, Newest, PopHead, links
<1>4. RingsRight'
  BY <1>0 DEF RingsRight, PopHead, links, rings
<1>5. ItemsRight'
  BY <1>0, ProcFacts DEF ItemsRight, PopHead, Goto, links, rings
<1>6. pc' \in [Proc -> Label] /\ at' \in [Proc -> Link] /\ nx' \in [Proc -> Link]
  BY <1>0, ProcFacts DEF Label, Link, EndsRight, NextRight, PrevRight, PopHead, Goto, links, rings
<1>7. ProducerRight'
  <2>1. CASE UNCHANGED <<pc, at>>
    BY <1>0, <1>b, <2>1 DEF ProducerRight
  <2>2. CASE /\ head \in Elt /\ Newest = head
             /\ pc' = [pc EXCEPT ![Producer] = "pop"] /\ at' = [at EXCEPT ![Producer] = head]
    <3>1. pc'[Producer] = "pop" /\ at'[Producer] = head /\ head \in 1 .. head
      BY <1>0, <2>2, ProcFacts DEF Elt
    <3>2. \A e \in Elt : e > head => q[e] = <<>>
      <4>1. ASSUME NEW e \in Elt, e > head PROVE Len(q[e]) <= 0 /\ q[e] \in Seq(Item)
        BY <1>0, <2>2, <4>1 DEF EndsRight, RingsRight, Elt
      <4> QED
        BY <4>1
    <3> QED
      BY <1>b, <2>2, <3>1, <3>2 DEF ProducerRight
  <2> QED
    BY <1>a, <2>1, <2>2
<1>8. ASSUME NEW k \in Consumer PROVE ConsumerRight(k)'
  BY <1>0, ProcFacts DEF ConsumerRight, ProducerRight, EndsRight, RingsRight, NextRight, Newest, Link,
     Elt, PopHead, Goto, links, rings
<1> QED
  BY <1>1, <1>2, <1>3, <1>4, <1>5, <1>6, <1>7, <1>8 DEF IInv, ProcsRight

\* The dequeue the producer is at has an item for it, or not: then it is empty,
\* as those after it are.
LEMMA HeadPopKeeps ==
  ASSUME IInv, HeadPop PROVE IInv'
<1>0. /\ EndsRight /\ NextRight /\ PrevRight /\ RingsRight /\ ItemsRight /\ ProcsRight
      /\ ProducerRight /\ (\A k \in Consumer : ConsumerRight(k))
      /\ pc \in [Proc -> Label] /\ at \in [Proc -> Link] /\ nx \in [Proc -> Link]
  BY DEF IInv, ProcsRight
<1>a. pc[Producer] = "pop" /\ at[Producer] \in Elt /\ q[at[Producer]] \in Seq(Item)
  BY <1>0, ProcFacts DEF HeadPop, ProducerRight, RingsRight, EndsRight, Newest, Link, Elt
<1>b. \/ /\ q[at[Producer]] # <<>> /\ pc' = [pc EXCEPT ![Producer] = "have"]
         /\ item' = [item EXCEPT ![Producer] = Last(q[at[Producer]])]
         /\ q' = [q EXCEPT ![at[Producer]] = Front(q[at[Producer]])]
      \/ /\ q[at[Producer]] = <<>> /\ pc' = [pc EXCEPT ![Producer] = "back"] /\ item' = item /\ q' = q
  BY DEF HeadPop, Goto
<1>c. UNCHANGED <<head, tail, next, prev, size, at, nx, out>> /\ Newest' = Newest
  BY DEF HeadPop, links, Newest
<1>d. q[at[Producer]] # <<>> =>
        /\ Front(q[at[Producer]]) \in Seq(Item) /\ Last(q[at[Producer]]) \in Item
        /\ Len(Front(q[at[Producer]])) < Len(q[at[Producer]])
  BY <1>a, FrontLast
<1>e. /\ q' \in [Elt -> Seq(Item)]
      /\ \A e \in Elt : Len(q'[e]) <= Len(q[e]) /\ (q[e] = <<>> => q'[e] = <<>>)
  <2>1. \A e \in Elt : q[e] \in Seq(Item) /\ Len(q[e]) \in Nat
    BY <1>0 DEF RingsRight
  <2>2. CASE q[at[Producer]] = <<>>
    BY <1>0, <1>b, <2>1, <2>2 DEF RingsRight
  <2>3. CASE q[at[Producer]] # <<>>
    <3>1. PICK v : v = Front(q[at[Producer]])
      OBVIOUS
    <3>2. v \in Seq(Item) /\ Len(v) < Len(q[at[Producer]]) /\ Len(v) \in Nat
      BY <1>d, <2>3, <3>1
    <3>3. q' = [q EXCEPT ![at[Producer]] = v]
      BY <1>b, <2>3, <3>1
    <3> QED
      BY <1>0, <1>a, <2>1, <2>3, <3>2, <3>3 DEF RingsRight
  <2> QED
    BY <2>2, <2>3
<1>1. EndsRight'
  BY <1>0 DEF EndsRight, Newest, HeadPop, links
<1>2. NextRight'
  BY <1>0, ProcFacts DEF NextRight, ProducerRight, Newest, HeadPop, Goto, links
<1>3. PrevRight'
  BY <1>0 DEF PrevRight, Newest, HeadPop, links
<1>4. RingsRight'
  <2>1. \A e \in Elt : Len(q'[e]) \in Nat /\ Len(q[e]) \in Nat /\ size[e] \in Nat
    BY <1>0, <1>e DEF RingsRight, EndsRight
  <2> QED
    BY <1>0, <1>c, <1>e, <2>1 DEF RingsRight
<1>5. ItemsRight'
  <2>1. item' \in [Proc -> Item \cup {None}]
    BY <1>0, <1>b, <1>d DEF ItemsRight
  <2> QED
    BY <1>0, <1>b, <1>c, <1>d, <2>1, ProcFacts DEF ItemsRight
<1>6. pc' \in [Proc -> Label] /\ at' \in [Proc -> Link] /\ nx' \in [Proc -> Link]
  BY <1>0, ProcFacts DEF Label, Link, EndsRight, NextRight, PrevRight, HeadPop, Goto, links
<1>7. ProducerRight'
  BY <1>0, ProcFacts DEF ProducerRight, EndsRight, RingsRight, PrevRight, Newest, Link, Elt, HeadPop,
     Goto, links
<1>8. ASSUME NEW k \in Consumer PROVE ConsumerRight(k)'
  <2>1. pc'[k] = pc[k] /\ at'[k] = at[k] /\ nx'[k] = nx[k]
    BY <1>0, <1>b, <1>c, ProcFacts
  <2>2. pc[k] = "drop" => at[k] \in Elt
    BY <1>0, ProcFacts DEF ConsumerRight, EndsRight, Link, Elt
  <2> QED
    BY <1>0, <1>c, <1>e, <2>1, <2>2 DEF ConsumerRight
<1> QED
  BY <1>1, <1>2, <1>3, <1>4, <1>5, <1>6, <1>7, <1>8 DEF IInv, ProcsRight

\* The producer goes on to the dequeue before. Where there is none it stands at the
\* tail or before it, and what is before the tail is drained.
LEMMA HeadBackKeeps ==
  ASSUME IInv, HeadBack PROVE IInv'
<1>0. /\ EndsRight /\ NextRight /\ PrevRight /\ RingsRight /\ ItemsRight /\ ProcsRight
      /\ ProducerRight /\ (\A k \in Consumer : ConsumerRight(k))
      /\ pc \in [Proc -> Label] /\ at \in [Proc -> Link] /\ nx \in [Proc -> Link]
  BY DEF IInv, ProcsRight
<1>a. /\ pc[Producer] = "back" /\ at[Producer] \in Elt /\ at[Producer] <= Newest
      /\ prev[at[Producer]] \in Link
  BY <1>0, ProcFacts DEF HeadBack, ProducerRight, PrevRight, EndsRight, Newest, Link, Elt
<1>b. \/ /\ pc' = [pc EXCEPT ![Producer] = "idle"] /\ at' = [at EXCEPT ![Producer] = None]
         /\ nx' = [nx EXCEPT ![Producer] = None]
      \/ /\ prev[at[Producer]] # None /\ pc' = [pc EXCEPT ![Producer] = "pop"]
         /\ at' = [at EXCEPT ![Producer] = prev[at[Producer]]] /\ nx' = nx
  BY DEF HeadBack, Goto, Return
<1>c. q' = q /\ Newest' = Newest
  BY DEF HeadBack, links, rings, Newest
<1>1. EndsRight'
  BY <1>0 DEF EndsRight, Newest, HeadBack, links, rings
<1>2. NextRight'
  BY <1>0, ProcFacts DEF NextRight, ProducerRight, Newest, HeadBack, Goto, Return, links, rings
<1>3. PrevRight'
  BY <1>0 DEF PrevRight, Newest, HeadBack, links
<1>4. RingsRight'
  BY <1>0 DEF RingsRight, HeadBack, links, rings
<1>5. ItemsRight'
  BY <1>0, ProcFacts DEF ItemsRight, HeadBack, Goto, Return, links, rings
<1>6. pc' \in [Proc -> Label] /\ at' \in [Proc -> Link] /\ nx' \in [Proc -> Link]
  <2>1. pc' \in [Proc -> Label]
    BY <1>0, <1>b DEF Label
  <2> QED
    BY <1>0, <1>a, <1>b, <2>1 DEF Link
<1>7. ProducerRight'
  <2>1. CASE pc'[Producer] = "idle"
    BY <2>1 DEF ProducerRight
  <2>2. CASE pc'[Producer] = "pop" /\ prev[at[Producer]] # None /\ at'[Producer] = prev[at[Producer]]
    <3>1. at'[Producer] = at[Producer] - 1 /\ at[Producer] > 1 /\ at[Producer] \in Nat
      BY <1>0, <1>a, <2>2 DEF PrevRight, Elt
    <3>2. at'[Producer] \in 1 .. Newest
      BY <1>0, <1>a, <3>1, FreshIs
    <3>3. \A e \in Elt : e > at'[Producer] => q[e] = <<>>
      BY <1>0, <1>a, <3>1 DEF ProducerRight, Elt
    <3> QED
      BY <1>c, <2>2, <3>2, <3>3 DEF ProducerRight
  <2> QED
    BY <1>0, <1>b, <2>1, <2>2, ProcFacts
<1>8. ASSUME NEW k \in Consumer PROVE ConsumerRight(k)'
  BY <1>0, ProcFacts DEF ConsumerRight, ProducerRight, EndsRight, RingsRight, NextRight, Newest, Link,
     Elt, HeadBack, Goto, Return, links, rings
<1> QED
  BY <1>1, <1>2, <1>3, <1>4, <1>5, <1>6, <1>7, <1>8 DEF IInv, ProcsRight

\* A popTail begins at the tail.
LEMMA PopTailKeeps ==
  ASSUME IInv, NEW c \in Consumer, PopTail(c) PROVE IInv'
<1>0. /\ EndsRight /\ NextRight /\ PrevRight /\ RingsRight /\ ItemsRight /\ ProcsRight
      /\ ProducerRight /\ (\A k \in Consumer : ConsumerRight(k))
      /\ pc \in [Proc -> Label] /\ at \in [Proc -> Link] /\ nx \in [Proc -> Link]
  BY DEF IInv, ProcsRight
<1>a. \/ UNCHANGED <<pc, at>>
      \/ /\ tail \in Elt
         /\ pc' = [pc EXCEPT ![c] = "next"] /\ at' = [at EXCEPT ![c] = tail]
  BY <1>0 DEF PopTail, Goto, EndsRight, Link
<1>b. tail' = tail /\ q' = q /\ Newest' = Newest /\ nx' = nx
  BY DEF PopTail, links, rings, Newest
<1>1. EndsRight'
  BY <1>0 DEF EndsRight, Newest, PopTail, links, rings
<1>2. NextRight'
  BY <1>0, ProcFacts DEF NextRight, ProducerRight, Newest, PopTail, Goto, links, rings
<1>3. PrevRight'
  BY <1>0 DEF PrevRight, Newest, PopTail, links
<1>4. RingsRight'
  BY <1>0 DEF RingsRight, PopTail, links, rings
<1>5. ItemsRight'
  BY <1>0, ProcFacts DEF ItemsRight, PopTail, Goto, links, rings
<1>6. pc' \in [Proc -> Label] /\ at' \in [Proc -> Link] /\ nx' \in [Proc -> Link]
  BY <1>0, ProcFacts DEF Label, Link, EndsRight, NextRight, PrevRight, PopTail, Goto, links, rings
<1>7. ProducerRight'
  BY <1>0, ProcFacts DEF ProducerRight, EndsRight, RingsRight, PrevRight, Newest, Link, Elt, PopTail,
     Goto, links, rings
<1>8. ASSUME NEW k \in Consumer PROVE ConsumerRight(k)'
  <2>1. CASE UNCHANGED <<pc, at>>
    BY <1>0, <1>b, <2>1 DEF ConsumerRight
  <2>2. CASE /\ tail \in Elt
             /\ pc' = [pc EXCEPT ![c] = "next"] /\ at' = [at EXCEPT ![c] = tail]
    <3>1. CASE k = c
      <4>1. pc'[c] = "next" /\ at'[c] = tail
        BY <1>0, <2>2, ProcFacts
      <4> QED
        BY <1>b, <2>2, <3>1, <4>1, ProcFacts DEF ConsumerRight, Elt
    <3>2. CASE k # c
      <4>1. pc'[k] = pc[k] /\ at'[k] = at[k]
        BY <1>0, <2>2, <3>2, ProcFacts
      <4> QED
        BY <1>0, <1>b, <4>1 DEF ConsumerRight
    <3> QED
      BY <3>1, <3>2
  <2> QED
    BY <1>a, <2>1, <2>2
<1> QED
  BY <1>1, <1>2, <1>3, <1>4, <1>5, <1>6, <1>7, <1>8 DEF IInv, ProcsRight

\* A consumer loads the link to the next dequeue before it pops.
LEMMA LoadNextKeeps ==
  ASSUME IInv, NEW c \in Consumer, LoadNext(c) PROVE IInv'
<1>0. /\ EndsRight /\ NextRight /\ PrevRight /\ RingsRight /\ ItemsRight /\ ProcsRight
      /\ ProducerRight /\ (\A k \in Consumer : ConsumerRight(k))
      /\ pc \in [Proc -> Label] /\ at \in [Proc -> Link] /\ nx \in [Proc -> Link]
  BY DEF IInv, ProcsRight
<1>a. /\ pc[c] = "next" /\ pc' = [pc EXCEPT ![c] = "pop"] /\ nx' = [nx EXCEPT ![c] = next[at[c]]]
      /\ UNCHANGED <<head, tail, next, prev, size, q, at, item, out>> /\ Newest' = Newest
  BY DEF LoadNext, Goto, links, rings, Newest
<1>b. at[c] \in Elt /\ at[c] \in 1 .. tail /\ tail # None /\ next[at[c]] \in Link
  BY <1>0, <1>a, ProcFacts DEF ConsumerRight, EndsRight, NextRight, Link, Elt
<1>1. EndsRight'
  BY <1>0 DEF EndsRight, Newest, LoadNext, links, rings
<1>2. NextRight'
  BY <1>0, ProcFacts DEF NextRight, ProducerRight, Newest, LoadNext, Goto, links, rings
<1>3. PrevRight'
  BY <1>0 DEF PrevRight, Newest, LoadNext, links
<1>4. RingsRight'
  BY <1>0 DEF RingsRight, LoadNext, links, rings
<1>5. ItemsRight'
  BY <1>0, ProcFacts DEF ItemsRight, LoadNext, Goto, links, rings
<1>6. pc' \in [Proc -> Label] /\ at' \in [Proc -> Link] /\ nx' \in [Proc -> Link]
  BY <1>0, <1>a, <1>b DEF Label
<1>7. ProducerRight'
  BY <1>0, ProcFacts DEF ProducerRight, EndsRight, RingsRight, PrevRight, Newest, Link, Elt, LoadNext,
     Goto, links, rings
<1>8. ASSUME NEW k \in Consumer PROVE ConsumerRight(k)'
  <2>1. CASE k # c
    <3>1. pc'[k] = pc[k] /\ at'[k] = at[k] /\ nx'[k] = nx[k]
      BY <1>0, <1>a, <2>1, ProcFacts
    <3> QED
      BY <1>0, <1>a, <3>1 DEF ConsumerRight
  <2>2. CASE k = c
    <3>1. pc'[c] = "pop" /\ at'[c] = at[c] /\ nx'[c] = next[at[c]]
      BY <1>0, <1>a, ProcFacts
    <3>2. next[at[c]] # None => next[at[c]] = at[c] + 1 /\ at[c] + 1 <= Newest
      BY <1>0, <1>b, FreshIs DEF NextRight, Elt
    <3> QED
      BY <1>a, <1>b, <2>2, <3>1, <3>2 DEF ConsumerRight
  <2> QED
    BY <2>1, <2>2
<1> QED
  BY <1>1, <1>2, <1>3, <1>4, <1>5, <1>6, <1>7, <1>8 DEF IInv, ProcsRight

\* The dequeue the consumer is at has an item for it, or not. If there was a next
\* one by then, the producer had left the dequeue, and it is drained.
LEMMA TailPopKeeps ==
  ASSUME IInv, NEW c \in Consumer, TailPop(c) PROVE IInv'
<1>0. /\ EndsRight /\ NextRight /\ PrevRight /\ RingsRight /\ ItemsRight /\ ProcsRight
      /\ ProducerRight /\ (\A k \in Consumer : ConsumerRight(k))
      /\ pc \in [Proc -> Label] /\ at \in [Proc -> Link] /\ nx \in [Proc -> Link]
  BY DEF IInv, ProcsRight
<1>a. pc[c] = "pop" /\ at[c] \in Elt /\ q[at[c]] \in Seq(Item)
  BY <1>0, ProcFacts DEF TailPop, ConsumerRight, RingsRight, EndsRight, Newest, Link, Elt
<1>b. \/ /\ q[at[c]] # <<>> /\ pc' = [pc EXCEPT ![c] = "have"]
         /\ item' = [item EXCEPT ![c] = Head(q[at[c]])]
         /\ q' = [q EXCEPT ![at[c]] = Tail(q[at[c]])]
      \/ /\ q[at[c]] = <<>> /\ pc' = [pc EXCEPT ![c] = "drop"] /\ item' = item /\ q' = q
  BY DEF TailPop, Goto
<1>c. UNCHANGED <<head, tail, next, prev, size, at, nx, out>> /\ Newest' = Newest
  BY DEF TailPop, links, Newest
<1>d. q[at[c]] # <<>> =>
        /\ Tail(q[at[c]]) \in Seq(Item) /\ Head(q[at[c]]) \in Item
        /\ Len(Tail(q[at[c]])) < Len(q[at[c]])
  BY <1>a, HeadTailProperties
<1>e. /\ q' \in [Elt -> Seq(Item)]
      /\ \A e \in Elt : Len(q'[e]) <= Len(q[e]) /\ (q[e] = <<>> => q'[e] = <<>>)
  <2>1. \A e \in Elt : q[e] \in Seq(Item) /\ Len(q[e]) \in Nat
    BY <1>0 DEF RingsRight
  <2>2. CASE q[at[c]] = <<>>
    BY <1>0, <1>b, <2>1, <2>2 DEF RingsRight
  <2>3. CASE q[at[c]] # <<>>
    <3>1. PICK v : v = Tail(q[at[c]])
      OBVIOUS
    <3>2. v \in Seq(Item) /\ Len(v) < Len(q[at[c]]) /\ Len(v) \in Nat
      BY <1>d, <2>3, <3>1
    <3>3. q' = [q EXCEPT ![at[c]] = v]
      BY <1>b, <2>3, <3>1
    <3> QED
      BY <1>0, <1>a, <2>1, <2>3, <3>2, <3>3 DEF RingsRight
  <2> QED
    BY <2>2, <2>3
<1>1. EndsRight'
  BY <1>0 DEF EndsRight, Newest, TailPop, links
<1>2. NextRight'
  BY <1>0, ProcFacts DEF NextRight, ProducerRight, Newest, TailPop, Goto, links
<1>3. PrevRight'
  BY <1>0 DEF PrevRight, Newest, TailPop, links
<1>4. RingsRight'
  <2>1. \A e \in Elt : Len(q'[e]) \in Nat /\ Len(q[e]) \in Nat /\ size[e] \in Nat
    BY <1>0, <1>e DEF RingsRight, EndsRight
  <2> QED
    BY <1>0, <1>c, <1>e, <2>1 DEF RingsRight
<1>5. ItemsRight'
  <2>1. item' \in [Proc -> Item \cup {None}]
    BY <1>0, <1>b, <1>d DEF ItemsRight
  <2> QED
    BY <1>0, <1>b, <1>c, <1>d, <2>1, ProcFacts DEF ItemsRight
<1>6. pc' \in [Proc -> Label] /\ at' \in [Proc -> Link] /\ nx' \in [Proc -> Link]
  BY <1>0, ProcFacts DEF Label, Link, EndsRight, NextRight, PrevRight, TailPop, Goto, links
<1>7. ProducerRight'
  <2>1. pc'[Producer] = pc[Producer] /\ at'[Producer] = at[Producer]
    BY <1>0, <1>b, <1>c, ProcFacts
  <2>2. pc[Producer] = "back" => at[Producer] \in Elt
    BY <1>0, ProcFacts DEF ProducerRight, EndsRight, Newest, Link, Elt
  <2>3. pc[Producer] \in {"link", "pushNew"} => Newest \in Elt
    BY <1>0, ProcFacts DEF ProducerRight, EndsRight, Newest, Link, Elt
  <2> QED
    BY <1>0, <1>c, <1>e, <2>1, <2>2, <2>3 DEF ProducerRight
<1>8. ASSUME NEW k \in Consumer PROVE ConsumerRight(k)'
  <2>1. CASE k # c
    <3>1. pc'[k] = pc[k] /\ at'[k] = at[k] /\ nx'[k] = nx[k]
      BY <1>0, <1>b, <1>c, <2>1, ProcFacts
    <3>2. pc[k] = "drop" => at[k] \in Elt
      BY <1>0, ProcFacts DEF ConsumerRight, EndsRight, Link, Elt
    <3> QED
      BY <1>0, <1>c, <1>e, <3>1, <3>2 DEF ConsumerRight
  <2>2. CASE k = c
    <3>1. at'[c] = at[c] /\ nx'[c] = nx[c]
      BY <1>c
    <3>2. ConsumerRight(c)
      BY <1>0
    <3>3. CASE pc'[c] = "have"
      BY <2>2, <3>3 DEF ConsumerRight
    <3>4. CASE pc'[c] = "drop" /\ q'[at[c]] = <<>>
      BY <1>a, <1>c, <2>2, <3>1, <3>2, <3>4 DEF ConsumerRight
    <3> QED
      BY <1>0, <1>b, <3>3, <3>4, ProcFacts
  <2> QED
    BY <2>1, <2>2
<1> QED
  BY <1>1, <1>2, <1>3, <1>4, <1>5, <1>6, <1>7, <1>8 DEF IInv, ProcsRight

\* There was no next dequeue: the chain is empty.
LEMMA LastDequeueKeeps ==
  ASSUME IInv, NEW c \in Consumer, LastDequeue(c) PROVE IInv'
<1>0. /\ EndsRight /\ NextRight /\ PrevRight /\ RingsRight /\ ItemsRight /\ ProcsRight
      /\ ProducerRight /\ (\A k \in Consumer : ConsumerRight(k))
      /\ pc \in [Proc -> Label] /\ at \in [Proc -> Link] /\ nx \in [Proc -> Link]
  BY DEF IInv, ProcsRight
<1>1. EndsRight'
  BY <1>0 DEF EndsRight, Newest, LastDequeue, links, rings
<1>2. NextRight'
  BY <1>0, ProcFacts DEF NextRight, ProducerRight, Newest, LastDequeue, Goto, Return, NextSeen, links, rings
<1>3. PrevRight'
  BY <1>0 DEF PrevRight, Newest, LastDequeue, links
<1>4. RingsRight'
  BY <1>0 DEF RingsRight, LastDequeue, links, rings
<1>5. ItemsRight'
  BY <1>0, ProcFacts DEF ItemsRight, LastDequeue, Goto, Return, NextSeen, links, rings
<1>6. pc' \in [Proc -> Label] /\ at' \in [Proc -> Link] /\ nx' \in [Proc -> Link]
  BY <1>0, ProcFacts DEF Label, Link, EndsRight, NextRight, PrevRight, LastDequeue, Goto, Return,
     NextSeen, links, rings
<1>7. ProducerRight'
  BY <1>0, ProcFacts DEF ProducerRight, EndsRight, RingsRight, PrevRight, Newest, Link, Elt,
     LastDequeue, Goto, Return, NextSeen, links, rings
<1>8. ASSUME NEW k \in Consumer PROVE ConsumerRight(k)'
  BY <1>0, ProcFacts DEF ConsumerRight, ProducerRight, EndsRight, RingsRight, NextRight, Newest, Link,
     Elt, LastDequeue, Goto, Return, NextSeen, links, rings
<1> QED
  BY <1>1, <1>2, <1>3, <1>4, <1>5, <1>6, <1>7, <1>8 DEF IInv, ProcsRight

\* The tail moves from a drained dequeue to the next, for one consumer only.
LEMMA DropKeeps ==
  ASSUME IInv, NEW c \in Consumer, Drop(c) PROVE IInv'
<1>0. /\ EndsRight /\ NextRight /\ PrevRight /\ RingsRight /\ ItemsRight /\ ProcsRight
      /\ ProducerRight /\ (\A k \in Consumer : ConsumerRight(k))
      /\ pc \in [Proc -> Label] /\ at \in [Proc -> Link] /\ nx \in [Proc -> Link]
  BY DEF IInv, ProcsRight
<1>a. /\ pc[c] = "drop" /\ nx[c] # None /\ tail # None /\ tail \in Elt /\ at[c] \in 1 .. tail
      /\ nx[c] = at[c] + 1 /\ nx[c] <= Newest /\ q[at[c]] = <<>> /\ nx[c] \in Elt
  BY <1>0, ProcFacts DEF Drop, NextSeen, ConsumerRight, EndsRight, Link, Elt
<1>b. \/ /\ tail = at[c] /\ tail' = nx[c] /\ pc' = [pc EXCEPT ![c] = "clear"] /\ at' = at
      \/ /\ tail # at[c] /\ tail' = tail
         /\ pc' = [pc EXCEPT ![c] = "next"] /\ at' = [at EXCEPT ![c] = nx[c]]
  BY DEF Drop, StillTail, NextSeen, Goto
<1>c. UNCHANGED <<head, next, prev, size, q, item, out>> /\ Newest' = Newest /\ nx' = nx
  <2>1. nx' = nx
    BY <1>0 DEF Drop, NextSeen
  <2> QED
    BY <2>1 DEF Drop, rings, Newest
<1>d. tail' \in Elt /\ tail <= tail' /\ tail' <= Newest /\ tail' # None /\ head # None
  BY <1>0, <1>a, <1>b, ProcFacts DEF EndsRight, Elt
<1>1. EndsRight'
  BY <1>0, <1>c, <1>d DEF EndsRight, Link
<1>2. NextRight'
  BY <1>0, ProcFacts DEF NextRight, ProducerRight, Newest, Drop, Goto, NextSeen, StillTail, rings
<1>3. PrevRight'
  <2>1. tail \in Nat /\ tail' \in Nat /\ \A e \in Elt : e \in Nat
    BY <1>a, <1>d DEF Elt
  <2>2. ASSUME NEW e \in Elt
        PROVE  /\ prev[e] # None => e <= Newest /\ e > 1 /\ prev[e] = e - 1
               /\ e <= Newest /\ prev[e] = None => e <= tail'
    BY <1>0, <1>d, <2>1 DEF PrevRight
  <2> QED
    BY <1>0, <1>c, <2>2 DEF PrevRight
<1>4. RingsRight'
  <2>1. ASSUME NEW e \in Elt, e < tail' PROVE q[e] = <<>>
    <3>1. e < tail \/ e = at[c]
      BY <1>a, <1>b, <2>1 DEF Elt
    <3> QED
      BY <1>0, <1>a, <3>1 DEF RingsRight
  <2> QED
    BY <1>0, <1>c, <2>1 DEF RingsRight
<1>5. ItemsRight'
  BY <1>0, ProcFacts DEF ItemsRight, Drop, Goto, NextSeen, StillTail, rings
<1>6. pc' \in [Proc -> Label] /\ at' \in [Proc -> Link] /\ nx' \in [Proc -> Link]
  BY <1>0, ProcFacts DEF Label, Link, EndsRight, NextRight, PrevRight, Drop, Goto, NextSeen,
     StillTail, rings
<1>7. ProducerRight'
  BY <1>0, ProcFacts DEF ProducerRight, EndsRight, RingsRight, PrevRight, Newest, Link, Elt, Drop,
     Goto, NextSeen, StillTail, rings
<1>8. ASSUME NEW k \in Consumer PROVE ConsumerRight(k)'
  <2>1. tail \in Nat /\ tail' \in Nat
    BY <1>a, <1>d DEF Elt
  <2>2. CASE k # c
    <3>1. pc'[k] = pc[k] /\ at'[k] = at[k] /\ nx'[k] = nx[k]
      BY <1>0, <1>b, <1>c, <2>2, ProcFacts
    <3>2. nx[k] \in Link
      BY <1>0, ProcFacts
    <3>3. pc[k] = "clear" => nx[k] <= tail'
      BY <1>0, <1>d, <2>1, <3>2 DEF ConsumerRight, Link, Elt
    <3>4. pc[k] \in {"next", "pop", "drop", "clear"} => at[k] \in 1 .. tail'
      BY <1>0, <1>d, <2>1 DEF ConsumerRight
    <3> QED
      BY <1>0, <1>c, <1>d, <3>1, <3>3, <3>4 DEF ConsumerRight
  <2>3. CASE k = c
    <3>1. CASE tail = at[c] /\ tail' = nx[c] /\ pc' = [pc EXCEPT ![c] = "clear"] /\ at' = at
      <4>1. pc'[c] = "clear" /\ at'[c] = at[c] /\ nx'[c] = nx[c] /\ nx[c] <= nx[c] /\ at[c] \in 1 .. nx[c]
        BY <1>0, <1>a, <1>c, <3>1, ProcFacts DEF Elt
      <4> QED
        BY <1>a, <1>c, <1>d, <2>3, <3>1, <4>1 DEF ConsumerRight
    <3>2. CASE /\ tail # at[c] /\ tail' = tail
               /\ pc' = [pc EXCEPT ![c] = "next"] /\ at' = [at EXCEPT ![c] = nx[c]]
      <4>1. pc'[c] = "next" /\ at'[c] = nx[c] /\ nx[c] \in 1 .. tail
        BY <1>0, <1>a, <2>1, <3>2, ProcFacts
      <4> QED
        BY <1>a, <2>3, <3>2, <4>1 DEF ConsumerRight
    <3> QED
      BY <1>b, <3>1, <3>2
  <2> QED
    BY <2>2, <2>3
<1> QED
  BY <1>1, <1>2, <1>3, <1>4, <1>5, <1>6, <1>7, <1>8 DEF IInv, ProcsRight

\* The consumer that moved the tail clears the link to the dequeue it dropped.
LEMMA ClearPrevKeeps ==
  ASSUME IInv, NEW c \in Consumer, ClearPrev(c) PROVE IInv'
<1>0. /\ EndsRight /\ NextRight /\ PrevRight /\ RingsRight /\ ItemsRight /\ ProcsRight
      /\ ProducerRight /\ (\A k \in Consumer : ConsumerRight(k))
      /\ pc \in [Proc -> Label] /\ at \in [Proc -> Link] /\ nx \in [Proc -> Link]
  BY DEF IInv, ProcsRight
<1>a. /\ pc[c] = "clear" /\ pc' = [pc EXCEPT ![c] = "next"] /\ at' = [at EXCEPT ![c] = nx[c]]
      /\ UNCHANGED <<head, tail, size, q, nx>> /\ Newest' = Newest
  BY DEF ClearPrev, Goto, rings, Newest
<1>b. tail # None /\ tail \in Elt /\ nx[c] # None /\ nx[c] \in Elt /\ nx[c] <= tail
  BY <1>0, <1>a, ProcFacts DEF ConsumerRight, EndsRight, Link
<1>1. EndsRight'
  BY <1>0 DEF EndsRight, Newest, ClearPrev, rings
<1>2. NextRight'
  BY <1>0, ProcFacts DEF NextRight, ProducerRight, Newest, ClearPrev, Goto, rings
<1>3. PrevRight'
  BY <1>0, ProcFacts DEF PrevRight, EndsRight, ProducerRight, ConsumerRight, Newest, Link, Elt,
     ClearPrev, Goto, rings
<1>4. RingsRight'
  BY <1>0 DEF RingsRight, ClearPrev, rings
<1>5. ItemsRight'
  BY <1>0, ProcFacts DEF ItemsRight, ClearPrev, Goto, rings
<1>6. pc' \in [Proc -> Label] /\ at' \in [Proc -> Link] /\ nx' \in [Proc -> Link]
  BY <1>0, ProcFacts DEF Label, Link, EndsRight, NextRight, PrevRight, ClearPrev, Goto, rings
<1>7. ProducerRight'
  BY <1>0, ProcFacts DEF ProducerRight, EndsRight, RingsRight, PrevRight, Newest, Link, Elt,
     ClearPrev, Goto, rings
<1>8. ASSUME NEW k \in Consumer PROVE ConsumerRight(k)'
  <2>1. CASE k # c
    <3>1. pc'[k] = pc[k] /\ at'[k] = at[k] /\ nx'[k] = nx[k]
      BY <1>0, <1>a, <2>1, ProcFacts
    <3> QED
      BY <1>0, <1>a, <3>1 DEF ConsumerRight
  <2>2. CASE k = c
    <3>1. pc'[c] = "next" /\ at'[c] = nx[c]
      BY <1>0, <1>a, ProcFacts
    <3> QED
      BY <1>a, <1>b, <2>2, <3>1 DEF ConsumerRight, Elt
  <2> QED
    BY <2>1, <2>2
<1> QED
  BY <1>1, <1>2, <1>3, <1>4, <1>5, <1>6, <1>7, <1>8 DEF IInv, ProcsRight

\* An operation returns its item.
LEMMA ReturnItemKeeps ==
  ASSUME IInv, NEW p \in Proc, ReturnItem(p) PROVE IInv'
<1>0. /\ EndsRight /\ NextRight /\ PrevRight /\ RingsRight /\ ItemsRight /\ ProcsRight
      /\ ProducerRight /\ (\A k \in Consumer : ConsumerRight(k))
      /\ pc \in [Proc -> Label] /\ at \in [Proc -> Link] /\ nx \in [Proc -> Link]
  BY DEF IInv, ProcsRight
<1>1. EndsRight'
  BY <1>0 DEF EndsRight, Newest, ReturnItem, links, rings
<1>2. NextRight'
  BY <1>0, ProcFacts DEF NextRight, ProducerRight, Newest, ReturnItem, Goto, Return, links, rings
<1>3. PrevRight'
  BY <1>0 DEF PrevRight, Newest, ReturnItem, links
<1>4. RingsRight'
  BY <1>0 DEF RingsRight, ReturnItem, links, rings
<1>5. ItemsRight'
  BY <1>0, ProcFacts DEF ItemsRight, RingsRight, ReturnItem, Goto, Return, links, rings
<1>6. pc' \in [Proc -> Label] /\ at' \in [Proc -> Link] /\ nx' \in [Proc -> Link]
  BY <1>0, ProcFacts DEF Label, Link, EndsRight, NextRight, PrevRight, ReturnItem, Goto, Return,
     links, rings
<1>7. ProducerRight'
  BY <1>0, ProcFacts DEF ProducerRight, EndsRight, RingsRight, PrevRight, Newest, Link, Elt,
     ReturnItem, Goto, Return, links, rings
<1>8. ASSUME NEW k \in Consumer PROVE ConsumerRight(k)'
  BY <1>0, ProcFacts DEF ConsumerRight, ProducerRight, EndsRight, RingsRight, NextRight, Newest, Link,
     Elt, ReturnItem, Goto, Return, links, rings
<1> QED
  BY <1>1, <1>2, <1>3, <1>4, <1>5, <1>6, <1>7, <1>8 DEF IInv, ProcsRight

\* No step disturbs the invariant.
LEMMA IInvNext == IInv /\ [Next]_vars => IInv'
<1> SUFFICES ASSUME IInv, [Next]_vars PROVE IInv'
  OBVIOUS
<1>1. CASE UNCHANGED vars
  BY <1>1 DEF IInv, EndsRight, NextRight, PrevRight, RingsRight, ItemsRight, ProcsRight, ProducerRight,
              ConsumerRight, Newest, vars, links, rings
<1>2. CASE Next
  BY <1>2, PushHeadKeeps, PopHeadKeeps, PushKeeps, PushFullKeeps, StoreNextKeeps, PushNewKeeps, HeadPopKeeps,
     HeadBackKeeps, PopTailKeeps, LoadNextKeeps, TailPopKeeps, LastDequeueKeeps, DropKeeps, ClearPrevKeeps,
     ReturnItemKeeps DEF Next, ProducerStep, ConsumerStep
<1> QED
  BY <1>1, <1>2

\* Nor does any behaviour.
LEMMA Invariance == Spec => []IInv
BY InitIInv, IInvNext, PTL DEF Spec

-----------------------------------------------------------------------------
(***************************************************************************)
(* What follows from it.                                                   *)
(***************************************************************************)
LEMMA IInvChainInv == IInv => ChainInv
<1> SUFFICES ASSUME IInv PROVE ChainInv
  OBVIOUS
<1>0. /\ EndsRight /\ NextRight /\ PrevRight /\ RingsRight /\ ItemsRight
      /\ ProducerRight /\ (\A k \in Consumer : ConsumerRight(k))
      /\ pc \in [Proc -> Label] /\ at \in [Proc -> Link] /\ nx \in [Proc -> Link]
  BY DEF IInv, ProcsRight
<1>1. TypeOK
  BY <1>0 DEF TypeOK, EndsRight, NextRight, PrevRight, RingsRight, ItemsRight, Label
<1>2. DroppedIsEmpty
  <2>1. ASSUME tail # None, NEW e \in 1 .. tail - 1 PROVE q[e] = <<>>
    <3>1. e \in Elt /\ e < tail
      BY <1>0, <2>1, ProcFacts DEF EndsRight, Link, Elt
    <3> QED
      BY <1>0, <2>1, <3>1 DEF RingsRight
  <2>2. ASSUME NEW c \in Consumer, pc[c] = "drop", NextSeen(c) # None
        PROVE  q[at[c]] = <<>> /\ at[c] # head
    <3>1. nx[c] = at[c] + 1 /\ nx[c] <= Newest /\ q[at[c]] = <<>> /\ at[c] \in Nat
      BY <1>0, <2>2, FreshIs DEF ConsumerRight, NextSeen, EndsRight, Link, Elt
    <3> QED
      BY <1>0, <3>1, ProcFacts DEF EndsRight, Link, Elt, Newest
  <2> QED
    BY <2>1, <2>2 DEF DroppedIsEmpty
<1>3. PopHeadMissesNothing
  <2> SUFFICES ASSUME pc[Producer] = "back", prev[at[Producer]] = None, NEW e \in Elt
               PROVE  q[e] = <<>>
    BY DEF PopHeadMissesNothing
  <2>1. PICK a \in Elt : a = at[Producer]
    <3>1. at[Producer] \in 1 .. Newest /\ Newest \in 0 .. MaxElts
      BY <1>0, FreshIs DEF ProducerRight
    <3> QED
      BY <3>1, ProcFacts DEF Elt
  <2>2. a <= Newest /\ q[a] = <<>> /\ \A k \in Elt : k > a => q[k] = <<>>
    BY <1>0, <2>1, FreshIs DEF ProducerRight
  <2>3. a <= tail /\ tail \in Elt
    BY <1>0, <2>1, <2>2, FreshIs, ProcFacts DEF PrevRight, EndsRight, Link, Elt, Newest
  <2>4. e < a => q[e] = <<>>
    BY <1>0, <2>3, ProcFacts DEF RingsRight, Elt
  <2> QED
    BY <2>2, <2>4 DEF Elt
<1> QED
  BY <1>1, <1>2, <1>3 DEF ChainInv

\* Links lead to elements and rings stay within their sizes (pool_chain.go:14-43).
THEOREM TypeCorrect == Spec => []TypeOK
BY Invariance, IInvChainInv, PTL DEF ChainInv

\* A dropped dequeue is empty for good, and a popHead that gives up has seen an
\* empty chain (pool_chain.go:83-96 and 98-134).
THEOREM ChainRight == Spec => []ChainInv
BY Invariance, IInvChainInv, PTL

\* What a step does to the links.
LEMMA LinksStep ==
  ASSUME IInv, [Next]_vars
  PROVE  /\ \A e \in Elt : next[e] # None => next'[e] = next[e]
         /\ \A e \in Elt : size[e] > 0 /\ prev'[e] # prev[e] => prev'[e] = None
         /\ tail # None => tail' >= tail
<1>0. /\ EndsRight /\ NextRight /\ PrevRight /\ RingsRight
      /\ ProducerRight /\ (\A k \in Consumer : ConsumerRight(k))
  BY DEF IInv, ProcsRight
<1>1. tail # None => tail >= tail
  BY <1>0 DEF EndsRight, Link, Elt
<1>2. CASE UNCHANGED <<next, prev, tail>>
  BY <1>1, <1>2
<1>3. CASE StoreNext
  <2>1. next[at[Producer]] = None
    <3>1. pc[Producer] = "link" /\ at[Producer] \in 1 .. Newest /\ Newest \in 0 .. MaxElts
      BY <1>0, <1>3, FreshIs DEF StoreNext, ProducerRight
    <3> QED
      BY <1>0, <3>1, ProcFacts DEF NextRight, Elt
  <2> QED
    BY <1>0, <1>1, <1>3, <2>1 DEF StoreNext, NextRight
<1>4. CASE PushFull
  <2>1. Fresh \in Elt /\ ~ (size[Fresh] > 0)
    BY <1>0, <1>4, FreshIs DEF PushFull, EndsRight
  <2> QED
    BY <1>0, <1>1, <1>4, <2>1 DEF PushFull, PrevRight
<1>5. ASSUME NEW x \in Item, PushHead(x)
      PROVE  tail # None => tail' = tail /\ UNCHANGED <<next, prev>>
  BY <1>0, <1>5 DEF PushHead, EndsRight
<1>6. ASSUME NEW c \in Consumer, Drop(c) PROVE UNCHANGED <<next, prev>> /\ tail' >= tail
  <2>1. pc[c] = "drop" /\ nx[c] # None
    BY <1>6 DEF Drop, NextSeen
  <2>2. nx[c] = at[c] + 1 /\ at[c] \in Nat
    BY <1>0, <2>1, FreshIs DEF ConsumerRight, EndsRight, Link, Elt
  <2>3. tail \in Nat /\ UNCHANGED <<next, prev>> /\ (tail' = tail \/ (tail = at[c] /\ tail' = nx[c]))
    BY <1>0, <1>6, <2>1 DEF Drop, StillTail, NextSeen, EndsRight, Link, Elt, ConsumerRight
  <2> QED
    BY <2>2, <2>3
<1>7. ASSUME NEW c \in Consumer, ClearPrev(c)
      PROVE  UNCHANGED <<next, tail>> /\ prev' = [prev EXCEPT ![nx[c]] = None]
  BY <1>7 DEF ClearPrev
<1> QED
  <2>1. CASE UNCHANGED vars
    BY <1>2, <2>1 DEF vars, links
  <2>2. CASE \E x \in Item : PushHead(x)
    BY <1>0, <1>1, <1>5, <2>2 DEF PushHead
  <2>3. CASE ProducerStep \/ PopHead
    BY <1>2, <1>3, <1>4, <2>3 DEF ProducerStep, PopHead, Push, PushNew, HeadPop, HeadBack, links
  <2>4. ASSUME NEW c \in Consumer, PopTail(c) \/ ConsumerStep(c)
        PROVE  UNCHANGED <<next, prev, tail>> \/ Drop(c) \/ ClearPrev(c)
    BY <2>4 DEF PopTail, ConsumerStep, LoadNext, TailPop, LastDequeue, links
  <2>5. ASSUME NEW p \in Proc, ReturnItem(p) PROVE UNCHANGED <<next, prev, tail>>
    BY <2>5 DEF ReturnItem, links
  <2>6. CASE \E c \in Consumer : Drop(c)
    BY <1>6, <2>6
  <2>7. CASE \E c \in Consumer : ClearPrev(c)
    BY <1>0, <1>1, <1>7, <2>7 DEF PrevRight
  <2> QED
    BY <1>2, <2>1, <2>2, <2>3, <2>4, <2>5, <2>6, <2>7 DEF Next

\* next only goes from nil to non-nil and prev from non-nil to nil, once an element
\* is linked, and the tail never goes back (the comments at pool_chain.go:29-38).
THEOREM LinksOneWay == Spec => LinksMoveOneWay
<1>1. IInv /\ [Next]_vars =>
        [/\ \A e \in Elt : next[e] # None => next'[e] = next[e]
         /\ \A e \in Elt : size[e] > 0 /\ prev'[e] # prev[e] => prev'[e] = None
         /\ tail # None => tail' >= tail]_vars
  BY LinksStep
<1> QED
  BY <1>1, Invariance, PTL DEF Spec, LinksMoveOneWay

-----------------------------------------------------------------------------
(***************************************************************************)
(* The chain is one double-ended queue.                                    *)
(***************************************************************************)
Queue == FlattenSeq(q)
Popped(p) == IF pc[p] = "have" THEN item[p] ELSE None
Got == [p \in Proc |-> Popped(p)]

\* What a step may do to it.
Nothing == q' = q /\ \A p \in Proc : Popped(p)' = Popped(p)

Appends(x) ==
  /\ \E k \in Elt : /\ Empty(q, k + 1, MaxElts) /\ SameBut(q, q', k, MaxElts)
                    /\ q'[k] = Append(q[k], x)
  /\ \A p \in Proc : Popped(p)' = Popped(p)

Takes(p, x) ==
  /\ Popped(p) = None /\ Popped(p)' = x
  /\ \A r \in Proc \ {p} : Popped(r)' = Popped(r)

TakesNewest ==
  \E k \in Elt : /\ Empty(q, k + 1, MaxElts) /\ SameBut(q, q', k, MaxElts)
                 /\ q[k] # <<>> /\ q'[k] = SubSeq(q[k], 1, Len(q[k]) - 1)
                 /\ Takes(Producer, q[k][Len(q[k])])

TakesOldest(c) ==
  \E k \in Elt : /\ Empty(q, 1, k - 1) /\ SameBut(q, q', k, MaxElts)
                 /\ q[k] # <<>> /\ q'[k] = Tail(q[k])
                 /\ Takes(c, Head(q[k]))

EndsWith(p) == q' = q /\ Popped(p) # None /\ Popped(p)' = None
              /\ \A r \in Proc \ {p} : Popped(r)' = Popped(r)

\* A push takes effect when the item is put into the newest dequeue: those after
\* it are not in use.
LEMMA PushAppends ==
  ASSUME IInv, Push \/ PushNew
  PROVE  \E x \in Item : Appends(x)
<1>0. /\ EndsRight /\ RingsRight /\ ItemsRight /\ ProducerRight /\ pc \in [Proc -> Label]
      /\ item \in [Proc -> Item \cup {None}]
  BY DEF IInv, ProcsRight, ItemsRight
<1>1. /\ pc[Producer] \in {"push", "pushNew"} /\ item[Producer] \in Item /\ head \in Elt /\ head = Newest
      /\ pc' = [pc EXCEPT ![Producer] = "idle"] /\ item' = [item EXCEPT ![Producer] = None]
      /\ q' = [q EXCEPT ![head] = Append(q[head], item[Producer])]
  BY <1>0, ProcFacts DEF Push, PushNew, Return, Goto, ItemsRight, ProducerRight, EndsRight, Newest, Link, Elt
<1>2. PICK x \in Item : x = item[Producer]
  BY <1>1
<1>3. Empty(q, head + 1, MaxElts)
  <2>1. ASSUME NEW m \in head + 1 .. MaxElts PROVE q[m] = <<>>
    <3>1. m \in Elt /\ m > Newest
      BY <1>1, <2>1 DEF Elt
    <3>2. Len(q[m]) <= 0 /\ q[m] \in Seq(Item)
      BY <1>0, <1>1, <3>1 DEF EndsRight, RingsRight, Elt
    <3> QED
      BY <3>2
  <2> QED
    BY <2>1 DEF Empty
<1>4. SameBut(q, q', head, MaxElts) /\ q'[head] = Append(q[head], x)
  BY <1>0, <1>1, <1>2 DEF SameBut, RingsRight, Elt
<1>5. \A p \in Proc : Popped(p)' = Popped(p)
  BY <1>0, <1>1, ProcFacts DEF Popped
<1> QED
  BY <1>1, <1>3, <1>4, <1>5 DEF Appends

\* A popHead takes from the dequeue it is at: those after it are empty.
LEMMA HeadPopTakes ==
  ASSUME IInv, HeadPop
  PROVE  Nothing \/ TakesNewest
<1>0. /\ EndsRight /\ RingsRight /\ ItemsRight /\ ProducerRight /\ pc \in [Proc -> Label]
      /\ item \in [Proc -> Item \cup {None}]
  BY DEF IInv, ProcsRight, ItemsRight
<1>1. PICK k \in Elt : k = at[Producer]
  <2>1. at[Producer] \in 1 .. Newest /\ Newest \in 0 .. MaxElts
    BY <1>0, FreshIs DEF ProducerRight, HeadPop
  <2> QED
    BY <2>1, ProcFacts DEF Elt
<1>2. pc[Producer] = "pop" /\ q[k] \in Seq(Item)
  BY <1>0, <1>1 DEF HeadPop, RingsRight
<1>3. CASE q[k] = <<>>
  <2>1. q' = q /\ item' = item /\ pc' = [pc EXCEPT ![Producer] = "back"]
    BY <1>1, <1>3 DEF HeadPop, Goto
  <2> QED
    BY <1>0, <1>2, <2>1, ProcFacts DEF Nothing, Popped
<1>4. CASE q[k] # <<>>
  <2>1. PICK v, x : v = Front(q[k]) /\ x = Last(q[k])
    OBVIOUS
  <2>2. v = SubSeq(q[k], 1, Len(q[k]) - 1) /\ x = q[k][Len(q[k])]
    BY <1>2, <1>4, <2>1, FrontLast
  <2>3. /\ q' = [q EXCEPT ![k] = v] /\ item' = [item EXCEPT ![Producer] = x]
        /\ pc' = [pc EXCEPT ![Producer] = "have"]
    BY <1>1, <1>4, <2>1 DEF HeadPop, Goto
  <2>4. Empty(q, k + 1, MaxElts)
    BY <1>0, <1>1, <1>2 DEF ProducerRight, Empty, Elt
  <2>5. SameBut(q, q', k, MaxElts) /\ q'[k] = SubSeq(q[k], 1, Len(q[k]) - 1)
    BY <1>0, <2>2, <2>3 DEF SameBut, RingsRight, Elt
  <2>6. Takes(Producer, x)
    BY <1>0, <1>2, <2>3, ProcFacts DEF Takes, Popped
  <2> QED
    BY <1>4, <2>2, <2>4, <2>5, <2>6 DEF TakesNewest
<1> QED
  BY <1>3, <1>4

\* A popTail takes from the dequeue it is at: those before it have been drained.
LEMMA TailPopTakes ==
  ASSUME IInv, NEW c \in Consumer, TailPop(c)
  PROVE  Nothing \/ TakesOldest(c)
<1>0. /\ EndsRight /\ RingsRight /\ ItemsRight /\ ConsumerRight(c) /\ pc \in [Proc -> Label]
      /\ item \in [Proc -> Item \cup {None}]
  BY DEF IInv, ProcsRight, ItemsRight
<1>1. PICK k \in Elt : k = at[c] /\ tail \in Elt /\ k <= tail /\ tail # None
  BY <1>0, ProcFacts DEF TailPop, ConsumerRight, EndsRight, Link, Elt
<1>2. pc[c] = "pop" /\ q[k] \in Seq(Item)
  BY <1>0, <1>1 DEF TailPop, RingsRight
<1>3. CASE q[k] = <<>>
  <2>1. q' = q /\ item' = item /\ pc' = [pc EXCEPT ![c] = "drop"]
    BY <1>1, <1>3 DEF TailPop, Goto
  <2> QED
    BY <1>0, <1>2, <2>1, ProcFacts DEF Nothing, Popped
<1>4. CASE q[k] # <<>>
  <2>1. PICK v, x : v = Tail(q[k]) /\ x = Head(q[k])
    OBVIOUS
  <2>2. /\ q' = [q EXCEPT ![k] = v] /\ item' = [item EXCEPT ![c] = x]
        /\ pc' = [pc EXCEPT ![c] = "have"]
    BY <1>1, <1>4, <2>1 DEF TailPop, Goto
  <2>3. Empty(q, 1, k - 1)
    <3>1. \A m \in 1 .. k - 1 : m \in Elt /\ m < tail
      BY <1>1, ProcFacts DEF Elt
    <3> QED
      BY <1>0, <1>1, <3>1 DEF RingsRight, Empty
  <2>4. SameBut(q, q', k, MaxElts) /\ q'[k] = v
    BY <1>0, <2>2 DEF SameBut, RingsRight, Elt
  <2>5. Takes(c, x)
    BY <1>0, <1>2, <2>2, ProcFacts DEF Takes, Popped
  <2> QED
    BY <1>4, <2>1, <2>3, <2>4, <2>5 DEF TakesOldest
<1> QED
  BY <1>3, <1>4

\* An operation that returns its item leaves the queue alone.
LEMMA ReturnItemReturns ==
  ASSUME IInv, NEW p \in Proc, ReturnItem(p)
  PROVE  EndsWith(p)
<1>1. /\ item \in [Proc -> Item \cup {None}] /\ pc \in [Proc -> Label]
      /\ pc[p] = "have" /\ item[p] \in Item
  BY DEF IInv, ItemsRight, ProcsRight, ReturnItem
<1>2. /\ q' = q /\ pc' = [pc EXCEPT ![p] = "idle"] /\ item' = [item EXCEPT ![p] = None]
  BY DEF ReturnItem, Return, Goto, rings
<1> QED
  BY <1>1, <1>2, ProcFacts DEF EndsWith, Popped

\* Every other step, of pointers only, leaves the queue alone.
LEMMA OthersDoNothing ==
  ASSUME IInv,
         \/ UNCHANGED vars \/ (\E x \in Item : PushHead(x)) \/ PopHead
         \/ PushFull \/ StoreNext \/ HeadBack
         \/ \E c \in Consumer : \/ PopTail(c) \/ LoadNext(c) \/ LastDequeue(c) \/ Drop(c) \/ ClearPrev(c)
  PROVE  Nothing
<1>0. /\ item \in [Proc -> Item \cup {None}] /\ pc \in [Proc -> Label]
  BY DEF IInv, ItemsRight, ProcsRight
<1>1. CASE UNCHANGED vars
  BY <1>1 DEF vars, rings, Nothing, Popped
<1>2. ASSUME NEW p \in Proc, pc[p] # "have", q' = q,
             NEW l \in Label \ {"have"}, pc' = pc \/ pc' = [pc EXCEPT ![p] = l],
             item' = item \/ \E x : item' = [item EXCEPT ![p] = x]
      PROVE  Nothing
  BY <1>0, <1>2 DEF Nothing, Popped
<1>3. ASSUME NEW x \in Item, PushHead(x) PROVE Nothing
  BY <1>2, <1>3, ProcFacts DEF PushHead, Goto, Label
<1>4. CASE PopHead \/ PushFull \/ StoreNext \/ HeadBack
  BY <1>2, <1>4, ProcFacts DEF PopHead, PushFull, StoreNext, HeadBack, Return, Goto, rings, Label
<1>5. ASSUME NEW c \in Consumer, PopTail(c) \/ LoadNext(c) \/ LastDequeue(c) \/ Drop(c) \/ ClearPrev(c)
      PROVE  Nothing
  BY <1>2, <1>5, ProcFacts DEF PopTail, LoadNext, LastDequeue, Drop, ClearPrev, Return, Goto, rings, Label
<1> QED
  BY <1>1, <1>3, <1>4, <1>5

\* So a step is one of these four.
LEMMA StepDoes ==
  ASSUME IInv, [Next]_vars
  PROVE  \/ Nothing \/ (\E x \in Item : Appends(x)) \/ TakesNewest
         \/ (\E c \in Consumer : TakesOldest(c)) \/ (\E p \in Proc : EndsWith(p))
BY PushAppends, HeadPopTakes, TailPopTakes, ReturnItemReturns, OthersDoNothing
   DEF Next, ProducerStep, ConsumerStep

\* The chain that has no dequeue yet is the empty Deque.
LEMMA DequeInit == Init => D!Init
<1> SUFFICES ASSUME Init PROVE D!Init
  OBVIOUS
<1>1. q \in Parts(Item, MaxElts) /\ MaxElts \in Nat /\ MaxElts \in 0 .. MaxElts
  BY ProcFacts DEF Init, Parts, Elt
<1>2. \A i \in 1 .. MaxElts : q[i] = <<>>
  BY DEF Init, Elt
<1>3. Upto(q, MaxElts) = <<>>
  BY <1>1, <1>2, UptoNothing
<1>4. Queue = <<>>
  BY <1>1, <1>3, UptoIs DEF Queue
<1>5. \A p \in Proc : Popped(p) = None
  BY DEF Init, Popped
<1> QED
  BY <1>4, <1>5 DEF D!Init, Queue, Popped

\* A step of the chain is a step of the Deque, or none.
LEMMA DequeStep ==
  ASSUME IInv, IInv', [Next]_vars
  PROVE  [D!Next]_<<Queue, Got>>
<1>1. MaxElts \in Nat /\ q \in Parts(Item, MaxElts) /\ q' \in Parts(Item, MaxElts)
  BY ProcFacts DEF IInv, RingsRight, Parts, Elt
<1>2. \A k \in Elt : k \in 1 .. MaxElts /\ q[k] \in Seq(Item)
  BY <1>1 DEF Elt, Parts
<1>3. ASSUME NEW p \in Proc, NEW x, Popped(p)' = x,
             \A r \in Proc \ {p} : Popped(r)' = Popped(r)
      PROVE  Got' = [Got EXCEPT ![p] = x]
  BY <1>3 DEF Got
<1>4. CASE Nothing
  BY <1>4 DEF Nothing, Queue, Got
<1>5. ASSUME NEW x \in Item, Appends(x) PROVE D!Next
  <2>1. Queue' = Append(Queue, x)
    BY <1>1, <1>2, <1>5, FlattenAppend DEF Appends, Queue
  <2>2. Got' = Got
    BY <1>5 DEF Appends, Got
  <2>3. D!PushHead(x)
    BY <2>1, <2>2 DEF D!PushHead, Queue, Got, Popped
  <2> QED
    BY <2>3 DEF D!Next
<1>6. CASE TakesNewest
  <2>1. PICK k \in Elt :
          /\ Empty(q, k + 1, MaxElts) /\ SameBut(q, q', k, MaxElts)
          /\ q[k] # <<>> /\ q'[k] = SubSeq(q[k], 1, Len(q[k]) - 1)
          /\ Takes(Producer, q[k][Len(q[k])])
    BY <1>6 DEF TakesNewest
  <2>2. PICK x : x = q[k][Len(q[k])]
    OBVIOUS
  <2>3. Queue # <<>> /\ Queue[Len(Queue)] = x /\ Queue' = SubSeq(Queue, 1, Len(Queue) - 1)
    BY <1>1, <1>2, <2>1, <2>2, FlattenShorter DEF Queue
  <2>4. Got' = [Got EXCEPT ![Producer] = x] /\ Got[Producer] = None
    BY <1>3, <2>1, <2>2, ProcFacts DEF Takes, Got
  <2>5. D!PopHead(Producer)
    BY <2>3, <2>4 DEF D!PopHead, Queue, Got, Popped
  <2> QED
    BY <2>5, ProcFacts DEF D!Next
<1>7. ASSUME NEW c \in Consumer, TakesOldest(c) PROVE D!Next
  <2>1. PICK k \in Elt :
          /\ Empty(q, 1, k - 1) /\ SameBut(q, q', k, MaxElts)
          /\ q[k] # <<>> /\ q'[k] = Tail(q[k])
          /\ Takes(c, Head(q[k]))
    BY <1>7 DEF TakesOldest
  <2>2. PICK x : x = Head(q[k])
    OBVIOUS
  <2>3. Queue # <<>> /\ Head(Queue) = x /\ Queue' = Tail(Queue)
    BY <1>1, <1>2, <2>1, <2>2, FlattenTail DEF Queue
  <2>4. Got' = [Got EXCEPT ![c] = x] /\ Got[c] = None
    BY <1>3, <2>1, <2>2, ProcFacts DEF Takes, Got
  <2>5. D!PopTail(c)
    BY <2>3, <2>4 DEF D!PopTail, Queue, Got, Popped
  <2> QED
    BY <2>5, ProcFacts DEF D!Next
<1>8. ASSUME NEW p \in Proc, EndsWith(p) PROVE D!Next
  <2>1. Queue' = Queue /\ Got' = [Got EXCEPT ![p] = None] /\ Got[p] # None
    BY <1>3, <1>8 DEF EndsWith, Queue, Got
  <2>2. D!Return(p)
    BY <2>1 DEF D!Return, Queue, Got, Popped
  <2> QED
    BY <2>2 DEF D!Next
<1> QED
  BY <1>4, <1>5, <1>6, <1>7, <1>8, StepDoes

\* The chain is one double-ended queue: its steps are those of the Deque or
\* stutters (poolChain in the list of pool_chain.go:14-20 and its operations).
THEOREM ChainImplementsDeque == Spec => ImplementsDeque
<1>1. IInv /\ IInv' /\ [Next]_vars => [D!Next]_<<Queue, Got>>
  BY DequeStep
<1>2. IInv /\ IInv' /\ [Next]_vars =>
        [D!Next]_<<FlattenSeq(q), [p \in Proc |-> IF pc[p] = "have" THEN item[p] ELSE None]>>
  BY <1>1 DEF Queue, Got, Popped
<1> QED
  BY <1>2, DequeInit, Invariance, PTL DEF Spec, ImplementsDeque, D!Spec

-----------------------------------------------------------------------------
(***************************************************************************)
(* What is written to a Stream arrives in order and in whole lines,        *)
(* whatever the pipe takes, gives or fails to take, for any tasks,         *)
(* numbers, printers, buffer sizes and sizes of Read; and a Writer that    *)
(* has failed stays as it is.                                              *)
(***************************************************************************)
-----------------------------------------------------------------------------
(***************************************************************************)
(* Bytes that are joined and cut.                                          *)
(***************************************************************************)
Bytes == Seq(Int)

\* Nothing before or after a sequence.
LEMMA NoBytes ==
  /\ <<>> \in Bytes /\ Len(<<>>) = 0
  /\ \A a \in Bytes : /\ a \o <<>> = a /\ <<>> \o a = a /\ Len(a) \in Nat
                      /\ a # <<>> <=> Len(a) > 0
  BY EmptySeq, ConcatEmptySeq, LenProperties DEF Bytes

\* One byte, and two.
LEMMA SomeBytes ==
  /\ \A x \in Int : <<x>> \in Bytes
  /\ \A x, y \in Int : <<x, y>> \in Bytes
  BY DEF Bytes

\* What is joined is all there.
LEMMA JoinBytes == \A a, b \in Bytes : a \o b \in Bytes /\ Len(a \o b) = Len(a) + Len(b)
  BY ConcatProperties DEF Bytes

\* It does not matter which are joined first.
LEMMA JoinThree == \A a, b, c \in Bytes : (a \o b) \o c = a \o (b \o c)
<1> SUFFICES ASSUME NEW a \in Bytes, NEW b \in Bytes, NEW c \in Bytes PROVE (a \o b) \o c = a \o (b \o c)
  OBVIOUS
<1> QED
  BY ConcatAssociative DEF Bytes

\* A part of a sequence of bytes.
LEMMA PartBytes ==
  ASSUME NEW a \in Bytes, NEW m \in 0 .. Len(a), NEW n \in m .. Len(a)
  PROVE  SubSeq(a, m + 1, n) \in Bytes /\ Len(SubSeq(a, m + 1, n)) = n - m
<1>1. m + 1 \in Int /\ n \in Int /\ \A i \in m + 1 .. n : a[i] \in Int
  BY LenProperties, ElementOfSeq DEF Bytes
<1> HIDE DEF Bytes
<1>2. /\ SubSeq(a, m + 1, n) \in Seq(Int)
      /\ Len(SubSeq(a, m + 1, n)) = IF m + 1 <= n THEN n - (m + 1) + 1 ELSE 0
  BY <1>1, SubSeqProperties, Zenon
<1>3. m \in Int /\ n \in Int /\ m <= n
  BY LenProperties DEF Bytes
<1> QED
  BY <1>2, <1>3 DEF Bytes

\* Cutting in two.
LEMMA CutBytes ==
  ASSUME NEW a \in Bytes, NEW n \in 0 .. Len(a)
  PROVE  /\ First(a, n) \in Bytes /\ Len(First(a, n)) = n
         /\ Skip(a, n) \in Bytes /\ Len(Skip(a, n)) = Len(a) - n
         /\ First(a, n) \o Skip(a, n) = a
<1>1. Len(a) \in Nat
  BY NoBytes
<1>2. SubSeq(a, 1, n) \in Bytes /\ Len(SubSeq(a, 1, n)) = n
  <2>1. 0 \in 0 .. Len(a) /\ 0 + 1 = 1 /\ n - 0 = n
    BY <1>1
  <2>2. SubSeq(a, 0 + 1, n) \in Bytes /\ Len(SubSeq(a, 0 + 1, n)) = n - 0
    BY <2>1, PartBytes
  <2> QED
    BY <2>1, <2>2
<1>3. SubSeq(a, n + 1, Len(a)) \in Bytes /\ Len(SubSeq(a, n + 1, Len(a))) = Len(a) - n
  BY <1>1, PartBytes
<1>4. SubSeq(a, 1, n) \o SubSeq(a, n + 1, Len(a)) = SubSeq(a, 1, Len(a))
  <2>1. 1 \in 1 .. Len(a) + 1 /\ n \in 1 - 1 .. Len(a) /\ Len(a) \in n .. Len(a)
    BY <1>1
  <2> QED
    BY <2>1, ConcatAdjacentSubSeq, Zenon DEF Bytes
<1>5. SubSeq(a, 1, Len(a)) = a
  BY SubSeqFull DEF Bytes
<1> QED
  BY <1>1, <1>2, <1>3, <1>4, <1>5 DEF First, Skip

\* Cutting at one of the ends.
LEMMA CutAtEnds ==
  ASSUME NEW a \in Bytes
  PROVE  First(a, 0) = <<>> /\ First(a, Len(a)) = a /\ Skip(a, 0) = a /\ Skip(a, Len(a)) = <<>>
<1>1. Len(a) \in Nat
  BY NoBytes
<1>2. SubSeq(a, 1, 0) = <<>> /\ SubSeq(a, Len(a) + 1, Len(a)) = <<>>
  BY <1>1, SubSeqEmpty
<1>3. SubSeq(a, 1, Len(a)) = a
  BY SubSeqFull DEF Bytes
<1> QED
  BY <1>2, <1>3 DEF First, Skip

\* Cutting off a part of the first of two.
LEMMA CutFirst ==
  ASSUME NEW a \in Bytes, NEW b \in Bytes, NEW n \in 0 .. Len(a)
  PROVE  First(a \o b, n) = First(a, n) /\ Skip(a \o b, n) = Skip(a, n) \o b
<1>1. /\ Len(a) \in Nat /\ Len(b) \in Nat /\ a \o b \in Bytes /\ Len(a \o b) = Len(a) + Len(b)
      /\ n \in 0 .. Len(a \o b)
  BY NoBytes, JoinBytes
<1>2. First(a \o b, n) = First(a, n)
  <2>1. CASE n = 0
    BY <1>1, <2>1, CutAtEnds
  <2>2. CASE n # 0
    <3>1. 1 \in 1 .. Len(a) /\ n \in 1 .. Len(a)
      BY <1>1, <2>2
    <3> QED
      BY <3>1, SubSeqOfConcat1 DEF Bytes, First
  <2> QED
    BY <2>1, <2>2
<1>3. First(a, n) \o Skip(a, n) = a /\ First(a, n) \in Bytes /\ Skip(a, n) \in Bytes
  BY CutBytes
<1>4. First(a \o b, n) \o Skip(a \o b, n) = a \o b /\ Skip(a \o b, n) \in Bytes
  BY <1>1, CutBytes
<1>5. First(a, n) \o Skip(a \o b, n) = First(a, n) \o (Skip(a, n) \o b)
  <2>1. (First(a, n) \o Skip(a, n)) \o b = First(a, n) \o (Skip(a, n) \o b)
    BY <1>3, JoinThree
  <2> QED
    BY <1>2, <1>3, <1>4, <2>1
<1>6. Skip(a, n) \o b \in Bytes
  BY <1>3, JoinBytes
<1>7. Skip(a \o b, n) = Skip(a, n) \o b
  <2>1. \A s, t, v \in Seq(Int) : s \o t = s \o v => t = v
    BY ConcatSimplifications
  <2> QED
    BY <1>2, <1>3, <1>4, <1>5, <1>6, <2>1, Zenon DEF Bytes
<1> QED
  BY <1>2, <1>7

\* Reading on from where one was.
LEMMA ReadOn ==
  ASSUME NEW a \in Bytes, NEW m \in 0 .. Len(a), NEW n \in 0 .. Len(a) - m
  PROVE  /\ SubSeq(a, m + 1, m + n) \in Bytes /\ Len(SubSeq(a, m + 1, m + n)) = n
         /\ First(a, m) \o SubSeq(a, m + 1, m + n) = First(a, m + n)
<1>1. /\ Len(a) \in Nat /\ m \in Nat /\ n \in Nat /\ m + n \in m .. Len(a) /\ m + n - m = n
      /\ 1 \in 1 .. Len(a) + 1 /\ m \in 1 - 1 .. Len(a)
  BY NoBytes
<1>2. SubSeq(a, m + 1, m + n) \in Bytes /\ Len(SubSeq(a, m + 1, m + n)) = n
  BY <1>1, PartBytes
<1>3. SubSeq(a, 1, m) \o SubSeq(a, m + 1, m + n) = SubSeq(a, 1, m + n)
  BY <1>1, ConcatAdjacentSubSeq, Zenon DEF Bytes
<1> QED
  BY <1>2, <1>3 DEF First

\* A beginning is what something can be added to.
LEMMA Beginning ==
  ASSUME NEW a \in Bytes, NEW b \in Bytes
  PROVE  IsPrefix(a, b) <=> \E c \in Bytes : b = a \o c
<1>1. Len(a) \in Nat /\ Len(b) \in Nat /\ SubSeq(a, 1, Len(a)) = a
  BY NoBytes, SubSeqFull DEF Bytes
<1>2. ASSUME IsPrefix(a, b) PROVE \E c \in Bytes : b = a \o c
  <2>1. Len(a) \in 0 .. Len(b) /\ First(b, Len(a)) = a
    BY <1>1, <1>2 DEF IsPrefix, First
  <2>2. Skip(b, Len(a)) \in Bytes /\ First(b, Len(a)) \o Skip(b, Len(a)) = b
    BY <2>1, CutBytes
  <2> QED
    BY <2>1, <2>2
<1>3. ASSUME NEW c \in Bytes, b = a \o c PROVE IsPrefix(a, b)
  <2>1. Len(b) = Len(a) + Len(c) /\ Len(c) \in Nat
    BY <1>3, NoBytes, JoinBytes
  <2>2. Len(a) \in 0 .. Len(a)
    BY <1>1
  <2>3. First(a \o c, Len(a)) = First(a, Len(a))
    BY <2>2, CutFirst
  <2> QED
    BY <1>1, <1>3, <2>1, <2>3 DEF IsPrefix, First
<1> QED
  BY <1>2, <1>3


-----------------------------------------------------------------------------
(***************************************************************************)
(* Functions defined by recursion.  The conversions of Text are of one     *)
(* form: on the set B the value is given by base, elsewhere it is that of  *)
(* a smaller argument with more bytes at its end.                          *)
(***************************************************************************)
\* What f says on the set S.
Follows(f, S, B, down, base, more) ==
  f = [x \in S |-> IF x \in B THEN base[x] ELSE f[down[x]] \o more[x]]

\* A set of numbers that is not empty has a least.
LEMMA LeastNumber ==
  ASSUME NEW T \in SUBSET Nat, T # {}
  PROVE  \E k \in T : \A j \in T : k <= j
<1> DEFINE R == OpToRel(<, Nat)
<1>1. IsWellFoundedOn(R, Nat)
  BY NatLessThanWellFounded
<1>2. \A x, y \in Nat : y < x => <<y, x>> \in R
  BY DEF OpToRel
<1> HIDE DEF R
<1>3. \E k \in T : \A j \in T : ~ (<<j, k>> \in R)
  BY <1>1, WFMin
<1>4. PICK k \in T : \A j \in T : ~ (<<j, k>> \in R)
  BY <1>3
<1>5. ASSUME NEW j \in T PROVE k <= j
  <2>1. j \in Nat /\ k \in Nat /\ ~ (j < k)
    BY <1>2, <1>4
  <2> QED
    BY <2>1
<1> QED
  BY <1>4, <1>5

\* Those of dom that measure at most n.
UpToMeasure(dom, measure, n) == {x \in dom : measure[x] <= n}

\* Recursion that goes down by some measure.
GoesDown(dom, B, measure, down) ==
  /\ measure \in [dom -> Nat] /\ down \in [dom -> dom]
  /\ \A x \in dom : x \notin B => measure[down[x]] < measure[x]

\* What follows one definition is the same wherever it is defined.
LEMMA FollowedOnce ==
  ASSUME NEW dom, NEW B, NEW measure, NEW down, NEW base, NEW more, GoesDown(dom, B, measure, down),
         NEW f, NEW g, NEW m \in Nat, NEW n \in Nat, m <= n,
         Follows(f, UpToMeasure(dom, measure, m), B, down, base, more),
         Follows(g, UpToMeasure(dom, measure, n), B, down, base, more)
  PROVE  \A x \in UpToMeasure(dom, measure, m) : f[x] = g[x]
<1> DEFINE S == UpToMeasure(dom, measure, m)
           differ == {x \in S : f[x] # g[x]}
           T == {measure[x] : x \in differ}
<1>1. \A x \in S : x \in dom /\ x \in UpToMeasure(dom, measure, n) /\ measure[x] \in Nat /\ measure[x] <= m
  BY DEF UpToMeasure, GoesDown
<1>2. \A x \in S : f[x] = IF x \in B THEN base[x] ELSE f[down[x]] \o more[x]
  BY Zenon DEF Follows
<1>3. \A x \in S : g[x] = IF x \in B THEN base[x] ELSE g[down[x]] \o more[x]
  BY <1>1, Zenon DEF Follows
<1>4. SUFFICES ASSUME differ # {} PROVE FALSE
  BY Zenon
<1>5. T \in SUBSET Nat /\ T # {}
  BY <1>1, <1>4
<1>6. PICK k \in T : \A j \in T : k <= j
  <2> HIDE DEF T
  <2> QED
    BY <1>5, LeastNumber
<1>7. PICK x \in differ : k = measure[x]
  BY <1>6
<1>8. x \in S /\ f[x] # g[x]
  BY <1>7
<1>9. x \notin B
  BY <1>2, <1>3, <1>8, Zenon
<1>10. down[x] \in S /\ measure[down[x]] < measure[x]
  BY <1>1, <1>8, <1>9 DEF UpToMeasure, GoesDown
<1>11. f[down[x]] # g[down[x]]
  BY <1>2, <1>3, <1>8, <1>9, Zenon
<1>12. measure[down[x]] \in T
  BY <1>10, <1>11
<1>13. measure[x] <= measure[down[x]]
  BY <1>6, <1>7, <1>12
<1> HIDE DEF S
<1> QED
  BY <1>1, <1>8, <1>10, <1>13

\* Up to every measure something follows the definition.
LEMMA FollowedUpTo ==
  ASSUME NEW dom, NEW B, NEW measure, NEW down, NEW base, NEW more, GoesDown(dom, B, measure, down),
         NEW n \in Nat
  PROVE  \E f : Follows(f, UpToMeasure(dom, measure, n), B, down, base, more)
<1> DEFINE U(k) == UpToMeasure(dom, measure, k)
           P == {k \in Nat : \E f : Follows(f, U(k), B, down, base, more)}
<1>1. ASSUME NEW k \in Nat, NEW f, k = 0 \/ Follows(f, U(k - 1), B, down, base, more) PROVE k \in P
  <2> DEFINE g == [x \in U(k) |-> IF x \in B THEN base[x] ELSE f[down[x]] \o more[x]]
  <2>1. ASSUME NEW x \in U(k), x \notin B PROVE f[down[x]] = g[down[x]]
    <3>1. x \in dom /\ down[x] \in dom /\ measure[x] \in Nat /\ measure[down[x]] \in Nat
          /\ measure[down[x]] < measure[x] /\ measure[x] <= k
      BY <2>1 DEF UpToMeasure, GoesDown
    <3>2. k # 0 /\ down[x] \in U(k) /\ down[x] \in U(k - 1)
      BY <3>1 DEF UpToMeasure
    <3>3. Follows(f, U(k - 1), B, down, base, more)
      BY <1>1, <3>2
    <3>4. f[down[x]] = IF down[x] \in B THEN base[down[x]] ELSE f[down[down[x]]] \o more[down[x]]
      BY <3>2, <3>3, Zenon DEF Follows
    <3>5. g[down[x]] = IF down[x] \in B THEN base[down[x]] ELSE f[down[down[x]]] \o more[down[x]]
      BY <3>2, Zenon
    <3> QED
      BY <3>4, <3>5, Zenon
  <2>2. g = [x \in U(k) |-> IF x \in B THEN base[x] ELSE g[down[x]] \o more[x]]
    BY <2>1, Zenon
  <2>3. Follows(g, U(k), B, down, base, more)
    BY <2>2, Zenon DEF Follows
  <2> HIDE DEF g, U
  <2> QED
    BY <2>3, Zenon
<1>2. 0 \in P
  <2> HIDE DEF P
  <2> QED
    BY <1>1
<1>3. ASSUME NEW k \in 0 .. n - 1, k \in P PROVE k + 1 \in P
  <2>1. PICK f : Follows(f, U(k), B, down, base, more)
    BY <1>3
  <2>2. k + 1 \in Nat /\ k + 1 - 1 = k
    OBVIOUS
  <2> HIDE DEF P, U
  <2> QED
    BY <1>1, <2>1, <2>2
<1>4. 0 .. n \subseteq P
  <2> HIDE DEF P
  <2> QED
    BY <1>2, <1>3, CountingUp
<1>5. n \in P
  <2> HIDE DEF P
  <2> QED
    BY <1>4
<1> QED
  BY <1>5, Zenon

\* The definition defines a function.
LEMMA Followed ==
  ASSUME NEW dom, NEW B, NEW measure, NEW down, NEW base, NEW more, GoesDown(dom, B, measure, down)
  PROVE  \E f : Follows(f, dom, B, down, base, more)
<1> DEFINE U(n) == UpToMeasure(dom, measure, n)
           Up(n) == CHOOSE f : Follows(f, U(n), B, down, base, more)
           f == [x \in dom |-> Up(measure[x])[x]]
<1>1. \A n \in Nat : Follows(Up(n), U(n), B, down, base, more)
  BY FollowedUpTo, Zenon
<1>2. ASSUME NEW x \in dom PROVE f[x] = IF x \in B THEN base[x] ELSE f[down[x]] \o more[x]
  <2>1. measure[x] \in Nat /\ x \in U(measure[x])
    BY <1>2 DEF UpToMeasure, GoesDown
  <2>2. Up(measure[x])[x] = IF x \in B THEN base[x] ELSE Up(measure[x])[down[x]] \o more[x]
    <3> HIDE DEF Up, U
    <3> QED
      BY <1>1, <2>1, Zenon DEF Follows
  <2>3. CASE x \in B
    BY <2>2, <2>3, Zenon
  <2>4. CASE x \notin B
    <3>1. /\ down[x] \in dom /\ measure[down[x]] \in Nat /\ measure[down[x]] <= measure[x]
          /\ down[x] \in U(measure[down[x]])
      BY <2>4 DEF UpToMeasure, GoesDown
    <3> DEFINE m == measure[down[x]]
               n == measure[x]
    <3>2. \A y \in U(m) : Up(m)[y] = Up(n)[y]
      <4>1. m \in Nat /\ n \in Nat /\ m <= n /\ Follows(Up(m), U(m), B, down, base, more)
            /\ Follows(Up(n), U(n), B, down, base, more)
        BY <1>1, <2>1, <3>1
      <4> HIDE DEF Up, m, n
      <4> QED
        BY <4>1, FollowedOnce
    <3>3. Up(m)[down[x]] = Up(n)[down[x]]
      BY <3>1, <3>2
    <3>4. f[down[x]] = Up(m)[down[x]]
      BY <3>1, Zenon
    <3>5. f[x] = Up(n)[x]
      BY Zenon
    <3> HIDE DEF f, Up
    <3> QED
      BY <2>2, <2>4, <3>3, <3>4, <3>5, Zenon
  <2> QED
    BY <2>3, <2>4, Zenon
<1>3. f = [x \in dom |-> IF x \in B THEN base[x] ELSE f[down[x]] \o more[x]]
  <2> DEFINE h == [x \in dom |-> IF x \in B THEN base[x] ELSE f[down[x]] \o more[x]]
  <2>1. \A x \in dom : f[x] = h[x]
    BY <1>2, Zenon
  <2> QED
    BY <2>1, Zenon
<1>4. Follows(f, dom, B, down, base, more)
  <2> HIDE DEF f
  <2> QED
    BY <1>3, Zenon DEF Follows
<1> QED
  BY <1>4, Zenon

\* What such a function returns is bytes, if it is so wherever it is so for the
\* smaller argument.
LEMMA BytesAllTheWay ==
  ASSUME NEW dom, NEW B, NEW measure, NEW down, GoesDown(dom, B, measure, down), NEW f,
         \A x \in dom : x \in B \/ f[down[x]] \in Bytes => f[x] \in Bytes
  PROVE  \A x \in dom : f[x] \in Bytes
<1> DEFINE bad == {x \in dom : f[x] \notin Bytes}
           T == {measure[x] : x \in bad}
<1>1. SUFFICES ASSUME bad # {} PROVE FALSE
  BY Zenon
<1>2. T \in SUBSET Nat /\ T # {}
  BY <1>1 DEF GoesDown
<1>3. PICK k \in T : \A j \in T : k <= j
  <2> HIDE DEF T
  <2> QED
    BY <1>2, LeastNumber
<1>4. PICK x \in bad : k = measure[x]
  BY <1>3
<1>5. x \in dom /\ x \notin B /\ f[down[x]] \notin Bytes
  BY <1>4
<1>6. down[x] \in dom /\ measure[down[x]] < measure[x] /\ measure[x] \in Nat /\ measure[down[x]] \in Nat
  BY <1>5 DEF GoesDown
<1>7. measure[x] <= measure[down[x]]
  BY <1>3, <1>4, <1>5, <1>6
<1> QED
  BY <1>6, <1>7

-----------------------------------------------------------------------------
(***************************************************************************)
(* The conversions of Text return bytes.                                   *)
(***************************************************************************)
\* The table of two digits (itoa.go:31-40).
LEMMA PairsAreBytes ==
  \A u \in Nat : small(u) \in Bytes /\ Pair(u % 100) \in Bytes /\ Pair(u) \in Bytes
<1> SUFFICES ASSUME NEW u \in Nat PROVE small(u) \in Bytes /\ Pair(u % 100) \in Bytes /\ Pair(u) \in Bytes
  OBVIOUS
<1>1. /\ Zero + u \in Int /\ Zero + (u \div 10) \in Int /\ Zero + (u % 10) \in Int
      /\ Zero + ((u % 100) \div 10) \in Int /\ Zero + ((u % 100) % 10) \in Int
  BY DEF Zero
<1> QED
  BY <1>1, SomeBytes, Zenon DEF small, Pair

\* The function Digits is defined by.
Two == CHOOSE f : f = [us \in Nat |-> IF us < nSmalls THEN small(us) ELSE f[us \div 100] \o Pair(us % 100)]

\* The digits of a number, two at a time.
LEMMA DigitsAreBytes == \A u \in Nat : Digits(u) \in Bytes
<1> DEFINE B == {us \in Nat : us < nSmalls}
           measure == [us \in Nat |-> us]
           down == [us \in Nat |-> us \div 100]
           base == [us \in Nat |-> small(us)]
           more == [us \in Nat |-> Pair(us % 100)]
           step(f) == [us \in Nat |-> IF us < nSmalls THEN small(us) ELSE f[us \div 100] \o Pair(us % 100)]
<1>1. GoesDown(Nat, B, measure, down)
  BY DEF GoesDown, nSmalls
<1>2. \A x \in Nat : IF x \in B THEN base[x] \in Bytes ELSE more[x] \in Bytes
  BY PairsAreBytes
<1>3. ASSUME NEW f PROVE Follows(f, Nat, B, down, base, more) <=> f = step(f)
  <2>1. \A x \in Nat : step(f)[x] = IF x \in B THEN base[x] ELSE f[down[x]] \o more[x]
    BY Zenon
  <2>2. step(f) = [x \in Nat |-> IF x \in B THEN base[x] ELSE f[down[x]] \o more[x]]
    BY <2>1, Zenon
  <2> HIDE DEF step
  <2> QED
    BY <2>2, Zenon DEF Follows
<1>4. Two = step(Two)
  <2>1. \E f : f = step(f)
    <3> HIDE DEF step, B, measure, down, base, more
    <3> QED
      BY <1>1, <1>3, Followed
  <2> QED
    BY <2>1, Zenon DEF Two
<1>5. \A x \in Nat : Two[x] \in Bytes
  <2>1. \A x \in Nat : Two[x] = IF x \in B THEN base[x] ELSE Two[down[x]] \o more[x]
    <3> HIDE DEF step, B, measure, down, base, more
    <3> QED
      BY <1>3, <1>4, Zenon DEF Follows
  <2>2. ASSUME NEW x \in Nat, x \in B \/ Two[down[x]] \in Bytes PROVE Two[x] \in Bytes
    <3> HIDE DEF B, measure, down, base, more
    <3> QED
      BY <1>2, <2>1, <2>2, JoinBytes
  <2> HIDE DEF step, B, measure, down, base, more
  <2> QED
    BY <1>1, <2>2, BytesAllTheWay
<1>6. \A u \in Nat : Digits(u) = Two[u]
  BY Zenon DEF Digits, Two
<1> QED
  BY <1>5, <1>6

\* The text of an int, the least one included.
LEMMA ItoaIsBytes == \A i \in Ints : Itoa(i) \in Bytes
<1> SUFFICES ASSUME NEW i \in Ints PROVE Itoa(i) \in Bytes
  OBVIOUS
<1>1. i \in Int
  BY DEF Ints
<1>2. PICK w \in Nat \ {0} : w = 2 ^ Width
  BY TextAssumption
<1>3. CASE i \in 0 .. nSmalls - 1
  <2>1. i \in Nat
    BY <1>1, <1>3
  <2> QED
    BY <1>3, <2>1, PairsAreBytes DEF Itoa, FormatInt
<1>4. CASE i \notin 0 .. nSmalls - 1
  <2>1. Itoa(i) = formatBits(i % w, i < 0)
    BY <1>2, <1>4 DEF Itoa, FormatInt
  <2>2. i % w \in Nat /\ (w - (i % w)) % w \in Nat
    BY <1>1
  <2>3. formatBits(i % w, i < 0) = IF i < 0 THEN <<Minus>> \o Digits((w - (i % w)) % w) ELSE Digits(i % w)
    BY <1>2 DEF formatBits
  <2>4. <<Minus>> \in Bytes
    BY SomeBytes DEF Minus
  <2> QED
    BY <2>1, <2>2, <2>3, <2>4, DigitsAreBytes, JoinBytes
<1> QED
  BY <1>3, <1>4

\* The function itoa is defined by.
ItoaDigits == CHOOSE f : f = [p \in Nat \X Int |->
  IF p[1] >= 10 \/ p[2] > 1 THEN Append(f[<<p[1] \div 10, p[2] - 1>>], Zero + (p[1] % 10))
  ELSE <<Zero + p[1]>>]

\* The text of a part of the time, of some width; Append to what is no sequence of
\* bytes might be anything, so that the function is first shown to exist.
LEMMA itoaIsBytes == \A i \in Nat, wid \in Int : itoa(i, wid) \in Bytes
<1> DEFINE dom == Nat \X Int
           B == {p \in dom : ~ (p[1] >= 10 \/ p[2] > 1)}
           measure == [p \in dom |-> p[1] + IF p[2] > 1 THEN p[2] ELSE 0]
           down == [p \in dom |-> <<p[1] \div 10, p[2] - 1>>]
           base == [p \in dom |-> <<Zero + p[1]>>]
           more == [p \in dom |-> <<Zero + (p[1] % 10)>>]
           longer(f) == [x \in dom |-> IF x \in B THEN base[x] ELSE f[down[x]] \o more[x]]
           step(f) == [p \in dom |-> IF p[1] >= 10 \/ p[2] > 1
                                   THEN Append(f[<<p[1] \div 10, p[2] - 1>>], Zero + (p[1] % 10))
                                   ELSE <<Zero + p[1]>>]
<1>1. GoesDown(dom, B, measure, down)
  BY DEF GoesDown
<1>2. \A x \in dom : base[x] \in Bytes /\ more[x] \in Bytes
  BY SomeBytes DEF Zero
<1>3. ASSUME NEW f, NEW x \in dom
      PROVE  step(f)[x] = IF x \in B THEN base[x] ELSE Append(f[down[x]], Zero + (x[1] % 10))
  BY <1>3, Zenon
<1>4. ASSUME NEW s \in Bytes, NEW x \in dom PROVE Append(s, Zero + (x[1] % 10)) = s \o more[x]
  <2>1. Zero + (x[1] % 10) \in Int
    BY DEF Zero
  <2>2. Append(s, Zero + (x[1] % 10)) = s \o <<Zero + (x[1] % 10)>>
    BY <2>1, AppendIsConcat DEF Bytes
  <2> QED
    BY <2>2, Zenon
<1>5. \E f : f = step(f)
  <2>1. PICK f : Follows(f, dom, B, down, base, more)
    <3> HIDE DEF dom, B, measure, down, base, more
    <3> QED
      BY <1>1, Followed
  <2>2. \A x \in dom : f[x] = IF x \in B THEN base[x] ELSE f[down[x]] \o more[x]
    <3> HIDE DEF dom, B, measure, down, base, more
    <3> QED
      BY <2>1, Zenon DEF Follows
  <2>3. \A x \in dom : f[x] \in Bytes
    <3>1. ASSUME NEW x \in dom, x \in B \/ f[down[x]] \in Bytes PROVE f[x] \in Bytes
      <4> HIDE DEF dom, B, measure, down, base, more
      <4> QED
        BY <1>2, <2>2, <3>1, JoinBytes
    <3> HIDE DEF dom, B, measure, down, base, more
    <3> QED
      BY <1>1, <3>1, BytesAllTheWay
  <2>4. \A x \in dom : x \notin B => down[x] \in dom
    <3> HIDE DEF dom, B, measure, down, base, more
    <3> QED
      BY <1>1 DEF GoesDown
  <2>5. ASSUME NEW x \in dom PROVE f[x] = step(f)[x]
    <3> HIDE DEF dom, B, measure, down, base, more, step
    <3> QED
      BY <1>3, <1>4, <2>2, <2>3, <2>4, Zenon
  <2>6. f = [x \in dom |-> IF x \in B THEN base[x] ELSE f[down[x]] \o more[x]]
    <3> HIDE DEF dom, B, measure, down, base, more
    <3> QED
      BY <2>1, Zenon DEF Follows
  <2>7. f = [x \in dom |-> step(f)[x]]
    <3> DEFINE g == [x \in dom |-> step(f)[x]]
    <3>1. \A x \in dom : g[x] = IF x \in B THEN base[x] ELSE f[down[x]] \o more[x]
      <4> HIDE DEF dom, B, measure, down, base, more, step
      <4> QED
        BY <2>2, <2>5, Zenon
    <3> HIDE DEF dom, B, measure, down, base, more, step
    <3> QED
      BY <2>6, <3>1, Zenon
  <2>8. step(f) = [x \in dom |-> step(f)[x]]
    BY Zenon
  <2> HIDE DEF step
  <2> QED
    BY <2>7, <2>8, Zenon
<1>6. ItoaDigits = step(ItoaDigits)
  BY <1>5, Zenon DEF ItoaDigits
<1>7. \A x \in dom : ItoaDigits[x] \in Bytes
  <2>1. \A x \in dom : ItoaDigits[x] = IF x \in B THEN base[x] ELSE Append(ItoaDigits[down[x]], Zero + (x[1] % 10))
    <3> HIDE DEF dom, B, measure, down, base, more, step
    <3> QED
      BY <1>3, <1>6, Zenon
  <2>2. ASSUME NEW x \in dom, x \in B \/ ItoaDigits[down[x]] \in Bytes PROVE ItoaDigits[x] \in Bytes
    <3> HIDE DEF dom, B, measure, down, base, more
    <3>1. CASE x \in B
      BY <1>2, <2>1, <3>1, Zenon
    <3>2. CASE x \notin B
      <4>1. ItoaDigits[x] = ItoaDigits[down[x]] \o more[x]
        BY <1>4, <2>1, <2>2, <3>2, Zenon
      <4> QED
        BY <1>2, <2>2, <3>2, <4>1, JoinBytes
    <3> QED
      BY <3>1, <3>2
  <2> HIDE DEF dom, B, measure, down, base, more
  <2> QED
    BY <1>1, <2>2, BytesAllTheWay
<1>8. \A i \in Nat, wid \in Int : <<i, wid>> \in dom /\ itoa(i, wid) = ItoaDigits[<<i, wid>>]
  BY Zenon DEF itoa, ItoaDigits
<1> QED
  BY <1>7, <1>8, Zenon

\* The function Join is defined by.
JoinedUpTo(elems, sep) == CHOOSE f : f = [k \in 0 .. Len(elems) |->
  IF k = 0 THEN <<>> ELSE IF k = 1 THEN elems[1] ELSE f[k - 1] \o sep \o elems[k]]

\* Texts joined are a text.
LEMMA JoinIsBytes ==
  ASSUME NEW elems \in Seq(Bytes), NEW sep \in Bytes
  PROVE  Join(elems, sep) \in Bytes
<1> DEFINE n == Len(elems)
           dom == 0 .. n
           B == {k \in dom : k \in {0, 1}}
           measure == [k \in dom |-> k]
           down == [k \in dom |-> IF k = 0 THEN 0 ELSE k - 1]
           base == [k \in dom |-> IF k = 0 THEN <<>> ELSE elems[1]]
           more == [k \in dom |-> sep \o elems[k]]
           step(f) == [k \in dom |-> IF k = 0 THEN <<>> ELSE IF k = 1 THEN elems[1]
                                   ELSE f[k - 1] \o sep \o elems[k]]
<1>1. n \in Nat /\ \A k \in 1 .. n : elems[k] \in Bytes
  BY DEF Bytes
<1>2. GoesDown(dom, B, measure, down)
  BY <1>1 DEF GoesDown
<1>3. \A x \in dom : base[x] \in Bytes \/ x \notin B
  BY <1>1, NoBytes
<1>4. \A x \in dom : x \notin B => sep \o elems[x] \in Bytes /\ elems[x] \in Bytes /\ more[x] \in Bytes
  BY <1>1, JoinBytes
<1>5. ASSUME NEW f, NEW x \in dom
      PROVE  step(f)[x] = IF x \in B THEN base[x] ELSE f[down[x]] \o sep \o elems[x]
  BY <1>5
<1>6. ASSUME NEW s \in Bytes, NEW x \in dom, x \notin B PROVE s \o sep \o elems[x] = s \o more[x]
  <2>1. (s \o sep) \o elems[x] = s \o (sep \o elems[x])
    <3>1. elems[x] \in Bytes
      BY <1>4, <1>6
    <3> HIDE DEF dom, B, more
    <3> QED
      BY <3>1, JoinThree
  <2> QED
    BY <2>1
<1>7. \E f : f = step(f)
  <2>1. PICK f : Follows(f, dom, B, down, base, more)
    <3> HIDE DEF dom, B, measure, down, base, more
    <3> QED
      BY <1>2, Followed
  <2>2. \A x \in dom : f[x] = IF x \in B THEN base[x] ELSE f[down[x]] \o more[x]
    <3> HIDE DEF dom, B, measure, down, base, more
    <3> QED
      BY <2>1, Zenon DEF Follows
  <2>3. \A x \in dom : f[x] \in Bytes
    <3>1. ASSUME NEW x \in dom, x \in B \/ f[down[x]] \in Bytes PROVE f[x] \in Bytes
      <4> HIDE DEF dom, B, measure, down, base, more
      <4> QED
        BY <1>3, <1>4, <2>2, <3>1, JoinBytes
    <3> HIDE DEF dom, B, measure, down, base, more
    <3> QED
      BY <1>2, <3>1, BytesAllTheWay
  <2>4. \A x \in dom : x \notin B => down[x] \in dom
    <3> HIDE DEF dom, B, measure, down, base, more
    <3> QED
      BY <1>2 DEF GoesDown
  <2>5. ASSUME NEW x \in dom PROVE f[x] = step(f)[x]
    <3> HIDE DEF dom, B, measure, down, base, more, step
    <3>1. step(f)[x] = IF x \in B THEN base[x] ELSE f[down[x]] \o sep \o elems[x]
      BY <1>5, Zenon
    <3>2. CASE x \in B
      BY <2>2, <3>1, <3>2, Zenon
    <3>3. CASE x \notin B
      <4>1. f[down[x]] \in Bytes
        BY <2>3, <2>4, <3>3, Zenon
      <4>2. f[down[x]] \o sep \o elems[x] = f[down[x]] \o more[x]
        BY <1>6, <3>3, <4>1, Zenon
      <4> QED
        BY <2>2, <3>1, <3>3, <4>2, Zenon
    <3> QED
      BY <3>2, <3>3, Zenon
  <2>6. f = [x \in dom |-> IF x \in B THEN base[x] ELSE f[down[x]] \o more[x]]
    <3> HIDE DEF dom, B, measure, down, base, more
    <3> QED
      BY <2>1, Zenon DEF Follows
  <2>7. f = [x \in dom |-> step(f)[x]]
    <3> DEFINE g == [x \in dom |-> step(f)[x]]
    <3>1. \A x \in dom : g[x] = IF x \in B THEN base[x] ELSE f[down[x]] \o more[x]
      <4> HIDE DEF dom, B, measure, down, base, more, step
      <4> QED
        BY <2>2, <2>5, Zenon
    <3> HIDE DEF dom, B, measure, down, base, more, step
    <3> QED
      BY <2>6, <3>1, Zenon
  <2>8. step(f) = [x \in dom |-> step(f)[x]]
    BY Zenon
  <2> HIDE DEF step
  <2> QED
    BY <2>7, <2>8, Zenon
<1>8. JoinedUpTo(elems, sep) = step(JoinedUpTo(elems, sep))
  BY <1>7, Zenon DEF JoinedUpTo
<1>9. \A x \in dom : JoinedUpTo(elems, sep)[x] \in Bytes
  <2> DEFINE g == JoinedUpTo(elems, sep)
  <2>1. \A x \in dom : g[x] = IF x \in B THEN base[x] ELSE g[down[x]] \o sep \o elems[x]
    <3> HIDE DEF dom, B, measure, down, base, more, step, g
    <3> QED
      BY <1>5, <1>8, Zenon DEF g
  <2>2. ASSUME NEW x \in dom, x \in B \/ g[down[x]] \in Bytes PROVE g[x] \in Bytes
    <3> HIDE DEF dom, B, measure, down, base, more, g
    <3>1. CASE x \in B
      BY <1>3, <2>1, <3>1, Zenon
    <3>2. CASE x \notin B
      <4>1. g[x] = g[down[x]] \o more[x]
        BY <1>6, <2>1, <2>2, <3>2, Zenon
      <4> QED
        BY <1>4, <2>2, <3>2, <4>1, JoinBytes
    <3> QED
      BY <3>1, <3>2
  <2> HIDE DEF dom, B, measure, down, base, more, g
  <2>3. \A x \in dom : g[x] \in Bytes
    BY <1>2, <2>2, BytesAllTheWay
  <2> QED
    BY <2>3 DEF g
<1>10. Join(elems, sep) = JoinedUpTo(elems, sep)[n]
  BY Zenon DEF Join, JoinedUpTo
<1> QED
  BY <1>1, <1>9, <1>10

\* What a task prints and the header of its line.
LEMMA TextsAreBytes ==
  ASSUME NEW t \in Task
  PROVE  Message(t) \in Bytes /\ formatHeader(Now[t]) \in Bytes
<1>1. Message(t) \in Bytes
  <2> DEFINE elems == [k \in DOMAIN Numbers[t] |-> Itoa(Numbers[t][k])]
  <2>1. Numbers[t] \in Seq(Ints)
    BY LoggerAssumption
  <2>2. \A k \in 1 .. Len(Numbers[t]) : Itoa(Numbers[t][k]) \in Bytes
    BY <2>1, ItoaIsBytes
  <2>3. DOMAIN Numbers[t] = 1 .. Len(Numbers[t]) /\ Len(Numbers[t]) \in Nat
    BY <2>1
  <2>4. elems \in Seq(Bytes)
    BY <2>2, <2>3
  <2>5. <<Comma>> \in Bytes
    BY SomeBytes DEF Comma
  <2> QED
    BY <2>4, <2>5, JoinIsBytes DEF Message
<1>2. formatHeader(Now[t]) \in Bytes
  <2> DEFINE now == Now[t]
  <2>1. now.year \in Nat /\ now.month \in Nat /\ now.day \in Nat /\ now.hour \in Nat
        /\ now.min \in Nat /\ now.sec \in Nat
    BY LoggerAssumption
  <2> HIDE DEF now
  <2>2. /\ itoa(now.year, 4) \in Bytes /\ itoa(now.month, 2) \in Bytes /\ itoa(now.day, 2) \in Bytes
        /\ itoa(now.hour, 2) \in Bytes /\ itoa(now.min, 2) \in Bytes /\ itoa(now.sec, 2) \in Bytes
    BY <2>1, itoaIsBytes
  <2>3. <<Slash>> \in Bytes /\ <<Space>> \in Bytes /\ <<Colon>> \in Bytes /\ <<>> \in Bytes
    BY SomeBytes, NoBytes DEF Slash, Space, Colon
  <2>4. \A x, y, z \in Bytes : x \o <<Slash>> \o y \o <<Slash>> \o z \o <<Space>> \in Bytes
    BY <2>3, JoinBytes
  <2>5. \A x, y, z \in Bytes : x \o <<Colon>> \o y \o <<Colon>> \o z \o <<Space>> \in Bytes
    BY <2>3, JoinBytes
  <2>6. formatHeader(now) \in Bytes
    BY <2>2, <2>3, <2>4, <2>5, JoinBytes DEF formatHeader
  <2> QED
    BY <2>6 DEF now
<1> QED
  BY <1>1, <1>2
-----------------------------------------------------------------------------
(***************************************************************************)
(* The inductive invariant.                                                *)
(***************************************************************************)
TaskAt == {"start", "print", "builder", "free", "output", "format", "write", "writing", "done"}

\* A task that prints has a printer, no two tasks have the same, and none that is
\* in use is in the pool.
PrintersRight ==
  /\ tpc \in [Task -> TaskAt] /\ pp \in [Task -> PP \cup {Nil}]
  /\ ppbuf \in [PP -> Bytes] /\ text \in [Task -> Bytes]
  /\ \A t \in Task : tpc[t] \in {"print", "builder", "free"} => pp[t] \in PP
  /\ \A t, u \in Task : t # u /\ pp[t] = pp[u] => pp[t] = Nil
  /\ ppFree \subseteq PP \ InUse
  /\ mu \in Task \cup {Nil} /\ lbuf \in Bytes

\* A printer that is in the pool or was just taken is empty, and so is a Builder
\* before the task has printed to it; after that what is in them is what the task
\* prints, and the buffer of the Logger holds the line of the task that is to write it.
LinesRight ==
  /\ \A c \in ppFree : ppbuf[c] = <<>>
  /\ \A t \in Task :
       /\ tpc[t] = "print" => ppbuf[pp[t]] = <<>>
       /\ tpc[t] = "builder" => ppbuf[pp[t]] = Message(t)
       /\ tpc[t] \in {"start", "print", "builder"} => text[t] = <<>>
       /\ tpc[t] \notin {"start", "print", "builder"} => text[t] = Message(t)
       /\ tpc[t] \in {"format", "write", "writing"} => mu = t
       /\ tpc[t] = "write" => lbuf = Line(t)

\* The stream is asked only by a Writer that has not failed, for at least one byte,
\* and has taken no more than it was asked to; what is left of a Write that has
\* returned is nothing, but after a failure.
WriterStages ==
  /\ wbuf \in Bytes /\ wp \in Bytes /\ log \in Bytes /\ sent \in Bytes
  /\ Len(wbuf) <= WSize /\ werr \in {Nil, ErrShortWrite, Broken}
  /\ wpc \in {"idle", "loop", "direct", "flush", "flushOnly", "done"}
  /\ pipepc \in {"idle", "notify"} /\ answer \in [n : Nat, err : {Nil, Broken}]
  /\ pipepc = "idle" => answer.n = 0
  /\ pipepc = "notify" => CallsWrite /\ answer.n <= Len(Outgoing)
  /\ CallsWrite => werr = Nil /\ Outgoing # <<>>
  /\ wpc = "direct" => wbuf = <<>>
  /\ wpc \in {"idle", "done"} /\ werr = Nil => wp = <<>>
  /\ wpc = "flushOnly" => wp = <<>>

\* The owner flushes when all tasks have logged, and closes the pipe after that.
OwnerStages ==
  /\ opc \in {"logging", "flush", "close", "notify", "end"} /\ closed \in BOOLEAN
  /\ opc # "logging" => \A t \in Task : tpc[t] = "done"
  /\ opc \in {"close", "notify", "end"} => wpc = "idle"
  /\ closed => opc \in {"notify", "end"}

\* The stream is asked only by a Reader that has nothing left, neither bytes nor an
\* error.
ReaderStages ==
  /\ rbuf \in Bytes /\ got \in Bytes /\ Len(rbuf) <= RSize
  /\ rerr \in {Nil, EOF} /\ gerr \in {Nil, EOF}
  /\ rpc \in {"idle", "direct", "fill"} /\ rk \in Nat
  /\ pos \in 0 .. Len(sent) /\ L \in {NoOne, "receiver"}
  /\ CallsRead => rbuf = <<>> /\ rerr = Nil

\* The inductive invariant.
StreamIInv ==
  /\ PrintersRight /\ LinesRight /\ OwnerStages
  /\ WriterStages /\ WriterRight
  /\ ReaderStages /\ ReaderRight

-----------------------------------------------------------------------------
(***************************************************************************)
(* The tasks and their printers.                                           *)
(***************************************************************************)
\* A task gets a printer that nobody has.
LEMMA NewPrinterKeeps ==
  ASSUME PrintersRight, NEW t \in Task, newPrinter(t)
  PROVE  PrintersRight'
<1> USE DEF PrintersRight
<1>1. PICK p \in PP : /\ p \notin InUse /\ pp' = [pp EXCEPT ![t] = p]
                      /\ \/ ppFree' = ppFree \ {p} /\ ppbuf' = ppbuf
                         \/ /\ ppFree' = ppFree /\ p \notin ppFree
                            /\ ppbuf' = [ppbuf EXCEPT ![p] = <<>>]
  BY DEF newPrinter
<1>2. tpc' = [tpc EXCEPT ![t] = "print"] /\ UNCHANGED <<text, mu, lbuf>>
  BY DEF newPrinter, LGoto, logging
<1>3. tpc' \in [Task -> TaskAt] /\ pp' \in [Task -> PP \cup {Nil}]
  BY <1>1, <1>2 DEF TaskAt
<1>4. ppbuf' \in [PP -> Bytes]
  BY <1>1, NoBytes
<1>5. \A u \in Task : tpc'[u] \in {"print", "builder", "free"} => pp'[u] \in PP
  BY <1>1, <1>2
<1>6. ASSUME NEW u \in Task, NEW v \in Task, u # v, pp'[u] = pp'[v] PROVE pp'[u] = Nil
  BY <1>1, <1>6 DEF InUse
<1>7. ASSUME NEW c \in ppFree' PROVE c \in PP /\ c \notin InUse'
  BY <1>1 DEF InUse
<1> QED
  BY <1>2, <1>3, <1>4, <1>5, <1>6, <1>7

\* A task puts its printer back, or drops it.
LEMMA FreeKeeps ==
  ASSUME PrintersRight, NEW t \in Task, free(t)
  PROVE  PrintersRight'
<1> USE DEF PrintersRight
<1>1. /\ tpc[t] = "free" /\ tpc' = [tpc EXCEPT ![t] = "output"] /\ pp' = [pp EXCEPT ![t] = Nil]
      /\ UNCHANGED <<text, mu, lbuf>>
      /\ \/ ppbuf' = [ppbuf EXCEPT ![pp[t]] = <<>>] /\ ppFree' = ppFree \cup {pp[t]}
         \/ UNCHANGED <<ppbuf, ppFree>>
  BY DEF free, LGoto, logging
<1>2. pp[t] \in PP
  BY <1>1
<1>3. tpc' \in [Task -> TaskAt] /\ pp' \in [Task -> PP \cup {Nil}]
  BY <1>1 DEF TaskAt
<1>4. ppbuf' \in [PP -> Bytes]
  BY <1>1, <1>2, NoBytes
<1>5. \A u \in Task : tpc'[u] \in {"print", "builder", "free"} => pp'[u] \in PP
  BY <1>1
<1>6. ASSUME NEW u \in Task, NEW v \in Task, u # v, pp'[u] = pp'[v] PROVE pp'[u] = Nil
  BY <1>1, <1>6
<1>7. ASSUME NEW c \in ppFree' PROVE c \in PP /\ c \notin InUse'
  <2>1. c \in PP /\ (c \in ppFree \/ c = pp[t])
    BY <1>1, <1>2, <1>7
  <2>2. ASSUME NEW u \in Task, pp'[u] = c, c # Nil PROVE FALSE
    <3>1. u # t /\ pp[u] = c
      BY <1>1, <2>2
    <3>2. c \notin ppFree
      BY <2>2, <3>1 DEF InUse
    <3>3. pp[u] = pp[t]
      BY <2>1, <3>1, <3>2
    <3> QED
      BY <2>2, <3>1, <3>3
  <2> QED
    BY <2>1, <2>2 DEF InUse
<1> QED
  BY <1>1, <1>3, <1>4, <1>5, <1>6, <1>7

\* The other steps of a task move bytes only.
LEMMA PrintingKeeps ==
  ASSUME PrintersRight, NEW t \in Task,
         doPrint(t) \/ BuilderWrite(t) \/ OutputLock(t) \/ OutputFormat(t) \/ OutputWrite(t) \/ OutputReturns(t)
  PROVE  PrintersRight'
<1> USE DEF PrintersRight
<1>1. pp' = pp /\ ppFree' = ppFree /\ InUse' = InUse
  BY DEF doPrint, BuilderWrite, OutputLock, OutputFormat, OutputWrite, OutputReturns, printing, InUse
<1>2. PICK l \in TaskAt : /\ tpc' = [tpc EXCEPT ![t] = l]
                          /\ l \in {"print", "builder", "free"} => tpc[t] \in {"print", "builder", "free"}
  BY DEF doPrint, BuilderWrite, OutputLock, OutputFormat, OutputWrite, OutputReturns, LGoto, TaskAt
<1>3. tpc' \in [Task -> TaskAt] /\ \A u \in Task : tpc'[u] \in {"print", "builder", "free"} => pp'[u] \in PP
  BY <1>1, <1>2
<1>4. ppbuf' \in [PP -> Bytes]
  <2>1. CASE doPrint(t)
    <3>1. pp[t] \in PP /\ ppbuf' = [ppbuf EXCEPT ![pp[t]] = ppbuf[pp[t]] \o Message(t)]
      BY <2>1 DEF doPrint
    <3>2. ppbuf[pp[t]] \o Message(t) \in Bytes
      BY <3>1, TextsAreBytes, JoinBytes
    <3> QED
      BY <3>1, <3>2
  <2>2. CASE ~doPrint(t)
    BY <2>2 DEF BuilderWrite, OutputLock, OutputFormat, OutputWrite, OutputReturns, printing
  <2> QED
    BY <2>1, <2>2
<1>5. text' \in [Task -> Bytes]
  <2>1. CASE BuilderWrite(t)
    <3>1. pp[t] \in PP /\ text' = [text EXCEPT ![t] = text[t] \o ppbuf[pp[t]]]
      BY <2>1 DEF BuilderWrite
    <3>2. text[t] \o ppbuf[pp[t]] \in Bytes
      BY <3>1, JoinBytes
    <3> QED
      BY <3>1, <3>2
  <2>2. CASE ~BuilderWrite(t)
    BY <2>2 DEF doPrint, OutputLock, OutputFormat, OutputWrite, OutputReturns, printing
  <2> QED
    BY <2>1, <2>2
<1>6. lbuf' \in Bytes
  <2>1. CASE OutputFormat(t)
    <3>1. EndOfLine(text[t]) \in Bytes
      BY NoBytes, SomeBytes DEF EndOfLine, Newline
    <3>2. text[t] \in Bytes /\ formatHeader(Now[t]) \in Bytes
      BY TextsAreBytes
    <3>3. formatHeader(Now[t]) \o text[t] \in Bytes
      BY <3>2, JoinBytes
    <3>4. formatHeader(Now[t]) \o text[t] \o EndOfLine(text[t]) \in Bytes
      BY <3>1, <3>3, JoinBytes
    <3> QED
      BY <2>1, <3>4 DEF OutputFormat
  <2>2. CASE ~OutputFormat(t)
    BY <2>2 DEF doPrint, BuilderWrite, OutputLock, OutputWrite, OutputReturns, logging
  <2> QED
    BY <2>1, <2>2
<1>7. mu' \in Task \cup {Nil}
  BY DEF doPrint, BuilderWrite, OutputLock, OutputFormat, OutputWrite, OutputReturns, logging
<1> QED
  BY <1>1, <1>3, <1>4, <1>5, <1>6, <1>7

\* No step gives a printer to two tasks.
LEMMA PrintersStep ==
  ASSUME PrintersRight, [StreamNext]_svars PROVE PrintersRight'
<1>1. ASSUME NEW t \in Task, TaskStep(t) PROVE PrintersRight'
  BY <1>1, NewPrinterKeeps, FreeKeeps, PrintingKeeps, Zenon DEF TaskStep, LogStep
<1>2. ASSUME UNCHANGED <<tpc, printing, logging>> PROVE PrintersRight'
  BY <1>2 DEF PrintersRight, InUse, printing, logging
<1>3. CASE UNCHANGED svars
  BY <1>2, <1>3 DEF svars
<1>4. CASE Buffering \/ PipeWrite \/ PipeNotify
  BY <1>2, <1>4 DEF Buffering, PipeWrite, PipeNotify
<1>5. CASE ReceiverStep \/ Receive(ReadZero)
  BY <1>2, <1>5 DEF ReceiverStep, Receive, PipeWait, PipeRead, PipeEOF
<1>6. CASE Owner
  BY <1>2, <1>6 DEF Owner, OwnerFlush, OwnerFlushed, OwnerClose, OwnerNotify
<1> QED
  BY <1>1, <1>3, <1>4, <1>5, <1>6, Zenon DEF StreamNext


\* What a task prints is nobody else's.
LEMMA LinesKeep ==
  ASSUME PrintersRight, LinesRight, NEW t \in Task, LogStep(t)
  PROVE  LinesRight'
<1> DEFINE Fine(u) == /\ tpc[u] = "print" => ppbuf[pp[u]] = <<>>
                      /\ tpc[u] = "builder" => ppbuf[pp[u]] = Message(u)
                      /\ tpc[u] \in {"start", "print", "builder"} => text[u] = <<>>
                      /\ tpc[u] \notin {"start", "print", "builder"} => text[u] = Message(u)
                      /\ tpc[u] \in {"format", "write", "writing"} => mu = u
                      /\ tpc[u] = "write" => lbuf = Line(u)
<1> SUFFICES (\A c \in ppFree' : ppbuf'[c] = <<>>) /\ \A u \in Task : Fine(u)'
  BY DEF LinesRight
<1>1. (\A c \in ppFree : ppbuf[c] = <<>>) /\ \A u \in Task : Fine(u)
  BY DEF LinesRight
<1>2. tpc \in [Task -> TaskAt] /\ pp \in [Task -> PP \cup {Nil}] /\ ppbuf \in [PP -> Bytes]
      /\ text \in [Task -> Bytes] /\ ppFree \subseteq PP \ InUse /\ Message(t) \in Bytes
  BY TextsAreBytes DEF PrintersRight
<1>3. \A u \in Task : tpc[u] \in {"print", "builder", "free"} =>
        /\ pp[u] \in PP /\ pp[u] \notin ppFree
        /\ u # t /\ tpc[t] \in {"print", "builder", "free"} => pp[u] # pp[t]
  <2>1. \A u \in Task : tpc[u] \in {"print", "builder", "free"} => pp[u] \in PP
    BY DEF PrintersRight
  <2>2. \A u, v \in Task : u # v /\ pp[u] = pp[v] => pp[u] = Nil
    BY DEF PrintersRight
  <2>3. ASSUME NEW u \in Task, tpc[u] \in {"print", "builder", "free"} PROVE pp[u] # Nil
    BY <2>1, <2>3, LoggerAssumption
  <2> QED
    BY <1>2, <2>1, <2>2, <2>3 DEF InUse
<1>4. CASE newPrinter(t)
  <2>1. PICK p \in PP : /\ pp' = [pp EXCEPT ![t] = p]
                        /\ \/ p \in ppFree /\ ppFree' = ppFree \ {p} /\ ppbuf' = ppbuf
                           \/ /\ p \notin ppFree \cup InUse /\ ppFree' = ppFree
                              /\ ppbuf' = [ppbuf EXCEPT ![p] = <<>>]
    BY <1>2, <1>4 DEF newPrinter
  <2>2. tpc[t] = "start" /\ tpc' = [tpc EXCEPT ![t] = "print"] /\ UNCHANGED <<text, mu, lbuf>>
    BY <1>4 DEF newPrinter, LGoto, logging
  <2>3. ppbuf'[p] = <<>> /\ \A c \in PP : c # p => ppbuf'[c] = ppbuf[c]
    BY <1>1, <1>2, <2>1
  <2>4. \A c \in ppFree' : c \in ppFree /\ c # p
    BY <2>1
  <2>5. \A u \in Task : u # t /\ tpc[u] \in {"print", "builder", "free"} => pp[u] \in PP /\ pp[u] # p
    BY <1>2, <1>3, <2>1, LoggerAssumption DEF InUse
  <2>6. \A c \in ppFree' : ppbuf'[c] = <<>>
    BY <1>1, <1>2, <2>3, <2>4
  <2>7. ASSUME NEW u \in Task, u # t PROVE Fine(u)'
    <3>1. tpc'[u] = tpc[u] /\ pp'[u] = pp[u]
      BY <1>2, <2>1, <2>2, <2>7
    <3>2. tpc[u] \in {"print", "builder"} => ppbuf'[pp[u]] = ppbuf[pp[u]]
      BY <2>3, <2>5, <2>7
    <3> QED
      BY <1>1, <2>2, <3>1, <3>2
  <2>8. Fine(t)'
    <3>1. tpc'[t] = "print" /\ pp'[t] = p
      BY <1>2, <2>1, <2>2
    <3> QED
      BY <1>1, <2>2, <2>3, <3>1
  <2> QED
    BY <2>6, <2>7, <2>8
<1>5. CASE doPrint(t)
  <2>1. /\ tpc[t] = "print" /\ tpc' = [tpc EXCEPT ![t] = "builder"]
        /\ ppbuf' = [ppbuf EXCEPT ![pp[t]] = ppbuf[pp[t]] \o Message(t)]
        /\ UNCHANGED <<pp, ppFree, text, mu, lbuf>>
    BY <1>5 DEF doPrint, LGoto, logging
  <2>2. ppbuf[pp[t]] = <<>> /\ pp[t] \in PP /\ pp[t] \notin ppFree
    BY <1>1, <1>3, <2>1
  <2>3. ppbuf'[pp[t]] = Message(t)
    BY <1>2, <2>1, <2>2, NoBytes
  <2>4. \A c \in PP : c # pp[t] => ppbuf'[c] = ppbuf[c]
    BY <1>2, <2>1
  <2>5. \A c \in ppFree' : ppbuf'[c] = <<>>
    BY <1>1, <1>2, <2>1, <2>2, <2>4
  <2>6. ASSUME NEW u \in Task, u # t PROVE Fine(u)'
    <3>1. tpc'[u] = tpc[u] /\ pp'[u] = pp[u]
      BY <1>2, <2>1, <2>6
    <3>2. tpc[u] \in {"print", "builder"} => ppbuf'[pp[u]] = ppbuf[pp[u]]
      BY <1>3, <2>1, <2>4, <2>6
    <3> QED
      BY <1>1, <2>1, <3>1, <3>2
  <2>7. Fine(t)'
    <3>1. tpc'[t] = "builder" /\ pp'[t] = pp[t]
      BY <1>2, <2>1
    <3> QED
      BY <1>1, <2>1, <2>3, <3>1
  <2> QED
    BY <2>5, <2>6, <2>7
<1>6. CASE BuilderWrite(t)
  <2>1. /\ tpc[t] = "builder" /\ tpc' = [tpc EXCEPT ![t] = "free"]
        /\ text' = [text EXCEPT ![t] = text[t] \o ppbuf[pp[t]]]
        /\ UNCHANGED <<pp, ppbuf, ppFree, mu, lbuf>>
    BY <1>6 DEF BuilderWrite, LGoto, logging
  <2>2. text'[t] = Message(t)
    <3>1. text[t] = <<>> /\ ppbuf[pp[t]] = Message(t)
      BY <1>1, <2>1
    <3> QED
      BY <1>2, <2>1, <3>1, NoBytes
  <2>3. ASSUME NEW u \in Task, u # t PROVE Fine(u)'
    <3>1. tpc'[u] = tpc[u] /\ text'[u] = text[u]
      BY <1>2, <2>1, <2>3
    <3> QED
      BY <1>1, <2>1, <3>1
  <2>4. Fine(t)'
    <3>1. tpc'[t] = "free"
      BY <1>2, <2>1
    <3> QED
      BY <2>2, <3>1
  <2> QED
    BY <1>1, <2>1, <2>3, <2>4
<1>7. CASE free(t)
  <2>1. /\ tpc[t] = "free" /\ tpc' = [tpc EXCEPT ![t] = "output"] /\ pp' = [pp EXCEPT ![t] = Nil]
        /\ \/ ppbuf' = [ppbuf EXCEPT ![pp[t]] = <<>>] /\ ppFree' = ppFree \cup {pp[t]}
           \/ UNCHANGED <<ppbuf, ppFree>>
        /\ UNCHANGED <<text, mu, lbuf>>
    BY <1>7 DEF free, LGoto, logging
  <2>2. pp[t] \in PP /\ pp[t] \notin ppFree
    BY <1>3, <2>1
  <2>3. \A c \in PP : c # pp[t] => ppbuf'[c] = ppbuf[c]
    BY <1>2, <2>1
  <2>4. \A c \in ppFree' : ppbuf'[c] = <<>>
    BY <1>1, <1>2, <2>1, <2>2
  <2>5. ASSUME NEW u \in Task, u # t PROVE Fine(u)'
    <3>1. tpc'[u] = tpc[u] /\ pp'[u] = pp[u]
      BY <1>2, <2>1, <2>5
    <3>2. tpc[u] \in {"print", "builder"} => ppbuf'[pp[u]] = ppbuf[pp[u]]
      BY <1>3, <2>1, <2>3, <2>5
    <3> QED
      BY <1>1, <2>1, <3>1, <3>2
  <2>6. Fine(t)'
    <3>1. tpc'[t] = "output"
      BY <1>2, <2>1
    <3> QED
      BY <1>1, <2>1, <3>1
  <2> QED
    BY <2>4, <2>5, <2>6
<1>8. CASE OutputLock(t) \/ OutputReturns(t)
  <2>1. /\ UNCHANGED <<pp, ppbuf, ppFree, text, lbuf>>
        /\ \/ tpc[t] = "output" /\ mu = Nil /\ tpc' = [tpc EXCEPT ![t] = "format"] /\ mu' = t
           \/ tpc[t] = "writing" /\ tpc' = [tpc EXCEPT ![t] = "done"]
    BY <1>8 DEF OutputLock, MayLock, OutputReturns, LGoto, printing, logging
  <2>2. ASSUME NEW u \in Task, u # t PROVE Fine(u)'
    <3>1. tpc'[u] = tpc[u] /\ tpc[u] \notin {"format", "write", "writing"}
      BY <1>1, <1>2, <2>1, <2>2, LoggerAssumption
    <3> QED
      BY <1>1, <2>1, <3>1
  <2>3. Fine(t)'
    <3>1. tpc'[t] = "done" \/ (tpc'[t] = "format" /\ mu' = t)
      BY <1>2, <2>1
    <3> QED
      BY <1>1, <2>1, <3>1
  <2> QED
    BY <1>1, <2>1, <2>2, <2>3
<1>9. CASE OutputFormat(t)
  <2>1. /\ tpc[t] = "format" /\ tpc' = [tpc EXCEPT ![t] = "write"]
        /\ lbuf' = formatHeader(Now[t]) \o text[t] \o EndOfLine(text[t])
        /\ UNCHANGED <<pp, ppbuf, ppFree, text, mu>>
    BY <1>9 DEF OutputFormat, LGoto, printing
  <2>2. lbuf' = Line(t)
    BY <1>1, <2>1 DEF Line
  <2>3. ASSUME NEW u \in Task, u # t PROVE Fine(u)'
    <3>1. tpc'[u] = tpc[u] /\ tpc[u] # "write"
      BY <1>1, <1>2, <2>1, <2>3
    <3> QED
      BY <1>1, <2>1, <3>1
  <2>4. Fine(t)'
    <3>1. tpc'[t] = "write"
      BY <1>2, <2>1
    <3> QED
      BY <1>1, <2>1, <2>2, <3>1 DEF Line
  <2> QED
    BY <1>1, <2>1, <2>3, <2>4
<1>10. CASE OutputWrite(t)
  <2>1. /\ tpc[t] = "write" /\ tpc' = [tpc EXCEPT ![t] = "writing"]
        /\ UNCHANGED <<pp, ppbuf, ppFree, text, mu, lbuf>>
    BY <1>10 DEF OutputWrite, LGoto, printing
  <2>2. \A u \in Task : tpc'[u] = IF u = t THEN "writing" ELSE tpc[u]
    BY <1>2, <2>1
  <2>3. \A u \in Task : Fine(u)'
    BY <1>1, <2>1, <2>2
  <2> QED
    BY <1>1, <2>1, <2>3
<1> QED
  BY <1>4, <1>5, <1>6, <1>7, <1>8, <1>9, <1>10 DEF LogStep

\* No step touches what another task prints.
LEMMA LinesStep ==
  ASSUME PrintersRight, LinesRight, [StreamNext]_svars PROVE LinesRight'
<1>1. ASSUME NEW t \in Task, TaskStep(t) PROVE LinesRight'
  BY <1>1, LinesKeep DEF TaskStep
<1>2. ASSUME UNCHANGED <<tpc, printing, logging>> PROVE LinesRight'
  BY <1>2 DEF LinesRight, printing, logging
<1>3. CASE UNCHANGED svars
  BY <1>2, <1>3 DEF svars
<1>4. CASE Buffering \/ PipeWrite \/ PipeNotify
  BY <1>2, <1>4 DEF Buffering, PipeWrite, PipeNotify
<1>5. CASE ReceiverStep \/ Receive(ReadZero)
  BY <1>2, <1>5 DEF ReceiverStep, Receive, PipeWait, PipeRead, PipeEOF
<1>6. CASE Owner
  BY <1>2, <1>6 DEF Owner, OwnerFlush, OwnerFlushed, OwnerClose, OwnerNotify
<1> QED
  BY <1>1, <1>3, <1>4, <1>5, <1>6, Zenon DEF StreamNext
-----------------------------------------------------------------------------
(***************************************************************************)
(* The Writer, and what the pipe has taken.                                *)
(***************************************************************************)
\* Three names name at most three things.
LEMMA AtMostThree == \A a, b, c : Cardinality({a, b, c}) # 4
<1> TAKE a, b, c
<1>1. IsFiniteSet({a}) /\ Cardinality({a}) = 1
  BY FS_Singleton
<1>2. /\ IsFiniteSet({a} \cup {b})
      /\ Cardinality({a} \cup {b}) = 1 \/ Cardinality({a} \cup {b}) = 2
  BY <1>1, FS_AddElement
<1>3. Cardinality(({a} \cup {b}) \cup {c}) \in {1, 2, 3}
  BY <1>2, FS_AddElement
<1>4. ({a} \cup {b}) \cup {c} = {a, b, c}
  OBVIOUS
<1> QED
  BY <1>3, <1>4

\* The four errors are four.
LEMMA Errors == Nil # ErrShortWrite /\ Nil # EOF /\ Nil # Broken
<1>1. ASSUME Nil = ErrShortWrite PROVE FALSE
  <2>1. {Nil, ErrShortWrite, EOF, Broken} = {Nil, EOF, Broken}
    BY <1>1
  <2> QED
    BY <2>1, AtMostThree, StreamAssumption, Zenon
<1>2. ASSUME Nil = EOF PROVE FALSE
  <2>1. {Nil, ErrShortWrite, EOF, Broken} = {Nil, ErrShortWrite, Broken}
    BY <1>2
  <2> QED
    BY <2>1, AtMostThree, StreamAssumption, Zenon
<1>3. ASSUME Nil = Broken PROVE FALSE
  <2>1. {Nil, ErrShortWrite, EOF, Broken} = {Nil, ErrShortWrite, EOF}
    BY <1>3
  <2> QED
    BY <2>1, AtMostThree, StreamAssumption, Zenon
<1> QED
  BY <1>1, <1>2, <1>3

\* With no answer to come, all that the stream does not have is with the Writer.
Kept ==
  IF werr = Nil THEN sent \o (wbuf \o wp) = log
  ELSE \E c \in Bytes : log = (sent \o wbuf) \o c

\* WriterRight, in the words of the lemmas.
LEMMA KeptIs ==
  WriterStages => /\ werr = Nil => (WriterRight <=> sent \o Skip(wbuf \o wp, answer.n) = log)
                  /\ werr # Nil => (WriterRight <=> \E c \in Bytes : log = (sent \o wbuf) \o c)
                  /\ answer.n = 0 => (WriterRight <=> Kept)
<1> SUFFICES ASSUME WriterStages
             PROVE  /\ werr = Nil => (WriterRight <=> sent \o Skip(wbuf \o wp, answer.n) = log)
                    /\ werr # Nil => (WriterRight <=> \E c \in Bytes : log = (sent \o wbuf) \o c)
                    /\ answer.n = 0 => (WriterRight <=> Kept)
  OBVIOUS
<1>1. sent \o wbuf \in Bytes /\ log \in Bytes /\ wbuf \o wp \in Bytes
  BY JoinBytes DEF WriterStages
<1>2. IsPrefix(sent \o wbuf, log) <=> \E c \in Bytes : log = (sent \o wbuf) \o c
  BY <1>1, Beginning
<1>3. Skip(wbuf \o wp, 0) = wbuf \o wp
  BY <1>1, CutAtEnds
<1> QED
  BY <1>2, <1>3 DEF WriterRight, Kept

\* The answers are within what the pipe was asked for.
LEMMA AnswersFit ==
  ASSUME NEW len \in Nat \ {0}, NEW a \in Answers(len)
  PROVE  a \in [n : Nat, err : {Nil, Broken}] /\ a.n \in 0 .. len
BY DEF Answers

\* A Write begins.
LEMMA WriteKeeps ==
  ASSUME WriterStages, WriterRight, Write(lbuf), log' = log \o lbuf, lbuf \in Bytes,
         UNCHANGED <<sent, pipepc, answer>>
  PROVE  WriterStages' /\ WriterRight'
<1>1. /\ wpc = "idle" /\ wpc' = "loop" /\ wp' = lbuf /\ wbuf' = wbuf /\ werr' = werr /\ sent' = sent
      /\ wbuf \in Bytes /\ log \in Bytes /\ sent \in Bytes /\ sent \o wbuf \in Bytes
  BY JoinBytes DEF Write, WriterStages
<1>2. answer.n = 0 /\ pipepc = "idle" /\ answer' = answer
  BY <1>1 DEF WriterStages, CallsWrite
<1>3. WriterStages'
  BY <1>1, <1>2, JoinBytes DEF WriterStages, CallsWrite
<1>4. Kept'
  <2>1. CASE werr = Nil
    <3>1. sent \o wbuf = log
      BY <1>1, <1>2, <2>1, NoBytes, KeptIs DEF WriterStages, Kept
    <3>2. (sent \o wbuf) \o lbuf = sent \o (wbuf \o lbuf)
      <4>1. sent \in Bytes /\ wbuf \in Bytes /\ lbuf \in Bytes
        BY <1>1
      <4> QED
        BY <4>1, JoinThree, Zenon
    <3> QED
      BY <1>1, <2>1, <3>1, <3>2 DEF Kept
  <2>2. CASE werr # Nil
    <3>1. PICK c \in Bytes : log = (sent \o wbuf) \o c
      BY <2>2, KeptIs
    <3>2. c \o lbuf \in Bytes
      BY JoinBytes
    <3>3. ((sent \o wbuf) \o c) \o lbuf = (sent \o wbuf) \o (c \o lbuf)
      <4>1. sent \o wbuf \in Bytes /\ c \in Bytes /\ lbuf \in Bytes
        BY <1>1
      <4> QED
        BY <4>1, JoinThree, Zenon
    <3> QED
      BY <1>1, <2>2, <3>1, <3>2, <3>3 DEF Kept
  <2> QED
    BY <2>1, <2>2
<1>5. (answer.n = 0 => (WriterRight <=> Kept))'
  BY <1>3, KeptIs, PTL
<1> QED
  BY <1>2, <1>3, <1>4, <1>5

\* The Writer's own code, between two calls of the stream.
LEMMA WriterCodeKeeps ==
  ASSUME WriterStages, WriterRight, WriterCode, UNCHANGED <<log, sent, pipepc, answer>>
  PROVE  WriterStages' /\ WriterRight'
<1>1. wpc = "loop"
  BY DEF WriterCode, WriteLarge, WriteFill, WriteEnd, Looping
<1>2. /\ answer.n = 0 /\ pipepc = "idle" /\ Kept
      /\ wbuf \in Bytes /\ wp \in Bytes /\ log \in Bytes /\ sent \in Bytes
      /\ Len(wbuf) \in Nat /\ Len(wp) \in Nat /\ WSize \in Nat \ {0} /\ Len(wbuf) <= WSize
  BY <1>1, KeptIs, NoBytes, BufioAssumption DEF WriterStages, CallsWrite
<1>3. WriterStages' /\ Kept'
  <2>1. CASE WriteLarge
    <3>1. /\ wpc' = "direct" /\ UNCHANGED <<wbuf, werr, wp>>
          /\ wbuf = <<>> /\ werr = Nil /\ Len(wp) > 0
      BY <1>2, <2>1, NoBytes DEF WriteLarge, Looping, Available
    <3>2. wp # <<>>
      BY <1>2, <3>1, NoBytes
    <3>3. WriterStages'
      BY <1>2, <3>1, <3>2 DEF WriterStages, CallsWrite, Outgoing
    <3> QED
      BY <1>2, <3>1, <3>3 DEF Kept
  <2>2. CASE WriteFill
    <3> DEFINE n == WSize - Len(wbuf)
    <3>1. /\ wbuf' = wbuf \o First(wp, n) /\ wp' = Skip(wp, n) /\ wpc' = "flush" /\ werr' = werr
          /\ werr = Nil /\ wbuf # <<>> /\ n \in 0 .. Len(wp)
      BY <1>2, <2>2 DEF WriteFill, Looping, Available
    <3>2. /\ First(wp, n) \in Bytes /\ Len(First(wp, n)) = n
          /\ Skip(wp, n) \in Bytes /\ First(wp, n) \o Skip(wp, n) = wp
      BY <1>2, <3>1, CutBytes
    <3> HIDE DEF n
    <3>3. wbuf' \in Bytes /\ Len(wbuf') = Len(wbuf) + n
      <4>1. wbuf \o First(wp, n) \in Bytes /\ Len(wbuf \o First(wp, n)) = Len(wbuf) + Len(First(wp, n))
        BY <1>2, <3>2, JoinBytes, Zenon
      <4> QED
        BY <3>1, <3>2, <4>1
    <3>4. Len(wbuf') = WSize
      BY <1>2, <3>3 DEF n
    <3>5. wbuf' # <<>>
      BY <1>2, <3>4, NoBytes
    <3>6. WriterStages'
      BY <1>2, <3>1, <3>2, <3>3, <3>4, <3>5 DEF WriterStages, CallsWrite, Outgoing
    <3>7. wbuf' \o wp' = wbuf \o wp
      <4>1. (wbuf \o First(wp, n)) \o Skip(wp, n) = wbuf \o (First(wp, n) \o Skip(wp, n))
        <5>1. wbuf \in Bytes /\ First(wp, n) \in Bytes /\ Skip(wp, n) \in Bytes
          BY <1>2, <3>2
        <5> QED
          BY <5>1, JoinThree, Zenon
      <4> QED
        BY <3>1, <3>2, <4>1
    <3> QED
      BY <1>2, <3>1, <3>6, <3>7 DEF Kept
  <2>3. CASE WriteEnd
    <3>1. CASE werr = Nil
      <4>1. /\ wbuf' = wbuf \o wp /\ wp' = <<>> /\ wpc' = "done" /\ werr' = werr
            /\ Len(wp) <= WSize - Len(wbuf)
        BY <1>2, <2>3, <3>1 DEF WriteEnd, Looping, Available, Accepts
      <4>2. wbuf' \in Bytes /\ Len(wbuf') = Len(wbuf) + Len(wp)
        BY <1>2, <4>1, JoinBytes
      <4>3. WriterStages'
        BY <1>2, <3>1, <4>1, <4>2, NoBytes DEF WriterStages, CallsWrite
      <4>4. wbuf' \o wp' = wbuf \o wp
        BY <4>1, <4>2, NoBytes
      <4> QED
        BY <1>2, <3>1, <4>1, <4>3, <4>4 DEF Kept
    <3>2. CASE werr # Nil
      <4>1. UNCHANGED <<wbuf, werr, wp>> /\ wpc' = "done"
        BY <2>3, <3>2 DEF WriteEnd, Accepts
      <4> QED
        BY <1>2, <3>2, <4>1 DEF WriterStages, CallsWrite, Kept
    <3> QED
      BY <3>1, <3>2
  <2> QED
    BY <2>1, <2>2, <2>3 DEF WriterCode
<1>4. (answer.n = 0 => (WriterRight <=> Kept))'
  BY <1>3, KeptIs, PTL
<1> QED
  BY <1>2, <1>3, <1>4

\* The pipe takes a part of what it is asked to.
LEMMA PipeWriteKeeps ==
  ASSUME WriterStages, WriterRight, PipeWrite
  PROVE  WriterStages' /\ WriterRight'
<1>1. /\ CallsWrite /\ pipepc = "idle" /\ pipepc' = "notify" /\ UNCHANGED <<wbuf, werr, wpc, wp, log>>
      /\ Outgoing' = Outgoing /\ CallsWrite' = CallsWrite
  BY DEF PipeWrite, writer, logging, Outgoing, CallsWrite
<1>2. /\ werr = Nil /\ answer.n = 0 /\ Outgoing # <<>> /\ Kept
      /\ wbuf \in Bytes /\ wp \in Bytes /\ log \in Bytes /\ sent \in Bytes /\ wbuf \o wp \in Bytes
  BY <1>1, KeptIs, JoinBytes DEF WriterStages
<1>3. PICK rest \in Bytes : Outgoing \in Bytes /\ wbuf \o wp = Outgoing \o rest
  <2>1. CASE wpc = "direct"
    <3>1. wbuf \o wp = wp /\ wp \o <<>> = wp /\ <<>> \in Bytes
      BY <1>2, <2>1, NoBytes DEF WriterStages
    <3> QED
      BY <1>2, <2>1, <3>1 DEF Outgoing
  <2>2. CASE wpc # "direct"
    BY <1>2, <2>2 DEF Outgoing
  <2> QED
    BY <2>1, <2>2
<1>4. Len(Outgoing) \in Nat \ {0}
  BY <1>2, <1>3, NoBytes
<1>5. PICK a \in Answers(Len(Outgoing)) : answer' = a /\ sent' = sent \o First(Outgoing, a.n)
  BY DEF PipeWrite
<1>6. answer' \in [n : Nat, err : {Nil, Broken}] /\ answer'.n \in 0 .. Len(Outgoing)
  BY <1>4, <1>5, AnswersFit
<1>7. PICK n \in 0 .. Len(Outgoing) : answer'.n = n /\ sent' = sent \o First(Outgoing, n)
  BY <1>5, <1>6
<1>8. /\ First(Outgoing, n) \in Bytes /\ Skip(Outgoing, n) \in Bytes
      /\ First(Outgoing, n) \o Skip(Outgoing, n) = Outgoing
      /\ Skip(wbuf \o wp, n) = Skip(Outgoing, n) \o rest
  <2>1. /\ First(Outgoing, n) \in Bytes /\ Skip(Outgoing, n) \in Bytes
        /\ First(Outgoing, n) \o Skip(Outgoing, n) = Outgoing
    BY <1>3, CutBytes
  <2>2. Skip(Outgoing \o rest, n) = Skip(Outgoing, n) \o rest
    BY <1>3, CutFirst
  <2> QED
    BY <1>3, <2>1, <2>2
<1>9. sent' \in Bytes
  BY <1>2, <1>7, <1>8, JoinBytes
<1>10. WriterStages'
  BY <1>1, <1>2, <1>4, <1>6, <1>9 DEF WriterStages
<1>11. sent' \o Skip(wbuf \o wp, n) = log
  <2>1. Skip(Outgoing, n) \o rest \in Bytes
    BY <1>8, JoinBytes
  <2>2. (sent \o First(Outgoing, n)) \o (Skip(Outgoing, n) \o rest)
          = sent \o (First(Outgoing, n) \o (Skip(Outgoing, n) \o rest))
    <3>1. \A f, g \in Bytes : (sent \o f) \o g = sent \o (f \o g)
      BY <1>2, JoinThree
    <3> QED
      BY <1>8, <2>1, <3>1
  <2>3. (First(Outgoing, n) \o Skip(Outgoing, n)) \o rest
          = First(Outgoing, n) \o (Skip(Outgoing, n) \o rest)
    <3>1. First(Outgoing, n) \in Bytes /\ Skip(Outgoing, n) \in Bytes /\ rest \in Bytes
      BY <1>8
    <3> QED
      BY <3>1, JoinThree, Zenon
  <2>4. sent \o (wbuf \o wp) = log
    BY <1>2 DEF Kept
  <2> QED
    BY <1>3, <1>7, <1>8, <2>2, <2>3, <2>4, Zenon
<1>12. (werr = Nil => (WriterRight <=> sent \o Skip(wbuf \o wp, answer.n) = log))'
  BY <1>10, KeptIs, PTL
<1> QED
  BY <1>1, <1>2, <1>7, <1>10, <1>11, <1>12

\* The Writer has the pipe's answer.
LEMMA PipeNotifyKeeps ==
  ASSUME WriterStages, WriterRight, PipeNotify
  PROVE  WriterStages' /\ WriterRight'
<1> DEFINE n == answer.n
           err == answer.err
<1>1. /\ pipepc = "notify" /\ pipepc' = "idle" /\ answer' = [n |-> 0, err |-> Nil] /\ UNCHANGED <<log, sent>>
      /\ WroteDirect(n, err) \/ Flushed(n, err)
  BY DEF PipeNotify, StreamWrote, logging, pipe
<1>2. /\ CallsWrite /\ werr = Nil /\ n \in 0 .. Len(Outgoing) /\ n \in Nat /\ err \in {Nil, Broken}
      /\ wbuf \in Bytes /\ wp \in Bytes /\ log \in Bytes /\ sent \in Bytes
      /\ Len(wbuf) \in Nat /\ Len(wbuf) <= WSize /\ sent \o Skip(wbuf \o wp, n) = log
  <2>1. /\ CallsWrite /\ werr = Nil /\ n \in Nat /\ n <= Len(Outgoing) /\ err \in {Nil, Broken}
        /\ wbuf \in Bytes /\ wp \in Bytes /\ log \in Bytes /\ sent \in Bytes /\ Len(wbuf) <= WSize
    BY <1>1 DEF WriterStages
  <2>2. Len(wbuf) \in Nat /\ Len(wp) \in Nat
    BY <2>1, NoBytes
  <2>3. Len(Outgoing) \in Nat
    BY <2>2 DEF Outgoing
  <2>4. sent \o Skip(wbuf \o wp, n) = log
    BY <2>1, KeptIs
  <2> QED
    BY <2>1, <2>2, <2>3, <2>4
<1>3. answer'.n = 0 /\ answer' \in [n : Nat, err : {Nil, Broken}]
  BY <1>1
<1> HIDE DEF n, err
<1>4. WriterStages' /\ Kept'
  <2>1. CASE WroteDirect(n, err)
    <3>1. wpc = "direct" /\ wpc' = "loop" /\ wp' = Skip(wp, n) /\ werr' = err /\ wbuf' = wbuf
      BY <2>1 DEF WroteDirect
    <3>2. wbuf = <<>> /\ n \in 0 .. Len(wp)
      BY <1>2, <3>1 DEF WriterStages, Outgoing
    <3>3. Skip(wp, n) \in Bytes /\ wbuf \o wp = wp /\ wbuf \o Skip(wp, n) = Skip(wp, n) /\ sent \o wbuf = sent
      BY <1>2, <3>2, CutBytes, NoBytes
    <3>4. WriterStages'
      BY <1>1, <1>2, <1>3, <3>1, <3>2, <3>3 DEF WriterStages, CallsWrite
    <3>5. Kept'
      BY <1>1, <1>2, <3>1, <3>3 DEF Kept
    <3> QED
      BY <3>4, <3>5
  <2>2. CASE Flushed(n, err)
    <3> DEFINE e == IF n < Len(wbuf) /\ err = Nil THEN ErrShortWrite ELSE err
    <3>1. /\ wpc \in {"flush", "flushOnly"} /\ wpc' = IF wpc = "flush" THEN "loop" ELSE "done"
          /\ wbuf' = IF e = Nil THEN <<>> ELSE Skip(wbuf, n)
          /\ werr' = e /\ wp' = wp
      BY <2>2 DEF Flushed, Unsent
    <3>2. n \in 0 .. Len(wbuf) /\ e \in {Nil, ErrShortWrite, Broken}
      BY <1>2, <3>1 DEF Outgoing
    <3>3. e = Nil => n = Len(wbuf)
      BY <1>2, <3>2, Errors
    <3> HIDE DEF e
    <3>4. /\ Skip(wbuf, n) \in Bytes /\ Len(Skip(wbuf, n)) = Len(wbuf) - n
          /\ Skip(wbuf \o wp, n) = Skip(wbuf, n) \o wp /\ Skip(wbuf, Len(wbuf)) = <<>>
      <4>1. Skip(wbuf, n) \in Bytes /\ Len(Skip(wbuf, n)) = Len(wbuf) - n
        BY <1>2, <3>2, CutBytes
      <4>2. Skip(wbuf \o wp, n) = Skip(wbuf, n) \o wp
        BY <1>2, <3>2, CutFirst
      <4>3. Skip(wbuf, Len(wbuf)) = <<>>
        BY <1>2, CutAtEnds
      <4> QED
        BY <4>1, <4>2, <4>3
    <3>5. wbuf' = Skip(wbuf, n)
      BY <3>1, <3>3, <3>4
    <3>6. Len(wbuf') <= WSize
      BY <1>2, <3>2, <3>4, <3>5, BufioAssumption
    <3>7. WriterStages'
      <4>1. wpc = "flushOnly" => wp = <<>>
        BY DEF WriterStages
      <4> QED
        BY <1>1, <1>2, <1>3, <3>1, <3>2, <3>4, <3>5, <3>6, <4>1 DEF WriterStages, CallsWrite
    <3>8. (sent \o Skip(wbuf, n)) \o wp = log /\ sent \o (Skip(wbuf, n) \o wp) = log
      <4>1. (sent \o Skip(wbuf, n)) \o wp = sent \o (Skip(wbuf, n) \o wp)
        <5>1. sent \in Bytes /\ Skip(wbuf, n) \in Bytes /\ wp \in Bytes
          BY <1>2, <3>4
        <5> QED
          BY <5>1, JoinThree, Zenon
      <4> QED
        BY <1>2, <3>4, <4>1
    <3>9. Kept'
      BY <1>1, <1>2, <3>1, <3>5, <3>8 DEF Kept
    <3> QED
      BY <3>7, <3>9
  <2> QED
    BY <1>1, <2>1, <2>2
<1>5. (answer.n = 0 => (WriterRight <=> Kept))'
  BY <1>4, KeptIs, PTL
<1> QED
  BY <1>3, <1>4, <1>5

\* Flush begins, or an operation of the Writer is over.
LEMMA WriterRestKeeps ==
  ASSUME WriterStages, WriterRight, Flush \/ WriterReturns, UNCHANGED <<log, sent, pipepc, answer>>
  PROVE  WriterStages' /\ WriterRight'
<1>1. wpc \in {"idle", "done"} /\ UNCHANGED <<wbuf, werr>>
  BY DEF Flush, WriterReturns
<1>2. answer.n = 0 /\ pipepc = "idle" /\ Kept
  BY <1>1, KeptIs DEF WriterStages, CallsWrite
<1>3. /\ wp' = wp \/ (wp' = <<>> /\ wpc = "idle")
      /\ wpc' \in {"done", "idle"} \/ (wpc' = "flushOnly" /\ werr = Nil /\ wbuf # <<>> /\ wp' = <<>>)
  BY DEF Flush, WriterReturns
<1>4. wp' = wp \/ werr # Nil
  BY <1>1, <1>3 DEF WriterStages
<1>5. WriterStages'
  BY <1>1, <1>2, <1>3, <1>4, NoBytes DEF WriterStages, CallsWrite, Outgoing
<1>6. Kept'
  BY <1>1, <1>2, <1>4 DEF Kept
<1>7. (answer.n = 0 => (WriterRight <=> Kept))'
  BY <1>5, KeptIs, PTL
<1> QED
  BY <1>2, <1>5, <1>6, <1>7

\* No step loses a byte or gives it to the stream twice.
LEMMA WriterStep ==
  ASSUME PrintersRight, WriterStages, WriterRight, [StreamNext]_svars
  PROVE  WriterStages' /\ WriterRight'
<1>1. ASSUME UNCHANGED <<writer, log, sent, pipepc, answer>> PROVE WriterStages' /\ WriterRight'
  BY <1>1 DEF WriterStages, WriterRight, CallsWrite, Outgoing, writer
<1>2. ASSUME NEW t \in Task, TaskStep(t) PROVE WriterStages' /\ WriterRight'
  <2>1. UNCHANGED <<sent, pipepc, answer>>
    BY <1>2 DEF TaskStep, pipe
  <2>2. CASE OutputWrite(t)
    <3>1. Write(lbuf) /\ log' = log \o lbuf /\ lbuf \in Bytes
      BY <2>2 DEF OutputWrite, PrintersRight
    <3> QED
      BY <2>1, <3>1, WriteKeeps
  <2>3. CASE OutputReturns(t)
    <3>1. WriterReturns /\ log' = log
      BY <2>3 DEF OutputReturns
    <3> QED
      BY <2>1, <3>1, WriterRestKeeps
  <2>4. CASE ~OutputWrite(t) /\ ~OutputReturns(t)
    <3>1. UNCHANGED <<writer, log>>
      BY <1>2, <2>4 DEF TaskStep, LogStep, newPrinter, doPrint, BuilderWrite, free, OutputLock, OutputFormat, logging
    <3> QED
      BY <1>1, <2>1, <3>1
  <2> QED
    BY <2>2, <2>3, <2>4
<1>3. CASE Buffering
  BY <1>3, WriterCodeKeeps DEF Buffering, logging, pipe
<1>4. CASE PipeWrite \/ PipeNotify
  BY <1>4, PipeWriteKeeps, PipeNotifyKeeps
<1>5. CASE OwnerFlush \/ OwnerFlushed
  BY <1>5, WriterRestKeeps DEF OwnerFlush, OwnerFlushed, logging, pipe
<1>6. CASE OwnerClose \/ OwnerNotify
  BY <1>1, <1>6 DEF OwnerClose, OwnerNotify, logging, pipe
<1>7. CASE ReceiverStep \/ Receive(ReadZero)
  BY <1>1, <1>7 DEF ReceiverStep, Receive, PipeWait, PipeRead, PipeEOF, logging, pipe
<1>8. CASE UNCHANGED svars
  BY <1>1, <1>8 DEF svars, logging, pipe
<1> QED
  BY <1>2, <1>3, <1>4, <1>5, <1>6, <1>7, <1>8, Zenon DEF StreamNext, Owner

-----------------------------------------------------------------------------
(***************************************************************************)
(* The owner.                                                              *)
(***************************************************************************)
\* The pipe is closed only when the Writer is at rest for good.
LEMMA OwnerStep ==
  ASSUME PrintersRight, WriterStages, OwnerStages, [StreamNext]_svars
  PROVE  OwnerStages'
<1>1. ASSUME UNCHANGED <<tpc, opc, closed, wpc>> PROVE OwnerStages'
  BY <1>1 DEF OwnerStages
<1>2. ASSUME NEW t \in Task, TaskStep(t) PROVE OwnerStages'
  <2>1. tpc[t] # "done" /\ UNCHANGED <<opc, closed>>
    BY <1>2 DEF TaskStep, LogStep, newPrinter, doPrint, BuilderWrite, free, OutputLock, OutputFormat,
       OutputWrite, OutputReturns, pipe
  <2>2. opc = "logging"
    BY <2>1 DEF OwnerStages
  <2> QED
    BY <2>1, <2>2 DEF OwnerStages
<1>3. CASE Buffering \/ PipeNotify
  <2>1. wpc # "idle" /\ UNCHANGED <<tpc, opc, closed>>
    BY <1>3 DEF Buffering, WriterCode, WriteLarge, WriteFill, WriteEnd, Looping, PipeNotify,
       StreamWrote, WroteDirect, Flushed, pipe
  <2> QED
    BY <2>1 DEF OwnerStages
<1>4. CASE PipeWrite
  BY <1>1, <1>4 DEF PipeWrite, writer
<1>5. CASE Owner
  <2>1. CASE OwnerFlush
    BY <2>1 DEF OwnerFlush, OwnerStages, pipe
  <2>2. CASE OwnerFlushed
    BY <2>2 DEF OwnerFlushed, WriterReturns, OwnerStages, pipe
  <2>3. CASE OwnerClose
    BY <2>3 DEF OwnerClose, OwnerStages, writer
  <2>4. CASE OwnerNotify
    BY <2>4 DEF OwnerNotify, OwnerStages, writer, pipe
  <2> QED
    BY <1>5, <2>1, <2>2, <2>3, <2>4 DEF Owner
<1>6. CASE ReceiverStep \/ Receive(ReadZero)
  BY <1>1, <1>6 DEF ReceiverStep, Receive, PipeWait, PipeRead, PipeEOF, writer, pipe
<1>7. CASE UNCHANGED svars
  BY <1>1, <1>7 DEF svars, writer, pipe
<1> QED
  BY <1>2, <1>3, <1>4, <1>5, <1>6, <1>7, Zenon DEF StreamNext

\* After the pipe is closed nothing is written to it.
LEMMA NoneAfterClose == OwnerStages /\ PipeWrite => ~closed
BY DEF OwnerStages, PipeWrite, CallsWrite

-----------------------------------------------------------------------------
(***************************************************************************)
(* The Reader.                                                             *)
(***************************************************************************)
\* What the Reader's own steps need of the rest.
ReaderData ==
  /\ rbuf \in Bytes /\ got \in Bytes /\ sent \in Bytes
  /\ Len(rbuf) \in Nat /\ Len(rbuf) <= RSize /\ Len(sent) \in Nat /\ pos \in 0 .. Len(sent)
  /\ rk \in Nat /\ rerr \in {Nil, EOF} /\ gerr \in {Nil, EOF} /\ RSize \in Nat

\* It is what the invariants say.
LEMMA ReaderDataIs ==
  ASSUME WriterStages, ReaderStages PROVE ReaderData
BY NoBytes, BufioAssumption DEF WriterStages, ReaderStages, ReaderData

\* Read, when it does not ask the stream.
LEMMA ReadKeeps ==
  ASSUME WriterStages, ReaderStages, ReaderRight,
         ReadZero \/ \E k \in ReadSizes : Read(k),
         UNCHANGED <<sent, pos, closed, L>>
  PROVE  ReaderStages' /\ ReaderRight'
<1>1. ReaderData
  BY ReaderDataIs
<1> USE DEF ReaderData
<1>2. CASE ReadZero \/ ReadErr
  <2>1. /\ rpc' = "idle" /\ got' = got \o <<>> /\ rbuf' = rbuf /\ rk' = rk
        /\ \/ gerr' = Nil /\ rerr' = rerr
           \/ rbuf = <<>> /\ gerr' = rerr /\ rerr' = Nil
    BY <1>2 DEF ReadZero, ReadErr, Returns
  <2>2. got' = got
    BY <1>1, <2>1, NoBytes
  <2>3. ReaderStages'
    BY <1>1, <2>1, <2>2, Errors DEF ReaderStages, CallsRead
  <2>4. rbuf = <<>> /\ rerr = EOF => got = sent
    <3>1. ASSUME rbuf = <<>>, rerr = EOF PROVE got = sent
      <4>1. got = First(sent, Len(sent))
        BY <1>1, <3>1, NoBytes DEF ReaderRight
      <4> QED
        BY <1>1, <4>1, CutAtEnds
    <3> QED
      BY <3>1
  <2>5. ReaderRight'
    BY <1>1, <2>1, <2>2, <2>4, Errors DEF ReaderRight
  <2> QED
    BY <2>3, <2>5
<1>3. ASSUME NEW k \in ReadSizes, ReadBuffered(k) PROVE ReaderStages' /\ ReaderRight'
  <2> DEFINE n == Least(k, Len(rbuf))
  <2>1. /\ rpc' = "idle" /\ got' = got \o First(rbuf, n) /\ rbuf' = Skip(rbuf, n)
        /\ gerr' = Nil /\ rerr' = rerr /\ rk' = rk
    BY <1>3 DEF ReadBuffered, Returns
  <2>2. n \in 0 .. Len(rbuf)
    BY <1>1, BufioAssumption DEF Least
  <2> HIDE DEF n
  <2>3. /\ First(rbuf, n) \in Bytes /\ Skip(rbuf, n) \in Bytes /\ Len(Skip(rbuf, n)) = Len(rbuf) - n
        /\ First(rbuf, n) \o Skip(rbuf, n) = rbuf
    BY <1>1, <2>2, CutBytes
  <2>4. got' \in Bytes /\ got' \o rbuf' = got \o rbuf
    <3>1. (got \o First(rbuf, n)) \o Skip(rbuf, n) = got \o (First(rbuf, n) \o Skip(rbuf, n))
      <4>1. got \in Bytes /\ First(rbuf, n) \in Bytes /\ Skip(rbuf, n) \in Bytes
        BY <1>1, <2>3
      <4> QED
        BY <4>1, JoinThree, Zenon
    <3>2. got \o First(rbuf, n) \in Bytes
      BY <1>1, <2>3, JoinBytes
    <3> QED
      BY <2>1, <2>3, <3>1, <3>2
  <2>5. ReaderStages'
    BY <1>1, <2>1, <2>2, <2>3, <2>4, Errors DEF ReaderStages, CallsRead
  <2>6. ReaderRight'
    BY <1>1, <2>1, <2>4, Errors DEF ReaderRight
  <2> QED
    BY <2>5, <2>6
<1>4. ASSUME NEW k \in ReadSizes, ReadMore(k) PROVE ReaderStages' /\ ReaderRight'
  BY <1>1, <1>4, BufioAssumption DEF ReadMore, ReaderStages, ReaderRight, CallsRead
<1> QED
  BY <1>2, <1>3, <1>4 DEF Read

\* The stream's answer: the next bytes of the pipe, and EOF only with the last.
LEMMA AnswerKeeps ==
  ASSUME WriterStages, ReaderStages, ReaderRight, NEW n \in Nat, NEW err \in {Nil, EOF},
         n <= InPipe, rpc = "fill" => n <= RSize, err = EOF => closed /\ n = InPipe,
         StreamRead(SubSeq(sent, pos + 1, pos + n), err),
         pos' = pos + n, UNCHANGED <<sent, closed>>, L' \in {NoOne, "receiver"}
  PROVE  ReaderStages' /\ ReaderRight'
<1> DEFINE data == SubSeq(sent, pos + 1, pos + n)
<1>1. ReaderData /\ CallsRead /\ rbuf = <<>> /\ rerr = Nil /\ n \in 0 .. Len(sent) - pos
  BY ReaderDataIs DEF StreamRead, ReadDirect, Filled, CallsRead, ReaderStages, InPipe, ReaderData
<1> USE DEF ReaderData
<1>2. data \in Bytes /\ Len(data) = n /\ First(sent, pos) \o data = First(sent, pos + n)
  BY <1>1, ReadOn
<1> HIDE DEF data
<1>3. pos' \in 0 .. Len(sent') /\ (err = EOF => closed' /\ pos' = Len(sent'))
  BY <1>1 DEF InPipe
<1>4. got \o data = First(sent', pos') /\ got \o data \in Bytes
  <2>1. got = First(sent, pos)
    BY <1>1, NoBytes DEF ReaderRight
  <2> QED
    BY <1>1, <1>2, <2>1, JoinBytes
<1>5. err = EOF => got \o data = sent'
  BY <1>1, <1>3, <1>4, CutAtEnds
<1>6. CASE ReadDirect(data, err)
  <2>1. rpc' = "idle" /\ got' = got \o data /\ gerr' = err /\ UNCHANGED <<rbuf, rerr, rk>>
    BY <1>6 DEF ReadDirect, Returns
  <2>2. ReaderStages'
    BY <1>1, <1>3, <1>4, <2>1 DEF ReaderStages, CallsRead
  <2>3. got' \o rbuf' = got \o data
    BY <1>1, <1>4, <2>1, NoBytes
  <2> QED
    BY <1>1, <1>3, <1>4, <1>5, <2>1, <2>2, <2>3, Errors DEF ReaderRight
<1>7. CASE Filled(data, err) /\ data = <<>>
  <2>1. rpc' = "idle" /\ got' = got \o data /\ gerr' = err /\ UNCHANGED <<rbuf, rerr, rk>>
    BY <1>7 DEF Filled, Returns
  <2>2. ReaderStages'
    BY <1>1, <1>3, <1>4, <2>1 DEF ReaderStages, CallsRead
  <2>3. got' \o rbuf' = got \o data
    BY <1>1, <1>4, <2>1, NoBytes
  <2> QED
    BY <1>1, <1>3, <1>4, <1>5, <2>1, <2>2, <2>3, Errors DEF ReaderRight
<1>8. CASE Filled(data, err) /\ data # <<>>
  <2> DEFINE m == Least(rk, Len(data))
  <2>1. /\ rpc = "fill" /\ rpc' = "idle" /\ got' = got \o First(data, m) /\ rbuf' = Skip(data, m)
        /\ gerr' = Nil /\ rerr' = err /\ rk' = rk
    BY <1>8 DEF Filled, Returns
  <2>2. m \in 0 .. Len(data)
    BY <1>1, <1>2 DEF Least
  <2> HIDE DEF m
  <2>3. /\ First(data, m) \in Bytes /\ Skip(data, m) \in Bytes /\ Len(Skip(data, m)) = Len(data) - m
        /\ First(data, m) \o Skip(data, m) = data
    BY <1>2, <2>2, CutBytes
  <2>4. got' \in Bytes /\ got' \o rbuf' = got \o data
    <3>1. (got \o First(data, m)) \o Skip(data, m) = got \o (First(data, m) \o Skip(data, m))
      <4>1. got \in Bytes /\ First(data, m) \in Bytes /\ Skip(data, m) \in Bytes
        BY <1>1, <2>3
      <4> QED
        BY <4>1, JoinThree, Zenon
    <3>2. got \o First(data, m) \in Bytes
      BY <1>1, <2>3, JoinBytes
    <3> QED
      BY <2>1, <2>3, <3>1, <3>2
  <2>5. Len(rbuf') <= RSize
    BY <1>1, <1>2, <2>1, <2>2, <2>3
  <2>6. ReaderStages'
    BY <1>1, <1>3, <2>1, <2>3, <2>4, <2>5 DEF ReaderStages, CallsRead
  <2> QED
    BY <1>3, <1>4, <2>1, <2>4, <2>6, Errors DEF ReaderRight
<1> QED
  BY <1>6, <1>7, <1>8 DEF StreamRead, data

\* What the pipe takes comes after what it has.
LEMMA PipeTakes ==
  ASSUME WriterStages, PipeWrite PROVE \E c \in Bytes : sent' = sent \o c
<1>1. Outgoing \in Bytes /\ Outgoing # <<>>
  BY DEF PipeWrite, WriterStages, Outgoing
<1>2. Len(Outgoing) \in Nat \ {0}
  BY <1>1, NoBytes
<1>3. PICK a \in Answers(Len(Outgoing)) : sent' = sent \o First(Outgoing, a.n)
  BY DEF PipeWrite
<1>4. a.n \in 0 .. Len(Outgoing)
  BY <1>2, AnswersFit
<1>5. First(Outgoing, a.n) \in Bytes
  BY <1>1, <1>4, CutBytes
<1> QED
  BY <1>3, <1>5

\* No step of the Reader loses or repeats a byte of the pipe, and none of the
\* others disturbs it.
LEMMA ReaderStep ==
  ASSUME WriterStages, WriterStages', OwnerStages, ReaderStages, ReaderRight, [StreamNext]_svars
  PROVE  ReaderStages' /\ ReaderRight'
<1>1. ASSUME UNCHANGED <<reader, sent, pos, closed>>, L' \in {NoOne, "receiver"}
      PROVE  ReaderStages' /\ ReaderRight'
  BY <1>1 DEF ReaderStages, ReaderRight, CallsRead, reader
<1>2. L \in {NoOne, "receiver"}
  BY DEF ReaderStages
<1>3. ASSUME NEW t \in Task, TaskStep(t) PROVE ReaderStages' /\ ReaderRight'
  <2>1. UNCHANGED <<reader, pipe, L>>
    BY <1>3 DEF TaskStep, LogStep, newPrinter, doPrint, BuilderWrite, free, OutputLock, OutputFormat,
       OutputWrite, OutputReturns, condition
  <2> QED
    BY <1>1, <1>2, <2>1 DEF pipe
<1>4. CASE Buffering \/ PipeNotify \/ OwnerFlush \/ OwnerFlushed \/ OwnerNotify
  <2>1. UNCHANGED <<reader, pipe, L>>
    BY <1>4 DEF Buffering, PipeNotify, OwnerFlush, OwnerFlushed, OwnerNotify, condition
  <2> QED
    BY <1>1, <1>2, <2>1 DEF pipe
<1>5. CASE UNCHANGED svars
  BY <1>1, <1>2, <1>5 DEF svars, pipe, condition
<1>6. CASE OwnerClose
  <2>1. UNCHANGED <<reader, sent, pos, L>> /\ closed' = TRUE
    BY <1>6 DEF OwnerClose, condition
  <2> QED
    BY <1>2, <2>1 DEF ReaderStages, ReaderRight, CallsRead, reader
<1>7. CASE PipeWrite
  <2>1. PICK c \in Bytes : sent' = sent \o c
    BY <1>7, PipeTakes
  <2>2. ~closed /\ UNCHANGED <<reader, pos, closed, L>>
    BY <1>7, NoneAfterClose DEF PipeWrite, condition
  <2>3. /\ First(sent', pos) = First(sent, pos) /\ Len(sent') \in Nat /\ Len(sent) <= Len(sent')
        /\ Len(sent) \in Nat
    <3>1. sent \in Bytes /\ Len(sent) \in Nat /\ Len(c) \in Nat /\ pos \in 0 .. Len(sent)
      BY NoBytes DEF WriterStages, ReaderStages
    <3>2. First(sent \o c, pos) = First(sent, pos)
      BY <3>1, CutFirst
    <3>3. Len(sent \o c) = Len(sent) + Len(c)
      BY <3>1, JoinBytes
    <3> QED
      BY <2>1, <3>1, <3>2, <3>3
  <2> QED
    BY <1>2, <2>2, <2>3, Errors DEF ReaderStages, ReaderRight, CallsRead, reader
<1>8. CASE Receive(ReadZero) \/ \E k \in ReadSizes : Receive(Read(k))
  <2>1. ReadZero \/ \E k \in ReadSizes : Read(k)
    BY <1>8 DEF Receive
  <2>2. UNCHANGED <<sent, pos, closed, L>>
    BY <1>8 DEF Receive, pipe, condition
  <2> QED
    BY <2>1, <2>2, ReadKeeps
<1>9. CASE PipeWait \/ (WaitStep("receiver") /\ UNCHANGED <<writer, reader, tpc, printing, logging, pipe, pipepc, answer, opc>>)
  <2>1. UNCHANGED <<reader, pipe>>
    BY <1>9 DEF PipeWait
  <2>2. L' \in {NoOne, "receiver"}
    BY <1>2, <1>9 DEF PipeWait, WaitStep, notifyListAdd, WaitUnlock, notifyListWait, WaitLock
  <2> QED
    BY <1>1, <2>1, <2>2 DEF pipe
<1>10. CASE PipeRead
  <2>1. PICK n \in {1, Least(Room, InPipe)} :
          /\ pos' = pos + n
          /\ \/ StreamRead(SubSeq(sent, pos + 1, pos + n), Nil)
             \/ closed /\ n = InPipe /\ StreamRead(SubSeq(sent, pos + 1, pos + n), EOF)
    BY <1>10 DEF PipeRead
  <2>2. CallsRead /\ InPipe > 0 /\ L' = NoOne /\ UNCHANGED <<sent, closed>>
    BY <1>10 DEF PipeRead, PipeLocked
  <2>3. ReaderData /\ InPipe \in Nat /\ Room \in Nat /\ RSize \in Nat \ {0}
    BY ReaderDataIs, BufioAssumption DEF ReaderData, InPipe, Room
  <2>4. n \in Nat /\ n <= InPipe /\ (rpc = "fill" => n <= RSize)
    BY <2>1, <2>2, <2>3 DEF Least, Room
  <2>5. UNCHANGED <<sent, closed>> /\ L' \in {NoOne, "receiver"} /\ pos' = pos + n
    BY <2>1, <2>2
  <2>6. CASE StreamRead(SubSeq(sent, pos + 1, pos + n), Nil)
    <3>1. Nil = EOF => closed /\ n = InPipe
      BY Errors
    <3>2. Nil \in {Nil, EOF}
      OBVIOUS
    <3> QED
      BY <2>4, <2>5, <2>6, <3>1, <3>2, AnswerKeeps
  <2>7. CASE closed /\ n = InPipe /\ StreamRead(SubSeq(sent, pos + 1, pos + n), EOF)
    <3>1. EOF \in {Nil, EOF}
      OBVIOUS
    <3> QED
      BY <2>4, <2>5, <2>7, <3>1, AnswerKeeps
  <2> QED
    BY <2>1, <2>6, <2>7
<1>11. CASE PipeEOF
  <2>1. /\ InPipe = 0 /\ closed /\ StreamRead(<<>>, EOF) /\ L' = NoOne /\ UNCHANGED <<sent, pos, closed>>
    BY <1>11 DEF PipeEOF, pipe
  <2>2. ReaderData
    BY ReaderDataIs
  <2>n. PICK n \in Nat : n = 0
    OBVIOUS
  <2>3. SubSeq(sent, pos + 1, pos + n) = <<>> /\ pos' = pos + n
    BY <2>n, <2>1, <2>2, SubSeqEmpty DEF ReaderData
  <2>4. n <= InPipe /\ (rpc = "fill" => n <= RSize) /\ closed /\ n = InPipe
    BY <2>n, <2>1, <2>2 DEF ReaderData
  <2>5. StreamRead(SubSeq(sent, pos + 1, pos + n), EOF) /\ UNCHANGED <<sent, closed>> /\ L' = NoOne
    BY <2>1, <2>3
  <2>6. pos' = pos + n
    BY <2>3
  <2> QED
    BY <2>n, <2>4, <2>5, <2>6, AnswerKeeps
<1> QED
  BY <1>3, <1>4, <1>5, <1>6, <1>7, <1>8, <1>9, <1>10, <1>11, Zenon DEF StreamNext, ReceiverStep, Owner


-----------------------------------------------------------------------------
(***************************************************************************)
(* The theorems.                                                           *)
(***************************************************************************)
\* The inductive invariant holds at first, and every step keeps it.
LEMMA InitStreamIInv == StreamInit => StreamIInv
<1> SUFFICES ASSUME StreamInit PROVE StreamIInv
  OBVIOUS
<1> USE DEF StreamInit, LInit, BInit, CondInit
<1>1. PrintersRight
  BY NoBytes DEF PrintersRight, TaskAt, InUse
<1>2. OwnerStages /\ LinesRight
  BY DEF OwnerStages, LinesRight
<1>3. WriterStages /\ WriterRight
  <2>1. WriterStages
    BY NoBytes, BufioAssumption DEF WriterStages, CallsWrite
  <2>2. Kept
    BY NoBytes DEF Kept
  <2> QED
    BY <2>1, <2>2, KeptIs
<1>4. ReaderStages /\ ReaderRight
  <2>1. ReaderStages
    BY NoBytes, BufioAssumption DEF ReaderStages, CallsRead
  <2>2. First(sent, pos) = <<>>
    BY NoBytes, CutAtEnds
  <2> QED
    BY <2>1, <2>2, NoBytes, Errors DEF ReaderRight
<1> QED
  BY <1>1, <1>2, <1>3, <1>4 DEF StreamIInv

LEMMA StreamIInvNext == StreamIInv /\ [StreamNext]_svars => StreamIInv'
<1> SUFFICES ASSUME StreamIInv, [StreamNext]_svars PROVE StreamIInv'
  OBVIOUS
<1>1. PrintersRight /\ LinesRight /\ OwnerStages /\ WriterStages /\ WriterRight /\ ReaderStages /\ ReaderRight
  BY DEF StreamIInv
<1>2. PrintersRight'
  BY <1>1, PrintersStep
<1>6. LinesRight'
  BY <1>1, LinesStep
<1>3. WriterStages' /\ WriterRight'
  BY <1>1, WriterStep
<1>4. OwnerStages'
  BY <1>1, OwnerStep
<1>5. ReaderStages' /\ ReaderRight'
  BY <1>1, <1>3, ReaderStep
<1> QED
  BY <1>2, <1>3, <1>4, <1>5, <1>6 DEF StreamIInv

LEMMA StreamInvariance == StreamSpec => []StreamIInv
  BY InitStreamIInv, StreamIInvNext, PTL DEF StreamSpec

\* What is written arrives: whatever the pipe takes of what it is asked to take and
\* gives of what it has, the Writer keeps the order of the bytes and neither loses
\* nor repeats one, the Reader returns those of the pipe in their order, and EOF
\* only after the last (bufio_writer.go, bufio_reader.go).
THEOREM StreamRight == StreamSpec => []StreamInv
<1>1. StreamIInv => StreamInv
  BY DEF StreamIInv, StreamInv, StreamTypeOK, PrintersRight, WriterStages, ReaderStages
<1> QED
  BY <1>1, StreamInvariance, PTL

\* A Writer that has failed keeps its error and its buffer and gives the pipe
\* nothing more (bufio_writer.go:6-7).
THEOREM ErrorsAlwaysStick == StreamSpec => ErrorsStick
<1>1. ASSUME StreamIInv, [StreamNext]_svars, werr # Nil
      PROVE  werr' = werr /\ wbuf' = wbuf /\ sent' = sent
  <2>1. WriterStages /\ ~CallsWrite
    BY <1>1 DEF StreamIInv, WriterStages
  <2>2. ASSUME NEW t \in Task, TaskStep(t) PROVE werr' = werr /\ wbuf' = wbuf /\ sent' = sent
    BY <2>2 DEF TaskStep, LogStep, newPrinter, doPrint, BuilderWrite, free, OutputLock, OutputFormat,
       OutputWrite, OutputReturns, Write, WriterReturns, writer, pipe
  <2>3. CASE Buffering
    BY <1>1, <2>3 DEF Buffering, WriterCode, WriteLarge, WriteFill, WriteEnd, Looping, Accepts, pipe
  <2>4. CASE PipeWrite \/ PipeNotify
    BY <2>1, <2>4 DEF PipeWrite, PipeNotify, WriterStages
  <2>5. CASE Owner
    BY <2>5 DEF Owner, OwnerFlush, OwnerFlushed, OwnerClose, OwnerNotify, Flush, WriterReturns, writer, pipe
  <2>6. CASE ReceiverStep \/ Receive(ReadZero)
    BY <2>6 DEF ReceiverStep, Receive, PipeWait, PipeRead, PipeEOF, writer, pipe
  <2>7. CASE UNCHANGED svars
    BY <2>7 DEF svars, writer, pipe
  <2> QED
    BY <1>1, <2>2, <2>3, <2>4, <2>5, <2>6, <2>7, Zenon DEF StreamNext
<1>2. StreamIInv /\ [StreamNext]_svars => [werr # Nil => werr' = werr /\ wbuf' = wbuf /\ sent' = sent]_svars
  BY <1>1
<1> QED
  BY <1>2, StreamInvariance, PTL DEF StreamSpec, ErrorsStick

\* The Writer is given whole lines, each by the task whose it is: no two goroutines
\* ever share a printer or the Logger's buffer (print.go:31-42, log.go:29-37).
THEOREM WholeLines == StreamSpec => LinesGoWhole
<1>1. ASSUME StreamIInv, [StreamNext]_svars, log' # log
      PROVE  \E t \in Task : tpc[t] = "write" /\ tpc'[t] = "writing" /\ log' = log \o Line(t)
  <2>1. LinesRight /\ tpc \in [Task -> TaskAt]
    BY <1>1 DEF StreamIInv, PrintersRight
  <2>2. \E t \in Task : TaskStep(t)
    BY <1>1 DEF StreamNext, Buffering, PipeWrite, PipeNotify, ReceiverStep, Receive, PipeWait, PipeRead, PipeEOF,
       Owner, OwnerFlush, OwnerFlushed, OwnerClose, OwnerNotify, svars, logging
  <2>3. PICK t \in Task : TaskStep(t)
    BY <2>2
  <2>4. OutputWrite(t)
    BY <1>1, <2>3 DEF TaskStep, LogStep, newPrinter, doPrint, BuilderWrite, free, OutputLock, OutputFormat,
       OutputReturns, logging
  <2>5. lbuf = Line(t) /\ log' = log \o lbuf /\ tpc[t] = "write" /\ tpc'[t] = "writing"
    BY <2>1, <2>4 DEF OutputWrite, LGoto, LinesRight
  <2> QED
    BY <2>5
<1>2. StreamIInv /\ [StreamNext]_svars => [log' # log => \E t \in Task : WritesWholeLine(t)]_svars
  BY <1>1 DEF WritesWholeLine
<1> QED
  BY <1>2, StreamInvariance, PTL DEF StreamSpec, LinesGoWhole

=============================================================================
