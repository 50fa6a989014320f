-------------------------- MODULE PoolDequeueProofs --------------------------
(***************************************************************************)
(* The poolDequeue is right for any number of consumers, any items, any    *)
(* size of the ring and any width of the indexes: slots are handed over,   *)
(* no item is lost or taken twice, and it is a double-ended queue.         *)
(***************************************************************************)
EXTENDS PoolDequeue, FiniteSetTheorems, SequenceTheorems, TLAPS

-----------------------------------------------------------------------------
(***************************************************************************)
(* Remainders.                                                             *)
(***************************************************************************)
LEMMA Division ==
  ASSUME NEW n \in Nat \ {0}, NEW a \in Int
  PROVE  \E q \in Int, r \in 0 .. n - 1 : a = q * n + r /\ a % n = r
BY SMTT(30)

\* A remainder is the only one in its range.
LEMMA RemainderIs ==
  ASSUME NEW n \in Nat \ {0}, NEW q \in Int, NEW r \in 0 .. n - 1
  PROVE  (q * n + r) % n = r
BY SMTT(30)

LEMMA Remainders ==
  ASSUME NEW n \in Nat \ {0}, NEW a \in Int
  PROVE  /\ a % n \in 0 .. n - 1
         /\ a \in 0 .. n - 1 => a % n = a
         /\ a \in n .. 2 * n - 1 => a % n = a - n
         /\ a \in -n .. -1 => a % n = a + n
<1>1. a % n \in 0 .. n - 1
  BY Division
<1>2. ASSUME NEW r \in 0 .. n - 1 PROVE r % n = r /\ (n + r) % n = r /\ (r - n) % n = r
  <2>1. (0 * n + r) % n = r /\ (1 * n + r) % n = r /\ (-1 * n + r) % n = r
    BY RemainderIs
  <2>2. 0 * n + r = r /\ 1 * n + r = n + r /\ -1 * n + r = r - n
    OBVIOUS
  <2> QED
    BY <2>1, <2>2
<1>3. ASSUME a \in n .. 2 * n - 1 PROVE a % n = a - n
  <2>1. PICK r \in 0 .. n - 1 : r = a - n
    BY <1>3
  <2>2. a = n + r
    BY <2>1
  <2> QED
    BY <1>2, <2>1, <2>2
<1>4. ASSUME a \in -n .. -1 PROVE a % n = a + n
  <2>1. PICK r \in 0 .. n - 1 : r = a + n
    BY <1>4
  <2>2. a = r - n
    BY <2>1
  <2> QED
    BY <1>2, <2>1, <2>2
<1> QED
  BY <1>1, <1>2, <1>3, <1>4

\* A multiple of n does not change it.
LEMMA Multiples ==
  ASSUME NEW n \in Nat \ {0}, NEW a \in Int, NEW j \in Int
  PROVE  (a + j * n) % n = a % n
<1>1. PICK q \in Int, r \in 0 .. n - 1 : a = q * n + r /\ a % n = r
  BY Division
<1>2. PICK p \in Int : p = q + j
  OBVIOUS
<1>3. a + j * n = p * n + r
  BY <1>1, <1>2
<1> QED
  BY <1>1, <1>3, RemainderIs

\* Numbers less than n apart have different ones.
LEMMA Neighbours ==
  ASSUME NEW n \in Nat \ {0}, NEW a \in Int, NEW b \in Int,
         a % n = b % n, a - b < n, b - a < n
  PROVE  a = b
<1>1. PICK q \in Int, r \in 0 .. n - 1 : a = q * n + r /\ a % n = r
  BY Division
<1>2. PICK p \in Int, t \in 0 .. n - 1 : b = p * n + t /\ b % n = t
  BY Division
<1>3. PICK d \in Int : d = q - p
  OBVIOUS
<1>4. a - b = d * n
  BY <1>1, <1>2, <1>3
<1>5. d < 1 /\ -1 < d
  BY <1>4
<1>6. d = 0
  BY <1>5
<1> QED
  BY <1>4, <1>6

-----------------------------------------------------------------------------
(***************************************************************************)
(* Indexes.                                                                *)
(***************************************************************************)
Indexes == 2 ^ Bits

\* The ring takes at most half of the indexes, and they go round with it.
LEMMA Sizes ==
  /\ Indexes \in Nat \ {0} /\ Size \in Nat \ {0} /\ 2 * Size <= Indexes
  /\ Index = 0 .. Indexes - 1 /\ Slot = 0 .. Size - 1
  /\ \E j \in Int : Indexes = j * Size
<1>1. PICK m \in Int : m = 2 ^ Bits
  BY DequeueAssumption
<1>2. Size \in Int /\ 1 <= Size /\ Size <= m \div 4 /\ m % Size = 0
  BY <1>1, DequeueAssumption DEF Limit
<1>3. Size \in Nat \ {0} /\ 2 * Size <= m /\ m \in Nat \ {0}
  BY <1>2
<1>4. PICK q \in Int, r \in 0 .. Size - 1 : m = q * Size + r /\ m % Size = r
  BY <1>3, Division
<1>5. m = q * Size
  BY <1>2, <1>3, <1>4
<1> QED
  BY <1>1, <1>3, <1>5 DEF Indexes, Index, Slot

LEMMA Wraps ==
  ASSUME NEW a \in Int
  PROVE  /\ Wrap(a) \in Index
         /\ a \in 0 .. Indexes - 1 => Wrap(a) = a
         /\ a \in Indexes .. 2 * Indexes - 1 => Wrap(a) = a - Indexes
         /\ a \in -Indexes .. -1 => Wrap(a) = a + Indexes
<1>1. PICK n \in Nat \ {0} : n = Indexes
  BY Sizes
<1>2. Wrap(a) = a % n
  BY <1>1 DEF Wrap, Indexes
<1>3. Index = 0 .. n - 1
  BY <1>1, Sizes
<1>4. /\ a % n \in 0 .. n - 1
      /\ a \in 0 .. n - 1 => a % n = a
      /\ a \in n .. 2 * n - 1 => a % n = a - n
      /\ a \in -n .. -1 => a % n = a + n
  BY Remainders
<1> QED
  BY <1>1, <1>2, <1>3, <1>4

\* Slots are found from indexes that have not been wrapped as well.
LEMMA Slots ==
  ASSUME NEW a \in Int
  PROVE  /\ At(a) \in Slot
         /\ a \in -Indexes .. 2 * Indexes - 1 => At(Wrap(a)) = At(a)
         /\ \A b \in Int : At(a) = At(b) /\ a - b < Size /\ b - a < Size => a = b
<1>1. PICK j \in Int : Indexes = j * Size
  BY Sizes
<1>2. PICK i \in Int : i = -j
  OBVIOUS
<1>3. a - Indexes = a + i * Size /\ a + Indexes = a + j * Size
  BY <1>1, <1>2, Sizes
<1>4. At(a - Indexes) = At(a) /\ At(a + Indexes) = At(a)
  <2>1. (a + i * Size) % Size = a % Size /\ (a + j * Size) % Size = a % Size
    BY Sizes, Multiples
  <2> QED
    BY <1>3, <2>1 DEF At
<1>5. a \in -Indexes .. 2 * Indexes - 1 => Wrap(a) \in {a, a - Indexes, a + Indexes}
  BY Wraps, Sizes
<1>6. At(a) \in Slot
  BY Sizes, Remainders DEF At
<1>7. \A b \in Int : At(a) = At(b) /\ a - b < Size /\ b - a < Size => a = b
  BY Sizes, Neighbours DEF At
<1> QED
  BY <1>4, <1>5, <1>6, <1>7

\* The number n of indexes from the tail t to the head h tells where the head is,
\* whether the ring is empty or full, and it moves with the two by one.
LEMMA Distances ==
  ASSUME NEW h \in Index, NEW t \in Index, NEW n, n = Wrap(h - t)
  PROVE  /\ n \in 0 .. Indexes - 1 /\ h = Wrap(t + n)
         /\ h = t <=> n = 0
         /\ n <= Size => (Wrap(t + Size) = h <=> n = Size)
         /\ n < Size => Wrap(Wrap(h + 1) - t) = n + 1
         /\ n > 0 => Wrap(Wrap(h - 1) - t) = n - 1
         /\ n > 0 => Wrap(h - Wrap(t + 1)) = n - 1
         /\ At(h) = At(t + n) /\ At(Wrap(h - 1)) = At(t + n - 1)
         /\ \A k \in Nat : k <= Indexes => At(Wrap(t + k)) = At(t + k)
         /\ \A k \in Nat : k < Indexes => At(Wrap(t + 1) + k) = At(t + 1 + k)
<1>1. /\ h \in Int /\ 0 <= h /\ h < Indexes /\ t \in Int /\ 0 <= t /\ t < Indexes
      /\ Indexes \in Int /\ Size \in Int /\ 0 < Size /\ 2 * Size <= Indexes
  BY Sizes
<1>2. (t <= h => n = h - t) /\ (h < t => n = h - t + Indexes) /\ n \in Int
  BY <1>1, Wraps
<1>3. n \in 0 .. Indexes - 1 /\ (h = t <=> n = 0)
  BY <1>1, <1>2
<1>4. ASSUME NEW k \in 0 .. Indexes
      PROVE  Wrap(t + k) = IF t + k < Indexes THEN t + k ELSE t + k - Indexes
  BY <1>1, Wraps
<1>5. h = Wrap(t + n)
  <2>1. Wrap(t + n) = IF t + n < Indexes THEN t + n ELSE t + n - Indexes
    BY <1>1, <1>3, <1>4
  <2> QED
    BY <1>1, <1>2, <1>3, <2>1
<1>6. n <= Size => (Wrap(t + Size) = h <=> n = Size)
  <2>1. Wrap(t + Size) = IF t + Size < Indexes THEN t + Size ELSE t + Size - Indexes
    BY <1>1, <1>4
  <2> QED
    BY <1>1, <1>2, <1>3, <2>1
<1>7. /\ Wrap(h + 1) = IF h + 1 < Indexes THEN h + 1 ELSE 0
      /\ Wrap(h - 1) = IF h = 0 THEN Indexes - 1 ELSE h - 1
      /\ Wrap(t + 1) = IF t + 1 < Indexes THEN t + 1 ELSE 0
  BY <1>1, Wraps
<1>8. n < Size => Wrap(Wrap(h + 1) - t) = n + 1
  BY <1>1, <1>2, <1>7, Wraps
<1>9. n > 0 => Wrap(Wrap(h - 1) - t) = n - 1
  BY <1>1, <1>2, <1>7, Wraps
<1>10. n > 0 => Wrap(h - Wrap(t + 1)) = n - 1
  BY <1>1, <1>2, <1>7, Wraps
<1>11. \A k \in Nat : k <= Indexes => At(Wrap(t + k)) = At(t + k)
  BY <1>1, Slots
<1>12. At(h) = At(t + n)
  BY <1>1, <1>3, <1>5, <1>11
<1>13. At(Wrap(h - 1)) = At(t + n - 1)
  <2>1. At(Wrap(h - 1)) = At(h - 1)
    BY <1>1, Slots
  <2>2. CASE t <= h
    <3>1. h - 1 = t + n - 1
      BY <1>1, <1>2, <2>2
    <3> QED
      BY <2>1, <3>1
  <2>3. CASE h < t
    <3>1. t + n - 1 \in 0 .. 2 * Indexes - 1 /\ t + n - 1 = h - 1 + Indexes
      BY <1>1, <1>2, <2>3
    <3>2. Wrap(t + n - 1) = Wrap(h - 1)
      BY <1>1, <1>7, <2>3, <3>1, Wraps
    <3>3. At(Wrap(t + n - 1)) = At(t + n - 1)
      BY <1>1, <3>1, Slots
    <3> QED
      BY <3>2, <3>3
  <2> QED
    BY <1>1, <2>2, <2>3
<1>14. ASSUME NEW k \in Nat, k < Indexes PROVE At(Wrap(t + 1) + k) = At(t + 1 + k)
  <2>1. CASE t + 1 < Indexes
    BY <1>7, <2>1
  <2>2. CASE t + 1 = Indexes
    <3>1. At(Wrap(t + 1 + k)) = At(t + 1 + k)
      BY <1>1, <1>14, <2>2, Slots
    <3>2. Wrap(t + 1 + k) = k /\ Wrap(t + 1) = 0
      BY <1>1, <1>7, <1>14, <2>2, Wraps
    <3> QED
      BY <3>1, <3>2
  <2> QED
    BY <1>1, <2>1, <2>2
<1> QED
  BY <1>3, <1>5, <1>6, <1>8, <1>9, <1>10, <1>11, <1>12, <1>13, <1>14

-----------------------------------------------------------------------------
(***************************************************************************)
(* The inductive invariant.                                                *)
(***************************************************************************)
Pushing == {"pushLoad", "pushTyp", "pushWrite", "pushAdd"}
Taking == {"tailTake", "clearVal", "clearTyp"}

\* What is in a slot.
Clear(s) == typ[s] = "nil" /\ val[s] = None
Stored(s, x) == typ[s] = TypOf(x) /\ val[s] = ValOf(x)
InUse(s) == \E x \in Item : Stored(s, x)

\* The slots from the tail to the head, and the one at the head that the producer
\* has to itself.
Ring(s) == \E k \in 0 .. Count - 1 : s = At(headTail.tail + k)
HeadAt == At(headTail.head)
HeadBusy == pc[Producer] \in {"pushAdd", "headTake"}

\* What the producer knows of headTail, which only it moves at the head, and of the
\* slot there, which only it fills.
ProducerRight ==
  /\ pc[Producer] \in Pushing \cup {"idle", "headLoad", "headCAS", "headTake"}
  /\ pc[Producer] \in Pushing => item[Producer] \in Item
  /\ pc[Producer] \notin Pushing => item[Producer] = None
  /\ pc[Producer] \in {"pushTyp", "pushWrite", "pushAdd", "headCAS"} =>
       ptrs[Producer].head = headTail.head
  /\ pc[Producer] \in {"pushTyp", "pushWrite", "pushAdd", "headTake"} => Count < Size
  /\ pc[Producer] = "headCAS" => ptrs[Producer].head # ptrs[Producer].tail
  /\ pc[Producer] = "headTake" => headTail.head = Wrap(ptrs[Producer].head - 1)
  /\ pc[Producer] = "pushWrite" => Clear(HeadAt)
  /\ pc[Producer] = "pushAdd" => Stored(HeadAt, item[Producer])
  /\ pc[Producer] = "headTake" => InUse(HeadAt)

\* A consumer that has moved the tail has the slot it passed, until it clears the
\* type word.
ConsumerRight(c) ==
  /\ pc[c] \in Taking \cup {"idle", "tailLoad", "tailCAS"}
  /\ pc[c] \in {"clearVal", "clearTyp"} => item[c] \in Item
  /\ pc[c] \notin {"clearVal", "clearTyp"} => item[c] = None
  /\ pc[c] = "tailCAS" => ptrs[c].head # ptrs[c].tail
  /\ pc[c] \in Taking => /\ ~Ring(TailSlot(c)) /\ typ[TailSlot(c)] # "nil"
                         /\ HeadBusy => TailSlot(c) # HeadAt
  /\ pc[c] = "tailTake" => InUse(TailSlot(c))
  /\ pc[c] = "clearTyp" => val[TailSlot(c)] = None

\* A slot has one owner.
Apart == \A c, d \in Consumer :
  pc[c] \in Taking /\ pc[d] \in Taking /\ TailSlot(c) = TailSlot(d) => c = d

\* A slot between tail and head is in use, one that nobody has is clear.
SlotRight(s) ==
  /\ Ring(s) => InUse(s)
  /\ \/ Ring(s)
     \/ HeadBusy /\ s = HeadAt
     \/ \E c \in Consumer : pc[c] \in Taking /\ s = TailSlot(c)
     \/ Clear(s)

Owners ==
  /\ TypeOK /\ NeverOverfull
  /\ ProducerRight /\ \A c \in Consumer : ConsumerRight(c)
  /\ Apart /\ \A s \in Slot : SlotRight(s)

\* The four places an item can be at.
Pushed == IF pc[Producer] \in Pushing THEN item[Producer] ELSE None
Elem(k) == Decode(At(headTail.tail + k))

Queued(x) == \E k \in 0 .. Count - 1 : Elem(k) = x
Held(x) == \E p \in Proc : Popped(p) = x

\* x is at one of them, once.
One(x) ==
  /\ x \in out => Pushed # x
  /\ (x \in out \/ Pushed = x) => /\ \A k \in 0 .. Count - 1 : Elem(k) # x
                                  /\ \A p \in Proc : Popped(p) # x
  /\ \A k \in 0 .. Count - 1 : Elem(k) = x =>
       /\ \A j \in 0 .. Count - 1 : Elem(j) = x => j = k
       /\ \A p \in Proc : Popped(p) # x
  /\ \A p, q \in Proc : Popped(p) = x /\ Popped(q) = x => p = q
  /\ x \in out \/ Pushed = x \/ Queued(x) \/ Held(x)

\* The inductive invariant: the items are where they are because the slots have
\* one owner each.
IInv == Owners /\ \A x \in Item : One(x)

-----------------------------------------------------------------------------
(***************************************************************************)
(* The ring when its ends move.                                            *)
(***************************************************************************)
LEMMA Ends ==
  ASSUME TypeOK
  PROVE  \E h \in Index, t \in Index, n \in Index :
           h = headTail.head /\ t = headTail.tail /\ n = Wrap(h - t)
<1>1. PICK h \in Index, t \in Index : h = headTail.head /\ t = headTail.tail
  BY DEF TypeOK
<1>2. h - t \in Int
  BY Sizes
<1> QED
  BY <1>1, <1>2, Wraps

LEMMA RingFacts ==
  ASSUME TypeOK, NeverOverfull
  PROVE  /\ headTail.head \in Index /\ headTail.tail \in Index /\ Count \in 0 .. Size
         /\ headTail.head \in Int /\ headTail.tail \in Int
         /\ HeadAt \in Slot /\ HeadAt = At(headTail.tail + Count)
         /\ Count < Size => ~Ring(HeadAt)
         /\ Empty(headTail) <=> Count = 0
         /\ Full(headTail) <=> Count = Size
<1>1. PICK h \in Index, t \in Index, n \in Index : h = headTail.head /\ t = headTail.tail /\ n = Wrap(h - t)
  BY Ends
<1>2. Count = n /\ Size \in Nat \ {0} /\ Index = 0 .. Indexes - 1 /\ Indexes \in Nat
  BY <1>1, Sizes DEF Count
<1>3. /\ n \in 0 .. Indexes - 1
      /\ h = t <=> n = 0
      /\ n <= Size => (Wrap(t + Size) = h <=> n = Size)
      /\ At(h) = At(t + n)
  BY <1>1, Distances
<1>4. n \in 0 .. Size
  BY <1>2, <1>3 DEF NeverOverfull
<1>5. h \in Int /\ t \in Int
  BY <1>2
<1>6. At(h) \in Slot
  BY <1>5, Slots
<1>7. ASSUME n < Size, NEW k \in 0 .. n - 1 PROVE At(t + n) # At(t + k)
  <2>1. PICK a \in Int, b \in Int : a = t + n /\ b = t + k
    BY <1>4, <1>5
  <2>2. a - b < Size /\ b - a < Size /\ a # b
    BY <1>2, <1>4, <1>5, <1>7, <2>1
  <2> QED
    BY <2>1, <2>2, Slots
<1> QED
  BY <1>1, <1>2, <1>3, <1>4, <1>5, <1>6, <1>7 DEF HeadAt, Ring, Empty, Full

\* The slots of a ring no longer than Size are different.
LEMMA RingApart ==
  ASSUME TypeOK, NeverOverfull, NEW k \in 0 .. Count - 1, NEW j \in 0 .. Count - 1,
         At(headTail.tail + k) = At(headTail.tail + j)
  PROVE  k = j
<1>1. PICK t \in Int, n \in 0 .. Size : t = headTail.tail /\ n = Count
  BY RingFacts
<1> Size \in Int /\ k \in 0 .. n - 1 /\ j \in 0 .. n - 1
  BY <1>1, Sizes
<1>2. PICK a \in Int, b \in Int : a = t + k /\ b = t + j
  BY <1>1
<1>3. a - b < Size /\ b - a < Size
  BY <1>1, <1>2
<1>4. a = b
  BY <1>1, <1>2, <1>3, Slots
<1> QED
  BY <1>1, <1>2, <1>4

\* A step that leaves the ring alone.
RingStays ==
  /\ Count' = Count /\ HeadAt' = HeadAt
  /\ \A s : (Ring(s)' <=> Ring(s)) /\ Decode(s)' = Decode(s)
  /\ \A s : (Clear(s)' <=> Clear(s)) /\ (InUse(s)' <=> InUse(s))
  /\ \A s, x : Stored(s, x)' <=> Stored(s, x)
  /\ \A k : Elem(k)' = Elem(k)

LEMMA RingStill ==
  ASSUME UNCHANGED <<headTail, typ, val>>
  PROVE  RingStays
BY DEF RingStays, Count, HeadAt, Ring, Decode, Clear, InUse, Stored, Elem

\* The head moves up: the slot at the head joins the ring.
LEMMA HeadUp ==
  ASSUME TypeOK, NeverOverfull, Count < Size,
         headTail' = [headTail EXCEPT !.head = Wrap(@ + 1)]
  PROVE  /\ headTail' \in [head : Index, tail : Index]
         /\ Count' = Count + 1
         /\ \A s : Ring(s)' <=> Ring(s) \/ s = HeadAt
         /\ \A k \in Int : At(headTail.tail + k)' = At(headTail.tail + k)
<1>1. PICK h \in Index, t \in Index, n \in Index : h = headTail.head /\ t = headTail.tail /\ n = Wrap(h - t)
  BY Ends
<1>2. Count = n /\ n \in 0 .. Size /\ HeadAt = At(t + n) /\ h \in Int /\ t \in Int /\ Size \in Nat
  BY <1>1, RingFacts, Sizes DEF Count
<1>3. headTail'.head = Wrap(h + 1) /\ headTail'.tail = t /\ headTail' = [head |-> Wrap(h + 1), tail |-> t]
  BY <1>1 DEF TypeOK
<1>4. n < Size => Wrap(Wrap(h + 1) - t) = n + 1
  BY <1>1, Distances
<1>5. Count' = n + 1
  BY <1>2, <1>3, <1>4 DEF Count
<1>6. Wrap(h + 1) \in Index
  BY <1>2, Wraps
<1>7. \A k \in Int : At(headTail.tail + k)' = At(t + k)
  BY <1>3 DEF At
<1>8. \A s : Ring(s)' <=> \E k \in 0 .. n : s = At(t + k)
  <2>1. (Count - 1)' = n
    BY <1>2, <1>5
  <2> QED
    BY <1>3, <1>2, <2>1 DEF Ring, At
<1>9. \A s : Ring(s) <=> \E k \in 0 .. n - 1 : s = At(t + k)
  BY <1>1, <1>2 DEF Ring
<1>10. 0 .. n = (0 .. n - 1) \cup {n}
  BY <1>2
<1>11. \A s : Ring(s)' <=> Ring(s) \/ s = HeadAt
  BY <1>2, <1>8, <1>9, <1>10
<1> QED
  BY <1>1, <1>2, <1>3, <1>5, <1>6, <1>7, <1>11

\* The head moves down: the slot that it is at now leaves the ring.
LEMMA HeadDown ==
  ASSUME TypeOK, NeverOverfull, Count > 0,
         headTail' = [headTail EXCEPT !.head = Wrap(@ - 1)]
  PROVE  /\ headTail' \in [head : Index, tail : Index]
         /\ Count' = Count - 1
         /\ HeadAt' = At(headTail.tail + Count - 1) /\ HeadAt' \in Slot /\ Ring(HeadAt')
         /\ \A s : Ring(s)' <=> Ring(s) /\ s # HeadAt'
         /\ \A k \in Int : At(headTail.tail + k)' = At(headTail.tail + k)
<1>1. PICK h \in Index, t \in Index, n \in Index : h = headTail.head /\ t = headTail.tail /\ n = Wrap(h - t)
  BY Ends
<1>2. Count = n /\ n \in 0 .. Size /\ h \in Int /\ t \in Int /\ Size \in Nat
  BY <1>1, RingFacts, Sizes DEF Count
<1>3. headTail'.head = Wrap(h - 1) /\ headTail'.tail = t /\ headTail' = [head |-> Wrap(h - 1), tail |-> t]
  BY <1>1 DEF TypeOK
<1>4. n > 0 => Wrap(Wrap(h - 1) - t) = n - 1
  BY <1>1, Distances
<1>5. Count' = n - 1
  BY <1>2, <1>3, <1>4 DEF Count
<1>6. Wrap(h - 1) \in Index
  BY <1>2, Wraps
<1>7. \A k \in Int : At(headTail.tail + k)' = At(t + k)
  BY <1>3 DEF At
<1>8. PICK m \in 0 .. n - 1 : m = n - 1
  BY <1>2
<1>9. At(Wrap(h - 1)) = At(t + m)
  <2>1. At(Wrap(h - 1)) = At(t + n - 1)
    BY <1>1, Distances
  <2>2. t + n - 1 = t + m
    BY <1>2, <1>8
  <2> QED
    BY <2>1, <2>2
<1>10. HeadAt' = At(t + m)
  BY <1>3, <1>9 DEF HeadAt, At
<1>11. At(t + m) \in Slot
  BY <1>2, Slots
<1>12. \A s : Ring(s)' <=> \E k \in 0 .. m - 1 : s = At(t + k)
  <2>1. (Count - 1)' = m - 1
    BY <1>2, <1>5, <1>8
  <2> QED
    BY <1>3, <1>2, <2>1 DEF Ring, At
<1>13. \A s : Ring(s) <=> \E k \in 0 .. m : s = At(t + k)
  BY <1>1, <1>2, <1>8 DEF Ring
<1>14. 0 .. m = (0 .. m - 1) \cup {m} /\ m \notin 0 .. m - 1
  BY <1>8
<1>15. \A k \in 0 .. m - 1 : At(t + k) # At(t + m)
  BY <1>1, <1>2, <1>8, RingApart
<1>16. \A s : Ring(s)' <=> Ring(s) /\ s # At(t + m)
  BY <1>12, <1>13, <1>14, <1>15
<1>17. Ring(At(t + m))
  BY <1>13, <1>14
<1>18. At(t + m) = At(headTail.tail + Count - 1)
  <2>1. t + m = headTail.tail + Count - 1
    BY <1>1, <1>2, <1>8
  <2> QED
    BY <2>1
<1>19. headTail' \in [head : Index, tail : Index] /\ Count' = Count - 1
  BY <1>1, <1>2, <1>3, <1>5, <1>6
<1> QED
  BY <1>1, <1>7, <1>10, <1>11, <1>16, <1>17, <1>18, <1>19

\* The tail moves up: the slot that it was at leaves the ring.
LEMMA TailUp ==
  ASSUME TypeOK, NeverOverfull, Count > 0,
         headTail' = [headTail EXCEPT !.tail = Wrap(@ + 1)]
  PROVE  /\ headTail' \in [head : Index, tail : Index]
         /\ Count' = Count - 1 /\ HeadAt' = HeadAt
         /\ At(headTail.tail) \in Slot /\ Ring(At(headTail.tail))
         /\ At(headTail.tail) = At(headTail.tail + 0)
         /\ \A s : Ring(s)' <=> Ring(s) /\ s # At(headTail.tail)
         /\ \A k \in 0 .. Count - 2 : At(headTail.tail + k)' = At(headTail.tail + (k + 1))
<1>1. PICK h \in Index, t \in Index, n \in Index : h = headTail.head /\ t = headTail.tail /\ n = Wrap(h - t)
  BY Ends
<1>2. Count = n /\ n \in 0 .. Size /\ h \in Int /\ t \in Int /\ Size \in Nat /\ 2 * Size <= Indexes
      /\ Indexes \in Nat
  BY <1>1, RingFacts, Sizes DEF Count
<1>3. headTail'.tail = Wrap(t + 1) /\ headTail'.head = h /\ headTail' = [head |-> h, tail |-> Wrap(t + 1)]
  BY <1>1 DEF TypeOK
<1>4. n > 0 => Wrap(h - Wrap(t + 1)) = n - 1
  BY <1>1, Distances
<1>5. Count' = n - 1
  BY <1>2, <1>3, <1>4 DEF Count
<1>6. Wrap(t + 1) \in Index
  BY <1>2, Wraps
<1>7. PICK m \in 0 .. n - 1 : m = n - 1
  BY <1>2
<1>8. \A k \in 0 .. m - 1 : At(Wrap(t + 1) + k) = At(t + (k + 1))
  <2>1. \A k \in Nat : k < Indexes => At(Wrap(t + 1) + k) = At(t + 1 + k)
    BY <1>1, Distances
  <2>2. ASSUME NEW k \in 0 .. m - 1 PROVE k \in Nat /\ k < Indexes /\ t + 1 + k = t + (k + 1)
    BY <1>2, <1>7
  <2> QED
    BY <2>1, <2>2
<1>9. \A k \in 0 .. m - 1 : At(headTail.tail + k)' = At(t + (k + 1))
  BY <1>3, <1>8 DEF At
<1>10. At(t) = At(t + 0) /\ At(t) \in Slot
  <2>1. t + 0 = t
    BY <1>2
  <2> QED
    BY <1>2, <2>1, Slots
<1>11. \A s : Ring(s)' <=> \E k \in 0 .. m - 1 : s = At(t + (k + 1))
  <2>1. (Count - 1)' = m - 1
    BY <1>2, <1>5, <1>7
  <2>2. \A s : Ring(s)' <=> \E k \in 0 .. m - 1 : s = At(headTail.tail + k)'
    BY <2>1 DEF Ring
  <2> QED
    BY <1>9, <2>2
<1>12. \A s : Ring(s) <=> \E k \in 0 .. m : s = At(t + k)
  BY <1>1, <1>2, <1>7 DEF Ring
<1>13. ASSUME NEW s PROVE (\E k \in 0 .. m : s = At(t + k)) <=> (s = At(t + 0) \/ \E k \in 0 .. m - 1 : s = At(t + (k + 1)))
  <2>1. ASSUME NEW k \in 0 .. m, s = At(t + k), k # 0 PROVE \E j \in 0 .. m - 1 : s = At(t + (j + 1))
    <3>1. PICK j \in Int : j = k - 1
      BY <1>7
    <3>2. j \in 0 .. m - 1 /\ k = j + 1
      BY <1>7, <2>1, <3>1
    <3> QED
      BY <2>1, <3>2
  <2>2. \A k \in 0 .. m - 1 : k + 1 \in 0 .. m
    BY <1>7
  <2>3. 0 \in 0 .. m
    BY <1>7
  <2> QED
    BY <2>1, <2>2, <2>3
<1>14. \A k \in 0 .. m - 1 : At(t + (k + 1)) # At(t + 0)
  <2>1. ASSUME NEW k \in 0 .. m - 1, At(t + (k + 1)) = At(t + 0) PROVE FALSE
    <3>1. PICK j \in 0 .. n - 1 : j = k + 1
      BY <1>7
    <3>2. 0 \in 0 .. n - 1
      BY <1>7
    <3>3. j = 0
      BY <1>1, <1>2, <2>1, <3>1, <3>2, RingApart
    <3> QED
      BY <3>1, <3>3
  <2> QED
    BY <2>1
<1>15. \A s : Ring(s)' <=> Ring(s) /\ s # At(t)
  BY <1>10, <1>11, <1>12, <1>13, <1>14
<1>16. Ring(At(t))
  BY <1>10, <1>12, <1>13
<1>17. HeadAt' = HeadAt
  BY <1>1, <1>3 DEF HeadAt, At
<1>18. Count - 2 = m - 1
  BY <1>2, <1>7
<1> QED
  BY <1>1, <1>2, <1>3, <1>5, <1>6, <1>9, <1>10, <1>15, <1>16, <1>17, <1>18

-----------------------------------------------------------------------------
(***************************************************************************)
(* What a step can do to the items.                                        *)
(***************************************************************************)
SameQueue == Count' = Count /\ \A k \in 0 .. Count - 1 : Elem(k)' = Elem(k)
Same(P) == \A p \in P : Popped(p)' = Popped(p)

\* Nothing; an item is given to pushHead, which puts it back or adds it at the head.
Nothing == out' = out /\ Pushed' = Pushed /\ SameQueue /\ Same(Proc)

Begins(x) ==
  /\ x \in out /\ Pushed = None
  /\ out' = out \ {x} /\ Pushed' = x
  /\ SameQueue /\ Same(Proc)

Fails ==
  /\ Pushed \in Item /\ Pushed' = None
  /\ out' = out \cup {Pushed}
  /\ SameQueue /\ Same(Proc)

Joins ==
  /\ Pushed \in Item /\ Pushed' = None
  /\ Count' = Count + 1
  /\ \A k \in 0 .. Count : Elem(k)' = IF k = Count THEN Pushed ELSE Elem(k)
  /\ out' = out /\ Same(Proc)

\* An item is taken at the head, or at the tail, or it is returned.
TakenAtHead ==
  /\ Count > 0 /\ Count' = Count - 1
  /\ \A k \in 0 .. Count - 2 : Elem(k)' = Elem(k)
  /\ Popped(Producer) = None /\ Popped(Producer)' = Elem(Count - 1)
  /\ Same(Consumer) /\ out' = out /\ Pushed' = Pushed

TakenAtTail(c) ==
  /\ Count > 0 /\ Count' = Count - 1
  /\ \A k \in 0 .. Count - 2 : Elem(k)' = Elem(k + 1)
  /\ Popped(c) = None /\ Popped(c)' = Elem(0)
  /\ Same(Proc \ {c}) /\ out' = out /\ Pushed' = Pushed

Returned(p) ==
  /\ Popped(p) \in Item /\ Popped(p)' = None
  /\ out' = out \cup {Popped(p)}
  /\ SameQueue /\ Same(Proc \ {p}) /\ Pushed' = Pushed

Effect ==
  \/ Nothing
  \/ \E x \in Item : Begins(x)
  \/ Fails
  \/ Joins
  \/ TakenAtHead
  \/ \E c \in Consumer : TakenAtTail(c)
  \/ \E p \in Proc : Returned(p)

-----------------------------------------------------------------------------
(***************************************************************************)
(* What a slot holds, and what it does not share.                          *)
(***************************************************************************)
\* Only p moves in its operation.
Only(p) == \A q \in Proc \ {p} : pc'[q] = pc[q] /\ ptrs'[q] = ptrs[q] /\ item'[q] = item[q]

LEMMA Procs == Producer \in Proc /\ Producer \notin Consumer /\ Consumer = Proc \ {Producer}
               /\ None \notin Item /\ NilItem \in Item
BY DequeueAssumption DEF Proc

LEMMA Zeros == Zero \in [head : Index, tail : Index]
BY Sizes DEF Zero

\* An item is read back as it was stored, and a slot in use says so.
LEMMA StoredIsRead ==
  ASSUME NEW s, NEW x \in Item, Stored(s, x)
  PROVE  Decode(s) = x /\ typ[s] # "nil"
BY Procs DEF Stored, Decode, TypOf, ValOf

LEMMA InUseIsRead ==
  ASSUME NEW s, InUse(s)
  PROVE  Decode(s) \in Item /\ typ[s] # "nil"
BY StoredIsRead DEF InUse

\* What is popped, by each operation.
PoppedRight ==
  /\ Popped(Producer) = IF pc[Producer] = "headTake" THEN Decode(HeadAt) ELSE None
  /\ \A c \in Consumer :
       Popped(c) = IF pc[c] = "tailTake" THEN Decode(TailSlot(c)) ELSE item[c]
  /\ \A p \in Proc : Popped(p) \in Item \cup {None}
  /\ pc[Producer] = "headTake" => HeadSlot = HeadAt

LEMMA PoppedIs == Owners => PoppedRight
<1> SUFFICES ASSUME Owners PROVE PoppedRight
  OBVIOUS
<1>1. pc[Producer] = "headTake" => HeadSlot = HeadAt
  BY DEF Owners, ProducerRight, HeadSlot, HeadAt
<1>2. Popped(Producer) = IF pc[Producer] = "headTake" THEN Decode(HeadAt) ELSE None
  BY <1>1 DEF Owners, ProducerRight, Popped, Pushing
<1>3. ASSUME NEW c \in Consumer
      PROVE  Popped(c) = IF pc[c] = "tailTake" THEN Decode(TailSlot(c)) ELSE item[c]
  BY DEF Owners, ConsumerRight, Popped, Taking
<1>4. Popped(Producer) \in Item \cup {None}
  BY <1>2, InUseIsRead DEF Owners, ProducerRight
<1>5. ASSUME NEW c \in Consumer PROVE Popped(c) \in Item \cup {None}
  BY <1>3, InUseIsRead DEF Owners, ConsumerRight, Taking
<1> QED
  BY <1>1, <1>2, <1>3, <1>4, <1>5, Procs DEF PoppedRight

\* What is in the queue, and where.
LEMMA ElemIs ==
  ASSUME Owners, NEW k \in 0 .. Count - 1
  PROVE  Ring(At(headTail.tail + k)) /\ At(headTail.tail + k) \in Slot
         /\ InUse(At(headTail.tail + k)) /\ Elem(k) \in Item
<1>1. PICK s : s = At(headTail.tail + k)
  OBVIOUS
<1>2. k \in Int /\ headTail.tail + k \in Int
  BY RingFacts DEF Owners
<1>3. s \in Slot /\ Ring(s)
  BY <1>1, <1>2, Slots DEF Ring
<1>4. InUse(s)
  BY <1>3 DEF Owners, SlotRight
<1> QED
  BY <1>1, <1>3, <1>4, InUseIsRead DEF Elem

\* The slots that consumers have are not those of the queue or of the producer.
LEMMA TakenSlots ==
  ASSUME Owners, NEW c \in Consumer, pc[c] \in Taking
  PROVE  /\ TailSlot(c) \in Slot /\ ~Ring(TailSlot(c)) /\ typ[TailSlot(c)] # "nil"
         /\ HeadBusy => TailSlot(c) # HeadAt
         /\ pc[Producer] = "pushWrite" => TailSlot(c) # HeadAt
<1>1. TailSlot(c) \in Slot
  <2>1. ptrs[c].tail \in Index
    BY Procs DEF Owners, TypeOK
  <2>2. ptrs[c].tail \in Int
    BY <2>1, Sizes
  <2> QED
    BY <2>2, Slots DEF TailSlot
<1> QED
  BY <1>1 DEF Owners, ConsumerRight, ProducerRight, Clear

-----------------------------------------------------------------------------
(***************************************************************************)
(* Steps that leave headTail and the slots alone.                          *)
(***************************************************************************)
LEMMA QueueStays ==
  ASSUME RingStays PROVE SameQueue
BY DEF RingStays, SameQueue

\* The producer, away from the slot at the head.
LEMMA ProducerThinks ==
  ASSUME Owners, RingStays, NeverOverfull', Only(Producer), typ' = typ, val' = val,
         ~HeadBusy, ~HeadBusy'
  PROVE  /\ \A c \in Consumer : ConsumerRight(c)'
         /\ Apart' /\ \A s \in Slot : SlotRight(s)'
<1>1. \A c \in Consumer : pc'[c] = pc[c] /\ ptrs'[c] = ptrs[c] /\ item'[c] = item[c]
                          /\ TailSlot(c)' = TailSlot(c)
  BY Procs DEF Only, TailSlot
<1>2. ASSUME NEW c \in Consumer PROVE ConsumerRight(c)'
  <2>1. ConsumerRight(c)
    BY DEF Owners
  <2> QED
    BY <1>1, <2>1 DEF ConsumerRight, RingStays
<1>3. Apart'
  BY <1>1 DEF Owners, Apart
<1>4. ASSUME NEW s \in Slot PROVE SlotRight(s)'
  <2>1. SlotRight(s)
    BY DEF Owners
  <2> QED
    BY <1>1, <2>1 DEF SlotRight, RingStays
<1> QED
  BY <1>2, <1>3, <1>4

LEMMA ProducerSame ==
  ASSUME Owners, Owners', RingStays, Only(Producer), ~HeadBusy, ~HeadBusy'
  PROVE  Same(Proc)
<1>1. \A c \in Consumer : pc'[c] = pc[c] /\ item'[c] = item[c] /\ TailSlot(c)' = TailSlot(c)
  BY Procs DEF Only, TailSlot
<1>2. PoppedRight /\ PoppedRight'
  BY PoppedIs, PTL
<1>3. Popped(Producer) = None /\ Popped(Producer)' = None
  BY <1>2 DEF PoppedRight, HeadBusy
<1>4. ASSUME NEW c \in Consumer PROVE Popped(c)' = Popped(c)
  <2>1. PICK s : s = TailSlot(c)
    OBVIOUS
  <2>2. Popped(c) = IF pc[c] = "tailTake" THEN Decode(s) ELSE item[c]
    BY <1>2, <2>1 DEF PoppedRight
  <2>3. Popped(c)' = IF pc'[c] = "tailTake" THEN Decode(TailSlot(c))' ELSE item'[c]
    BY <1>2 DEF PoppedRight
  <2>4. Decode(TailSlot(c))' = Decode(s)'
    BY <1>1, <2>1 DEF Decode
  <2> QED
    BY <1>1, <2>2, <2>3, <2>4 DEF RingStays
<1> QED
  BY <1>3, <1>4, Procs DEF Same

LEMMA ProducerThinksOn ==
  ASSUME Owners, TypeOK', UNCHANGED <<headTail, typ, val>>, Only(Producer),
         ~HeadBusy, ~HeadBusy', ProducerRight'
  PROVE  Owners' /\ SameQueue /\ Same(Proc)
<1>1. RingStays
  BY RingStill
<1>2. NeverOverfull'
  BY <1>1 DEF Owners, NeverOverfull, RingStays
<1>3. Owners'
  BY <1>1, <1>2, ProducerThinks DEF Owners
<1> QED
  BY <1>1, <1>3, QueueStays, ProducerSame

\* A consumer, whether it has a slot or not.
LEMMA ConsumerThinksOn ==
  ASSUME Owners, NEW c \in Consumer, TypeOK', UNCHANGED <<headTail, typ, val>>, Only(c),
         pc'[c] \in Taking <=> pc[c] \in Taking,
         pc[c] \in Taking => ptrs'[c] = ptrs[c],
         ConsumerRight(c)'
  PROVE  Owners' /\ SameQueue /\ Same(Proc \ {c}) /\ Pushed' = Pushed
<1>1. RingStays
  BY RingStill
<1>2. NeverOverfull'
  BY <1>1 DEF Owners, NeverOverfull, RingStays
<1>3. pc'[Producer] = pc[Producer] /\ ptrs'[Producer] = ptrs[Producer] /\ item'[Producer] = item[Producer]
  BY Procs DEF Only
<1>4. \A d \in Consumer \ {c} : pc'[d] = pc[d] /\ ptrs'[d] = ptrs[d] /\ item'[d] = item[d]
                                /\ TailSlot(d)' = TailSlot(d)
  BY Procs DEF Only, TailSlot
<1>5. ProducerRight'
  <2>1. ProducerRight
    BY DEF Owners
  <2> QED
    BY <1>1, <1>3, <2>1 DEF ProducerRight, RingStays
<1>6. (HeadBusy' <=> HeadBusy) /\ (pc[c] \in Taking => TailSlot(c)' = TailSlot(c))
  BY <1>3 DEF HeadBusy, TailSlot
<1>7. ASSUME NEW d \in Consumer PROVE ConsumerRight(d)'
  <2>1. CASE d = c
    BY <2>1
  <2>2. CASE d # c
    <3>1. ConsumerRight(d)
      BY DEF Owners
    <3> QED
      BY <1>1, <1>4, <1>6, <2>2, <3>1 DEF ConsumerRight, RingStays
  <2> QED
    BY <2>1, <2>2
<1>8. Apart'
  BY <1>4, <1>6 DEF Owners, Apart
<1>9. ASSUME NEW s \in Slot PROVE SlotRight(s)'
  <2>1. SlotRight(s)
    BY DEF Owners
  <2>2. ASSUME NEW d \in Consumer, pc[d] \in Taking, s = TailSlot(d) PROVE pc'[d] \in Taking /\ s = TailSlot(d)'
    BY <1>4, <1>6, <2>2
  <2>3. (Ring(s)' <=> Ring(s)) /\ (InUse(s)' <=> InUse(s)) /\ (Clear(s)' <=> Clear(s)) /\ HeadAt' = HeadAt
    BY <1>1 DEF RingStays
  <2> QED
    BY <1>6, <2>1, <2>2, <2>3 DEF SlotRight
<1>10. Owners'
  BY <1>2, <1>5, <1>7, <1>8, <1>9 DEF Owners
<1>11. PoppedRight /\ PoppedRight'
  BY <1>10, PoppedIs, PTL
<1>12. Popped(Producer)' = Popped(Producer)
  BY <1>1, <1>3, <1>11 DEF PoppedRight, RingStays, HeadAt, Decode
<1>13. ASSUME NEW d \in Consumer \ {c} PROVE Popped(d)' = Popped(d)
  BY <1>4, <1>11 DEF PoppedRight, Decode
<1> QED
  BY <1>1, <1>3, <1>10, <1>12, <1>13, QueueStays, Procs DEF Same, Pushed

-----------------------------------------------------------------------------
(***************************************************************************)
(* What each step does.                                                    *)
(***************************************************************************)
LEMMA StepPushHead ==
  ASSUME Owners, NEW x \in Item, PushHead(x)
  PROVE  Owners' /\ Begins(x)
<1> USE DEF PushHead, Goto
<1>1. TypeOK'
  BY Procs DEF Owners, TypeOK
<1>2. /\ UNCHANGED <<headTail, typ, val>> /\ Only(Producer)
      /\ pc[Producer] = "idle" /\ pc'[Producer] = "pushLoad" /\ item'[Producer] = x
  BY Procs DEF Owners, TypeOK, Only
<1>3. ProducerRight'
  BY <1>2 DEF ProducerRight, Pushing
<1>4. ~HeadBusy /\ ~HeadBusy'
  BY <1>2 DEF HeadBusy
<1>5. Owners' /\ SameQueue /\ Same(Proc)
  BY <1>1, <1>2, <1>3, <1>4, ProducerThinksOn
<1>6. Pushed = None /\ Pushed' = x
  BY <1>2 DEF Pushed, Pushing
<1> QED
  BY <1>5, <1>6 DEF Begins

LEMMA StepPushLoad ==
  ASSUME Owners, PushLoad
  PROVE  Owners' /\ (Nothing \/ Fails)
<1> USE DEF PushLoad, Goto, Load, Return
<1>1. /\ UNCHANGED <<headTail, typ, val>> /\ pc[Producer] = "pushLoad"
      /\ item[Producer] \in Item /\ item[Producer] # None /\ RingStays
  BY RingStill, Procs DEF Owners, ProducerRight, Pushing
<1>2. CASE Full(headTail)
  <2>1. Return(Producer, item[Producer])
    BY <1>2
  <2>2. /\ TypeOK' /\ Only(Producer) /\ pc'[Producer] = "idle" /\ item'[Producer] = None
        /\ out' = out \cup {item[Producer]}
    BY <1>1, <2>1, Procs, Zeros DEF Owners, TypeOK, Only
  <2>3. ProducerRight' /\ ~HeadBusy /\ ~HeadBusy'
    BY <1>1, <2>2 DEF ProducerRight, Pushing, HeadBusy
  <2>4. Owners' /\ SameQueue /\ Same(Proc)
    BY <1>1, <2>2, <2>3, ProducerThinksOn
  <2>5. Pushed = item[Producer] /\ Pushed' = None
    BY <1>1, <2>2 DEF Pushed, Pushing
  <2> QED
    BY <1>1, <2>2, <2>4, <2>5 DEF Fails
<1>3. CASE ~Full(headTail)
  <2>1. Load(Producer) /\ Goto(Producer, "pushTyp") /\ UNCHANGED <<item, out>>
    BY <1>3
  <2>2. /\ TypeOK' /\ Only(Producer) /\ pc'[Producer] = "pushTyp" /\ ptrs'[Producer] = headTail
    BY <1>1, <2>1, Procs DEF Owners, TypeOK, Only
  <2>3. Count < Size
    <3>1. Count # Size /\ Count \in 0 .. Size
      BY <1>3, RingFacts DEF Owners
    <3> QED
      BY <3>1, Sizes
  <2>4. ProducerRight' /\ ~HeadBusy /\ ~HeadBusy'
    BY <1>1, <2>1, <2>2, <2>3 DEF ProducerRight, Pushing, HeadBusy, RingStays
  <2>5. Owners' /\ SameQueue /\ Same(Proc)
    BY <1>1, <2>2, <2>4, ProducerThinksOn
  <2>6. Pushed' = Pushed
    BY <1>1, <2>1, <2>2 DEF Pushed, Pushing
  <2> QED
    BY <2>1, <2>5, <2>6 DEF Nothing
<1> QED
  BY <1>2, <1>3

LEMMA StepPushTyp ==
  ASSUME Owners, PushTyp
  PROVE  Owners' /\ (Nothing \/ Fails)
<1> USE DEF PushTyp, Goto, Return
<1>1. /\ UNCHANGED <<headTail, typ, val>> /\ pc[Producer] = "pushTyp"
      /\ item[Producer] \in Item /\ item[Producer] # None /\ RingStays
      /\ At(ptrs[Producer].head) = HeadAt /\ Count < Size
      /\ ptrs[Producer].head = headTail.head
  BY RingStill, Procs DEF Owners, ProducerRight, Pushing, HeadAt
<1>2. CASE ~Released(HeadAt)
  <2>1. Return(Producer, item[Producer])
    BY <1>1, <1>2
  <2>2. /\ TypeOK' /\ Only(Producer) /\ pc'[Producer] = "idle" /\ item'[Producer] = None
        /\ out' = out \cup {item[Producer]}
    BY <1>1, <2>1, Procs, Zeros DEF Owners, TypeOK, Only
  <2>3. ProducerRight' /\ ~HeadBusy /\ ~HeadBusy'
    BY <1>1, <2>2 DEF ProducerRight, Pushing, HeadBusy
  <2>4. Owners' /\ SameQueue /\ Same(Proc)
    BY <1>1, <2>2, <2>3, ProducerThinksOn
  <2>5. Pushed = item[Producer] /\ Pushed' = None
    BY <1>1, <2>2 DEF Pushed, Pushing
  <2> QED
    BY <1>1, <2>2, <2>4, <2>5 DEF Fails
<1>3. CASE Released(HeadAt)
  <2>1. Goto(Producer, "pushWrite") /\ UNCHANGED <<ptrs, item, out>>
    BY <1>1, <1>3
  <2>2. TypeOK' /\ Only(Producer) /\ pc'[Producer] = "pushWrite"
    BY <1>1, <2>1, Procs DEF Owners, TypeOK, Only
  <2>3. Clear(HeadAt)
    <3>1. HeadAt \in Slot /\ ~Ring(HeadAt)
      BY <1>1, RingFacts DEF Owners
    <3>2. typ[HeadAt] = "nil"
      BY <1>3 DEF Released
    <3>3. \A c \in Consumer : pc[c] \in Taking => HeadAt # TailSlot(c)
      BY <3>2, TakenSlots
    <3>4. ~HeadBusy
      BY <1>1 DEF HeadBusy
    <3> QED
      BY <3>1, <3>3, <3>4 DEF Owners, SlotRight
  <2>4. Clear(HeadAt)'
    BY <1>1, <2>3 DEF Clear, HeadAt
  <2>5. ProducerRight' /\ ~HeadBusy /\ ~HeadBusy'
    BY <1>1, <2>1, <2>2, <2>4 DEF ProducerRight, Pushing, HeadBusy, RingStays
  <2>6. Owners' /\ SameQueue /\ Same(Proc)
    BY <1>1, <2>2, <2>5, ProducerThinksOn
  <2>7. Pushed' = Pushed
    BY <1>1, <2>1, <2>2 DEF Pushed, Pushing
  <2> QED
    BY <2>1, <2>6, <2>7 DEF Nothing
<1> QED
  BY <1>2, <1>3

LEMMA StepPopHead ==
  ASSUME Owners, PopHead
  PROVE  Owners' /\ Nothing
<1> USE DEF PopHead, Goto
<1>1. /\ UNCHANGED <<headTail, typ, val, ptrs, item, out>> /\ pc[Producer] = "idle"
      /\ TypeOK' /\ Only(Producer) /\ pc'[Producer] = "headLoad"
  BY Procs DEF Owners, TypeOK, Only
<1>2. item[Producer] = None
  BY <1>1 DEF Owners, ProducerRight, Pushing
<1>3. ProducerRight' /\ ~HeadBusy /\ ~HeadBusy'
  BY <1>1, <1>2 DEF ProducerRight, Pushing, HeadBusy
<1>4. Owners' /\ SameQueue /\ Same(Proc)
  BY <1>1, <1>3, ProducerThinksOn
<1>5. Pushed' = Pushed
  BY <1>1 DEF Pushed, Pushing
<1> QED
  BY <1>1, <1>4, <1>5 DEF Nothing

LEMMA StepHeadLoad ==
  ASSUME Owners, HeadLoad
  PROVE  Owners' /\ Nothing
<1> USE DEF HeadLoad, Goto, Load, Return
<1>1. /\ UNCHANGED <<headTail, typ, val>> /\ pc[Producer] = "headLoad"
      /\ item[Producer] = None
  BY DEF Owners, ProducerRight, Pushing
<1>2. /\ TypeOK' /\ Only(Producer) /\ item' = item /\ out' = out
      /\ pc'[Producer] \in {"idle", "headCAS"}
      /\ pc'[Producer] = "headCAS" => ptrs'[Producer] = headTail /\ ~Empty(headTail)
  <2>1. CASE Empty(headTail)
    <3>1. Return(Producer, None)
      BY <2>1
    <3>2. item' = item
      BY <1>1, <3>1, Procs DEF Owners, TypeOK
    <3> QED
      BY <1>1, <3>1, <3>2, Procs, Zeros DEF Owners, TypeOK, Only
  <2>2. CASE ~Empty(headTail)
    <3>1. Load(Producer) /\ Goto(Producer, "headCAS") /\ UNCHANGED <<item, out>>
      BY <2>2
    <3> QED
      BY <1>1, <2>2, <3>1, Procs DEF Owners, TypeOK, Only
  <2> QED
    BY <2>1, <2>2
<1>3. ProducerRight' /\ ~HeadBusy /\ ~HeadBusy'
  BY <1>1, <1>2 DEF ProducerRight, Pushing, HeadBusy, Empty
<1>4. Owners' /\ SameQueue /\ Same(Proc)
  BY <1>1, <1>2, <1>3, ProducerThinksOn
<1>5. Pushed' = Pushed
  BY <1>1, <1>2 DEF Pushed, Pushing
<1> QED
  BY <1>2, <1>4, <1>5 DEF Nothing

LEMMA StepPopTail ==
  ASSUME Owners, NEW c \in Consumer, PopTail(c)
  PROVE  Owners' /\ Nothing
<1> USE DEF PopTail, Goto
<1>1. /\ UNCHANGED <<headTail, typ, val, ptrs, item, out>> /\ pc[c] = "idle"
      /\ TypeOK' /\ Only(c) /\ pc'[c] = "tailLoad"
  BY Procs DEF Owners, TypeOK, Only
<1>2. item[c] = None
  BY <1>1 DEF Owners, ConsumerRight
<1>3. ConsumerRight(c)'
  BY <1>1, <1>2 DEF ConsumerRight, Taking
<1>4. Owners' /\ SameQueue /\ Same(Proc \ {c}) /\ Pushed' = Pushed
  BY <1>1, <1>3, ConsumerThinksOn DEF Taking
<1>5. Popped(c)' = Popped(c)
  BY <1>1 DEF Popped
<1> QED
  BY <1>1, <1>4, <1>5 DEF Nothing, Same

LEMMA StepTailLoad ==
  ASSUME Owners, NEW c \in Consumer, TailLoad(c)
  PROVE  Owners' /\ Nothing
<1> USE DEF TailLoad, Goto, Load, Return
<1>1. UNCHANGED <<headTail, typ, val>> /\ pc[c] = "tailLoad" /\ item[c] = None
  BY DEF Owners, ConsumerRight
<1>2. /\ TypeOK' /\ Only(c) /\ item' = item /\ out' = out
      /\ pc'[c] \in {"idle", "tailCAS"}
      /\ pc'[c] = "tailCAS" => ptrs'[c] = headTail /\ ~Empty(headTail)
  <2>1. CASE Empty(headTail)
    <3>1. Return(c, None)
      BY <2>1
    <3>2. item' = item
      BY <1>1, <3>1, Procs DEF Owners, TypeOK
    <3> QED
      BY <1>1, <3>1, <3>2, Procs, Zeros DEF Owners, TypeOK, Only
  <2>2. CASE ~Empty(headTail)
    <3>1. Load(c) /\ Goto(c, "tailCAS") /\ UNCHANGED <<item, out>>
      BY <2>2
    <3> QED
      BY <1>1, <2>2, <3>1, Procs DEF Owners, TypeOK, Only
  <2> QED
    BY <2>1, <2>2
<1>3. ConsumerRight(c)'
  BY <1>1, <1>2 DEF ConsumerRight, Taking, Empty
<1>4. Owners' /\ SameQueue /\ Same(Proc \ {c}) /\ Pushed' = Pushed
  BY <1>1, <1>2, <1>3, ConsumerThinksOn DEF Taking
<1>5. Popped(c)' = Popped(c)
  BY <1>1, <1>2 DEF Popped
<1> QED
  BY <1>2, <1>4, <1>5 DEF Nothing, Same

LEMMA StepTailTake ==
  ASSUME Owners, NEW c \in Consumer, TailTake(c)
  PROVE  Owners' /\ Nothing
<1> USE DEF TailTake, Goto
<1>1. PICK s : s = TailSlot(c)
  OBVIOUS
<1>2. /\ UNCHANGED <<headTail, typ, val, ptrs, out>> /\ pc[c] = "tailTake"
      /\ InUse(s) /\ RingStays /\ ConsumerRight(c)
  BY <1>1, RingStill DEF Owners, ConsumerRight
<1>3. Decode(s) \in Item
  BY <1>2, InUseIsRead
<1>4. TypeOK' /\ Only(c) /\ pc'[c] = "clearVal" /\ item'[c] = Decode(s)
  BY <1>1, <1>2, <1>3, Procs DEF Owners, TypeOK, Only
<1>5. TailSlot(c)' = s
  BY <1>1, <1>2 DEF TailSlot
<1>6. HeadBusy' = HeadBusy
  BY <1>4, Procs DEF Only, HeadBusy
<1>7. ConsumerRight(c)'
  BY <1>1, <1>2, <1>3, <1>4, <1>5, <1>6 DEF ConsumerRight, Taking, RingStays
<1>8. Owners' /\ SameQueue /\ Same(Proc \ {c}) /\ Pushed' = Pushed
  BY <1>2, <1>4, <1>7, ConsumerThinksOn DEF Taking
<1>9. Popped(c)' = Popped(c)
  BY <1>1, <1>2, <1>4 DEF Popped
<1> QED
  BY <1>2, <1>8, <1>9 DEF Nothing, Same

\* An exchange on headTail that fails leaves it to the next load.
LEMMA StepHeadCASFails ==
  ASSUME Owners, HeadCAS, headTail # ptrs[Producer]
  PROVE  Owners' /\ Nothing
<1> USE DEF HeadCAS, Unchanged, Goto, Retry
<1>1. /\ UNCHANGED <<headTail, typ, val, ptrs, item, out>> /\ pc[Producer] = "headCAS"
      /\ pc' = [pc EXCEPT ![Producer] = "headLoad"]
  OBVIOUS
<1>2. TypeOK' /\ Only(Producer) /\ pc'[Producer] = "headLoad" /\ item[Producer] = None
  BY <1>1, Procs DEF Owners, TypeOK, Only, ProducerRight, Pushing
<1>3. ProducerRight' /\ ~HeadBusy /\ ~HeadBusy'
  BY <1>1, <1>2 DEF ProducerRight, Pushing, HeadBusy
<1>4. Owners' /\ SameQueue /\ Same(Proc)
  BY <1>1, <1>2, <1>3, ProducerThinksOn
<1>5. Pushed' = Pushed
  BY <1>1, <1>2 DEF Pushed, Pushing
<1> QED
  BY <1>1, <1>4, <1>5 DEF Nothing

LEMMA StepTailCASFails ==
  ASSUME Owners, NEW c \in Consumer, TailCAS(c), headTail # ptrs[c]
  PROVE  Owners' /\ Nothing
<1> USE DEF TailCAS, Unchanged, Goto
<1>1. /\ UNCHANGED <<headTail, typ, val, ptrs, item, out>> /\ pc[c] = "tailCAS"
      /\ pc' = [pc EXCEPT ![c] = "tailLoad"]
  OBVIOUS
<1>2. TypeOK' /\ Only(c) /\ pc'[c] = "tailLoad" /\ item[c] = None
  BY <1>1, Procs DEF Owners, TypeOK, Only, ConsumerRight
<1>3. ConsumerRight(c)'
  BY <1>1, <1>2 DEF ConsumerRight, Taking
<1>4. Owners' /\ SameQueue /\ Same(Proc \ {c}) /\ Pushed' = Pushed
  BY <1>1, <1>2, <1>3, ConsumerThinksOn DEF Taking
<1>5. Popped(c)' = Popped(c)
  BY <1>1, <1>2 DEF Popped
<1> QED
  BY <1>1, <1>4, <1>5 DEF Nothing, Same

-----------------------------------------------------------------------------
(***************************************************************************)
(* Steps that write to a slot, which the process has to itself.            *)
(***************************************************************************)
\* Only slots of W are written.
Writes(W) == \A s \in Slot \ W : typ'[s] = typ[s] /\ val'[s] = val[s]

LEMMA OtherSlots ==
  ASSUME NEW W, Writes(W), NEW s \in Slot \ W
  PROVE  /\ typ'[s] = typ[s] /\ val'[s] = val[s] /\ Decode(s)' = Decode(s)
         /\ (Clear(s)' <=> Clear(s)) /\ (InUse(s)' <=> InUse(s))
         /\ \A x : Stored(s, x)' <=> Stored(s, x)
<1>1. typ'[s] = typ[s] /\ val'[s] = val[s]
  BY DEF Writes
<1> QED
  BY <1>1 DEF Decode, Clear, InUse, Stored

\* The queue is as it was if the slot is not in it.
LEMMA QueueKept ==
  ASSUME Owners, headTail' = headTail, NEW w, Writes({w}), ~Ring(w)
  PROVE  /\ SameQueue /\ HeadAt' = HeadAt /\ NeverOverfull'
         /\ \A s : Ring(s)' <=> Ring(s)
<1>1. Count' = Count
  BY DEF Count
<1>2. ASSUME NEW k \in 0 .. Count - 1 PROVE Elem(k)' = Elem(k)
  <2>1. PICK s \in Slot : s = At(headTail.tail + k) /\ Ring(s)
    BY ElemIs
  <2>2. Decode(s)' = Decode(s)
    BY <2>1, OtherSlots
  <2>3. s = At(headTail.tail + k)'
    BY <2>1
  <2> QED
    BY <2>1, <2>2, <2>3 DEF Elem, Decode
<1> QED
  BY <1>1, <1>2 DEF SameQueue, HeadAt, NeverOverfull, Owners, Ring

\* A consumer d that does not move, and whose slot stays its own.
LEMMA Bystander ==
  ASSUME Owners, NEW d \in Consumer, NEW W, Writes(W),
         pc'[d] = pc[d], ptrs'[d] = ptrs[d], item'[d] = item[d],
         \A s : pc[d] \in Taking /\ s = TailSlot(d) =>
                  s \notin W /\ ~Ring(s)' /\ (HeadBusy' => s # HeadAt')
  PROVE  ConsumerRight(d)' /\ Popped(d)' = Popped(d) /\ TailSlot(d)' = TailSlot(d)
<1>1. PICK s : s = TailSlot(d)
  OBVIOUS
<1>2. TailSlot(d)' = s
  BY <1>1 DEF TailSlot
<1>3. ConsumerRight(d)
  BY DEF Owners
<1>4. pc[d] \in Taking =>
        /\ typ'[s] = typ[s] /\ val'[s] = val[s] /\ Decode(s)' = Decode(s)
        /\ (InUse(s)' <=> InUse(s)) /\ ~Ring(s)' /\ (HeadBusy' => s # HeadAt')
  BY <1>1, TakenSlots, OtherSlots
<1>5. ConsumerRight(d)'
  BY <1>1, <1>2, <1>3, <1>4 DEF ConsumerRight, Taking
<1>6. Decode(TailSlot(d))' = Decode(s)' /\ pc[d] # "headTake"
  BY <1>2, <1>3 DEF Decode, ConsumerRight, Taking
<1>7. Popped(d)' = Popped(d)
  BY <1>1, <1>4, <1>6 DEF Popped, Taking
<1> QED
  BY <1>1, <1>2, <1>5, <1>7

LEMMA StepPushWrite ==
  ASSUME Owners, PushWrite
  PROVE  Owners' /\ Nothing
<1>1. PICK w \in Slot : w = HeadAt
  BY RingFacts DEF Owners
<1>2. PICK x \in Item : x = item[Producer]
  BY DEF Owners, ProducerRight, Pushing, PushWrite
<1>3. /\ pc[Producer] = "pushWrite" /\ ptrs[Producer].head = headTail.head
      /\ Count < Size /\ Clear(w) /\ ~Ring(w) /\ At(ptrs[Producer].head) = w
  BY <1>1, RingFacts DEF Owners, ProducerRight, HeadAt, PushWrite
<1>4. /\ typ' = [typ EXCEPT ![w] = TypOf(x)] /\ val' = [val EXCEPT ![w] = ValOf(x)]
      /\ UNCHANGED <<headTail, ptrs, item, out>> /\ pc' = [pc EXCEPT ![Producer] = "pushAdd"]
  BY <1>2, <1>3 DEF PushWrite, Goto
<1>5. TypeOK'
  <2>1. PICK a \in {"nil", "type", "dequeueNil"}, b \in Item \cup {None} : a = TypOf(x) /\ b = ValOf(x)
    BY DEF TypOf, ValOf
  <2>2. typ' = [typ EXCEPT ![w] = a] /\ val' = [val EXCEPT ![w] = b]
    BY <1>4, <2>1
  <2>3. typ \in [Slot -> {"nil", "type", "dequeueNil"}] /\ val \in [Slot -> Item \cup {None}]
    BY DEF Owners, TypeOK
  <2>4. typ' \in [Slot -> {"nil", "type", "dequeueNil"}] /\ val' \in [Slot -> Item \cup {None}]
    BY <2>2, <2>3
  <2> QED
    BY <1>4, <2>4, Procs DEF Owners, TypeOK
<1>6. Only(Producer) /\ pc'[Producer] = "pushAdd" /\ Writes({w}) /\ Stored(w, x)'
  BY <1>4, Procs DEF Owners, TypeOK, Only, Writes, Stored
<1>7. SameQueue /\ HeadAt' = w /\ NeverOverfull' /\ \A s : Ring(s)' <=> Ring(s)
  BY <1>1, <1>3, <1>4, <1>6, QueueKept
<1>8. HeadBusy' /\ ~HeadBusy
  BY <1>3, <1>6 DEF HeadBusy
<1>9. Stored(HeadAt, item[Producer])'
  BY <1>2, <1>4, <1>6, <1>7 DEF Stored
<1>10. ProducerRight'
  BY <1>2, <1>3, <1>4, <1>6, <1>7, <1>9 DEF ProducerRight, Pushing, SameQueue
<1>11. \A c \in Consumer : pc[c] \in Taking => TailSlot(c) # w
  BY <1>1, <1>3, TakenSlots
<1>12. ASSUME NEW c \in Consumer
       PROVE  /\ ConsumerRight(c)' /\ Popped(c)' = Popped(c)
              /\ pc'[c] = pc[c] /\ TailSlot(c)' = TailSlot(c)
  BY <1>4, <1>6, <1>7, <1>11, TakenSlots, Bystander, Procs DEF Only
<1>13. Apart'
  BY <1>12 DEF Owners, Apart
<1>14. ASSUME NEW s \in Slot PROVE SlotRight(s)'
  <2>1. SlotRight(s)
    BY DEF Owners
  <2>2. CASE s = w
    BY <1>3, <1>7, <1>8, <2>2 DEF SlotRight
  <2>3. CASE s # w
    BY <1>6, <1>7, <1>8, <1>12, <2>1, <2>3, OtherSlots DEF SlotRight
  <2> QED
    BY <2>2, <2>3
<1>15. Owners'
  BY <1>5, <1>7, <1>10, <1>12, <1>13, <1>14 DEF Owners
<1>16. Popped(Producer)' = Popped(Producer)
  BY <1>3, <1>6 DEF Popped
<1>17. Pushed' = Pushed
  BY <1>3, <1>4, <1>6 DEF Pushed, Pushing
<1> QED
  BY <1>4, <1>7, <1>12, <1>15, <1>16, <1>17, Procs DEF Nothing, Same

LEMMA StepPushAdd ==
  ASSUME Owners, PushAdd
  PROVE  Owners' /\ Joins
<1>1. PICK x \in Item : x = item[Producer]
  BY DEF Owners, ProducerRight, Pushing, PushAdd
<1>2. /\ pc[Producer] = "pushAdd" /\ Count < Size /\ Stored(HeadAt, x) /\ HeadBusy
  BY <1>1 DEF Owners, ProducerRight, PushAdd, HeadBusy
<1>3. /\ headTail' = [headTail EXCEPT !.head = Wrap(@ + 1)]
      /\ typ' = typ /\ val' = val /\ out' = out
      /\ pc' = [pc EXCEPT ![Producer] = "idle"] /\ ptrs' = [ptrs EXCEPT ![Producer] = Zero]
      /\ item' = [item EXCEPT ![Producer] = None]
  BY DEF PushAdd, Return, Goto
<1>4. /\ headTail' \in [head : Index, tail : Index]
      /\ Count' = Count + 1
      /\ \A s : Ring(s)' <=> Ring(s) \/ s = HeadAt
      /\ \A k \in Int : At(headTail.tail + k)' = At(headTail.tail + k)
  BY <1>2, <1>3, HeadUp DEF Owners
<1>5. TypeOK'
  BY <1>3, <1>4, Procs, Zeros DEF Owners, TypeOK
<1>6. Only(Producer) /\ pc'[Producer] = "idle" /\ item'[Producer] = None /\ Writes({})
  BY <1>3, Procs DEF Owners, TypeOK, Only, Writes
<1>7. ProducerRight' /\ ~HeadBusy'
  BY <1>6 DEF ProducerRight, HeadBusy, Pushing
<1>8. NeverOverfull' /\ Count \in Nat /\ HeadAt = At(headTail.tail + Count)
  <2>1. Count \in 0 .. Size /\ Size \in Nat /\ HeadAt = At(headTail.tail + Count)
    BY RingFacts, Sizes DEF Owners
  <2> QED
    BY <1>2, <1>4, <2>1 DEF NeverOverfull
<1>9. ASSUME NEW c \in Consumer
      PROVE  /\ ConsumerRight(c)' /\ Popped(c)' = Popped(c)
             /\ pc'[c] = pc[c] /\ TailSlot(c)' = TailSlot(c)
  BY <1>2, <1>4, <1>6, <1>7, TakenSlots, Bystander, Procs DEF Only
<1>10. Apart'
  BY <1>9 DEF Owners, Apart
<1>11. ASSUME NEW s \in Slot PROVE SlotRight(s)'
  <2>1. SlotRight(s) /\ (InUse(s)' <=> InUse(s)) /\ (Clear(s)' <=> Clear(s))
    BY <1>6, OtherSlots DEF Owners
  <2>2. s = HeadAt => InUse(s)
    BY <1>2 DEF InUse
  <2> QED
    BY <1>4, <1>9, <2>1, <2>2 DEF SlotRight
<1>12. Owners'
  BY <1>5, <1>7, <1>8, <1>9, <1>10, <1>11 DEF Owners
<1>13. Same(Proc) /\ Pushed = x /\ Pushed' = None
  BY <1>1, <1>2, <1>6, <1>9, Procs DEF Same, Popped, Pushed, Pushing
<1>14. ASSUME NEW k \in 0 .. Count PROVE Elem(k)' = IF k = Count THEN x ELSE Elem(k)
  <2>1. Elem(k)' = Decode(At(headTail.tail + k))
    BY <1>3, <1>4, <1>8 DEF Elem, Decode
  <2>2. Decode(HeadAt) = x
    BY <1>2, StoredIsRead
  <2> QED
    BY <1>8, <2>1, <2>2 DEF Elem
<1> QED
  BY <1>3, <1>4, <1>12, <1>13, <1>14 DEF Joins

\* The slot below the head leaves the ring for popHead.
LEMMA StepHeadCAS ==
  ASSUME Owners, HeadCAS, headTail = ptrs[Producer]
  PROVE  Owners' /\ TakenAtHead
<1>1. /\ pc[Producer] = "headCAS" /\ item[Producer] = None /\ ~Empty(headTail) /\ ~HeadBusy
  BY DEF Owners, ProducerRight, HeadCAS, Empty, HeadBusy, Pushing
<1>2. /\ headTail' = [headTail EXCEPT !.head = Wrap(@ - 1)]
      /\ UNCHANGED <<typ, val, ptrs, item, out>>
      /\ pc' = [pc EXCEPT ![Producer] = "headTake"]
  BY DEF HeadCAS, Unchanged, Goto
<1>3. Count \in Nat /\ Count <= Size /\ Count > 0 /\ Size \in Nat /\ headTail.tail \in Int
  <2>1. Count \in 0 .. Size /\ Count # 0 /\ headTail.tail \in Int
    BY <1>1, RingFacts DEF Owners
  <2> QED
    BY <2>1, Sizes
<1>4. PICK k \in 0 .. Count - 1, w \in Slot : k = Count - 1 /\ w = At(headTail.tail + k)
  <2>1. PICK k \in Int : k = Count - 1
    BY <1>3
  <2>2. k \in 0 .. Count - 1 /\ headTail.tail + k \in Int
    BY <1>3, <2>1
  <2> QED
    BY <2>1, <2>2, Slots
<1>5. /\ headTail' \in [head : Index, tail : Index]
      /\ Count' = Count - 1 /\ HeadAt' = w /\ Ring(w)
      /\ \A s : Ring(s)' <=> Ring(s) /\ s # w
      /\ \A j \in Int : At(headTail.tail + j)' = At(headTail.tail + j)
  <2>1. headTail.tail + Count - 1 = headTail.tail + k
    BY <1>3, <1>4
  <2> QED
    BY <1>2, <1>3, <1>4, <2>1, HeadDown DEF Owners
<1>6. TypeOK'
  BY <1>2, <1>5, Procs DEF Owners, TypeOK
<1>7. Only(Producer) /\ pc'[Producer] = "headTake" /\ item'[Producer] = None /\ Writes({})
  BY <1>1, <1>2, Procs DEF Owners, TypeOK, Only, Writes
<1>8. HeadBusy' /\ NeverOverfull' /\ Count' < Size
  BY <1>3, <1>5, <1>7 DEF HeadBusy, NeverOverfull
<1>9. InUse(w) /\ InUse(HeadAt)'
  <2>1. InUse(w)
    BY <1>4, <1>5 DEF Owners, SlotRight
  <2>2. InUse(w)'
    BY <1>7, <2>1, OtherSlots
  <2> QED
    BY <1>5, <2>1, <2>2 DEF InUse, Stored
<1>10. headTail'.head = Wrap(ptrs'[Producer].head - 1)
  BY <1>2 DEF Owners, TypeOK
<1>11. ProducerRight'
  BY <1>7, <1>8, <1>9, <1>10 DEF ProducerRight, Pushing
<1>12. ASSUME NEW c \in Consumer
       PROVE  /\ ConsumerRight(c)' /\ Popped(c)' = Popped(c)
              /\ pc'[c] = pc[c] /\ TailSlot(c)' = TailSlot(c)
  BY <1>5, <1>7, TakenSlots, Bystander, Procs DEF Only
<1>13. Apart'
  BY <1>12 DEF Owners, Apart
<1>14. ASSUME NEW s \in Slot PROVE SlotRight(s)'
  <2>1. SlotRight(s) /\ (InUse(s)' <=> InUse(s)) /\ (Clear(s)' <=> Clear(s))
    BY <1>7, OtherSlots DEF Owners
  <2> QED
    BY <1>1, <1>5, <1>8, <1>12, <2>1 DEF SlotRight
<1>15. Owners'
  BY <1>6, <1>8, <1>11, <1>12, <1>13, <1>14 DEF Owners
<1>16. Popped(Producer) = None /\ Popped(Producer)' = Elem(Count - 1)
  <2>1. PoppedRight /\ PoppedRight'
    BY <1>15, PoppedIs, PTL
  <2>2. Popped(Producer)' = Decode(HeadAt)'
    BY <1>7, <2>1 DEF PoppedRight
  <2>3. Decode(HeadAt)' = Decode(w)
    BY <1>2, <1>5 DEF Decode
  <2>4. Popped(Producer) = None
    BY <1>1, <2>1 DEF PoppedRight
  <2> QED
    BY <1>4, <2>2, <2>3, <2>4 DEF Elem
<1>17. ASSUME NEW j \in 0 .. Count - 2 PROVE Elem(j)' = Elem(j)
  BY <1>2, <1>5 DEF Elem, Decode
<1>18. Pushed' = Pushed
  BY <1>1, <1>7 DEF Pushed, Pushing
<1> QED
  BY <1>2, <1>3, <1>5, <1>12, <1>15, <1>16, <1>17, <1>18 DEF TakenAtHead, Same

LEMMA StepHeadTake ==
  ASSUME Owners, HeadTake
  PROVE  Owners' /\ Returned(Producer)
<1>1. PICK w \in Slot : w = HeadAt
  BY RingFacts DEF Owners
<1>2. PICK x : x = Decode(w)
  OBVIOUS
<1>3. /\ pc[Producer] = "headTake" /\ HeadSlot = w /\ Popped(Producer) = x
      /\ HeadBusy /\ Count < Size /\ InUse(w) /\ ~Ring(w)
  BY <1>1, <1>2, PoppedIs, RingFacts DEF Owners, ProducerRight, HeadTake, PoppedRight, HeadBusy
<1>4. x \in Item
  BY <1>2, <1>3, InUseIsRead
<1>5. /\ typ' = [typ EXCEPT ![w] = "nil"] /\ val' = [val EXCEPT ![w] = None]
      /\ headTail' = headTail /\ out' = out \cup {x}
      /\ pc' = [pc EXCEPT ![Producer] = "idle"] /\ ptrs' = [ptrs EXCEPT ![Producer] = Zero]
      /\ item' = [item EXCEPT ![Producer] = None]
  BY <1>2, <1>3, <1>4, Procs DEF HeadTake, Return, Goto
<1>6. TypeOK'
  BY <1>4, <1>5, Procs, Zeros DEF Owners, TypeOK
<1>7. /\ Only(Producer) /\ pc'[Producer] = "idle" /\ item'[Producer] = None
      /\ Writes({w}) /\ Clear(w)'
  BY <1>5, Procs DEF Owners, TypeOK, Only, Writes, Clear
<1>8. SameQueue /\ HeadAt' = w /\ NeverOverfull' /\ \A s : Ring(s)' <=> Ring(s)
  BY <1>1, <1>3, <1>5, <1>7, QueueKept
<1>9. ProducerRight' /\ ~HeadBusy'
  BY <1>7 DEF ProducerRight, HeadBusy, Pushing
<1>10. ASSUME NEW c \in Consumer
       PROVE  /\ ConsumerRight(c)' /\ Popped(c)' = Popped(c)
              /\ pc'[c] = pc[c] /\ TailSlot(c)' = TailSlot(c)
  BY <1>1, <1>3, <1>7, <1>8, TakenSlots, Bystander, Procs DEF Only
<1>11. Apart'
  BY <1>10 DEF Owners, Apart
<1>12. ASSUME NEW s \in Slot PROVE SlotRight(s)'
  <2>1. SlotRight(s)
    BY DEF Owners
  <2>2. CASE s = w
    BY <1>3, <1>7, <1>8, <2>2 DEF SlotRight
  <2>3. CASE s # w
    BY <1>1, <1>7, <1>8, <1>10, <2>1, <2>3, OtherSlots DEF SlotRight
  <2> QED
    BY <2>2, <2>3
<1>13. Owners'
  BY <1>6, <1>8, <1>9, <1>10, <1>11, <1>12 DEF Owners
<1>14. Popped(Producer)' = None /\ Pushed' = Pushed
  BY <1>3, <1>7 DEF Popped, Pushed, Pushing
<1> QED
  BY <1>3, <1>4, <1>5, <1>8, <1>10, <1>13, <1>14, Procs DEF Returned, Same

\* The slot at the tail leaves the ring for the consumer c.
LEMMA StepTailCAS ==
  ASSUME Owners, NEW c \in Consumer, TailCAS(c), headTail = ptrs[c]
  PROVE  Owners' /\ TakenAtTail(c)
<1>1. pc[c] = "tailCAS" /\ item[c] = None /\ ~Empty(headTail)
  BY DEF Owners, ConsumerRight, TailCAS, Empty
<1>2. /\ headTail' = [headTail EXCEPT !.tail = Wrap(@ + 1)]
      /\ UNCHANGED <<typ, val, ptrs, item, out>>
      /\ pc' = [pc EXCEPT ![c] = "tailTake"]
  BY DEF TailCAS, Unchanged, Goto
<1>3. Count \in Nat /\ Count <= Size /\ Count > 0 /\ Size \in Nat
  <2>1. Count \in 0 .. Size /\ Count # 0
    BY <1>1, RingFacts DEF Owners
  <2> QED
    BY <2>1, Sizes
<1>4. PICK w \in Slot : w = At(headTail.tail)
  BY <1>2, <1>3, TailUp DEF Owners
<1>5. /\ headTail' \in [head : Index, tail : Index]
      /\ Count' = Count - 1 /\ HeadAt' = HeadAt /\ Ring(w) /\ w = At(headTail.tail + 0)
      /\ \A s : Ring(s)' <=> Ring(s) /\ s # w
      /\ \A k \in 0 .. Count - 2 : At(headTail.tail + k)' = At(headTail.tail + (k + 1))
  BY <1>2, <1>3, <1>4, TailUp DEF Owners
<1>6. TypeOK'
  BY <1>2, <1>5, Procs DEF Owners, TypeOK
<1>7. /\ Only(c) /\ pc'[c] = "tailTake" /\ item'[c] = None /\ Writes({})
      /\ pc'[Producer] = pc[Producer] /\ headTail'.head = headTail.head
      /\ TailSlot(c)' = w
  BY <1>1, <1>2, <1>4, Procs DEF Owners, TypeOK, Only, Writes, TailSlot, At
<1>8. NeverOverfull' /\ Count' < Size /\ (HeadBusy' <=> HeadBusy)
  BY <1>3, <1>5, <1>7 DEF HeadBusy, NeverOverfull
<1>9. /\ \A s : (Clear(s)' <=> Clear(s)) /\ (InUse(s)' <=> InUse(s)) /\ Decode(s)' = Decode(s)
      /\ \A s, x : Stored(s, x)' <=> Stored(s, x)
  BY <1>2 DEF Clear, InUse, Stored, Decode
<1>10. (Clear(HeadAt)' <=> Clear(HeadAt)) /\ (InUse(HeadAt)' <=> InUse(HeadAt))
       /\ (Stored(HeadAt, item[Producer])' <=> Stored(HeadAt, item[Producer]))
  BY <1>2, <1>5 DEF Clear, InUse, Stored
<1>11. ProducerRight'
  <2>1. ProducerRight
    BY DEF Owners
  <2> QED
    BY <1>2, <1>7, <1>8, <1>10, <2>1 DEF ProducerRight
<1>12. InUse(w) /\ (HeadBusy => w # HeadAt)
  <2>1. HeadBusy => ~Ring(HeadAt)
    BY RingFacts DEF HeadBusy, Owners, ProducerRight
  <2> QED
    BY <1>4, <1>5, <2>1 DEF Owners, SlotRight
<1>13. ConsumerRight(c)' /\ Popped(c) = None /\ Popped(c)' = Elem(0)
  <2>1. typ[w] # "nil"
    BY <1>12, InUseIsRead
  <2>2. typ'[TailSlot(c)'] = typ[w] /\ ~Ring(TailSlot(c))' /\ (InUse(TailSlot(c))' <=> InUse(w))
        /\ Decode(TailSlot(c))' = Decode(w)
    <3>1. typ'[TailSlot(c)'] = typ[w] /\ (InUse(TailSlot(c))' <=> InUse(w))
          /\ Decode(TailSlot(c))' = Decode(w)
      BY <1>2, <1>7 DEF InUse, Stored, Decode
    <3>2. Ring(TailSlot(c))' <=> Ring(w)'
      BY <1>7 DEF Ring
    <3> QED
      BY <1>5, <3>1, <3>2
  <2>3. ConsumerRight(c)'
    BY <1>5, <1>7, <1>8, <1>12, <2>1, <2>2 DEF ConsumerRight, Taking
  <2> QED
    BY <1>1, <1>5, <1>7, <2>2, <2>3 DEF Popped, Elem
<1>14. ASSUME NEW d \in Consumer \ {c}
       PROVE  /\ ConsumerRight(d)' /\ Popped(d)' = Popped(d)
              /\ pc'[d] = pc[d] /\ TailSlot(d)' = TailSlot(d)
  <2>1. pc'[d] = pc[d] /\ ptrs'[d] = ptrs[d] /\ item'[d] = item[d]
    BY <1>7, Procs DEF Only
  <2>2. \A s : pc[d] \in Taking /\ s = TailSlot(d) =>
                 s \notin {} /\ ~Ring(s)' /\ (HeadBusy' => s # HeadAt')
    BY <1>5, <1>8, TakenSlots
  <2> QED
    BY <1>7, <2>1, <2>2, Bystander
<1>15. Apart'
  <2>1. ASSUME NEW d \in Consumer \ {c}, pc[d] \in Taking PROVE TailSlot(d) # w
    BY <1>5, <2>1, TakenSlots
  <2> QED
    BY <1>7, <1>14, <2>1 DEF Owners, Apart
<1>16. ASSUME NEW s \in Slot PROVE SlotRight(s)'
  <2>1. SlotRight(s)
    BY DEF Owners
  <2>2. CASE s = w
    BY <1>5, <1>7, <2>2 DEF SlotRight, Taking
  <2>3. CASE s # w
    <3>1. ASSUME NEW d \in Consumer, pc[d] \in Taking, s = TailSlot(d)
          PROVE  pc'[d] \in Taking /\ s = TailSlot(d)'
      <4>1. d # c
        BY <1>1, <3>1 DEF Taking
      <4> QED
        BY <1>14, <3>1, <4>1
    <3> QED
      BY <1>5, <1>8, <1>9, <2>1, <2>3, <3>1 DEF SlotRight
  <2> QED
    BY <2>2, <2>3
<1>17. Owners'
  <2>1. \A d \in Consumer : ConsumerRight(d)'
    BY <1>13, <1>14
  <2> QED
    BY <1>6, <1>8, <1>11, <1>15, <1>16, <2>1 DEF Owners
<1>18. Popped(Producer)' = Popped(Producer) /\ Pushed' = Pushed
  <2>1. PoppedRight /\ PoppedRight'
    BY <1>17, PoppedIs, PTL
  <2>2. Decode(HeadAt)' = Decode(HeadAt)
    BY <1>2, <1>5 DEF Decode
  <2> QED
    BY <1>2, <1>7, <2>1, <2>2 DEF PoppedRight, Pushed
<1>19. Same(Proc \ {c})
  BY <1>14, <1>18, Procs DEF Same
<1>20. ASSUME NEW k \in 0 .. Count - 2 PROVE Elem(k)' = Elem(k + 1)
  BY <1>2, <1>5 DEF Elem, Decode
<1> QED
  BY <1>2, <1>3, <1>5, <1>13, <1>17, <1>18, <1>19, <1>20 DEF TakenAtTail

\* Zeroing the data word keeps the slot; zeroing the type word gives it back.
TailClear(c, w) ==
  /\ pc[c] \in Taking /\ w = TailSlot(c) /\ headTail' = headTail /\ Writes({w}) /\ Only(c)
  /\ IF pc'[c] \in Taking THEN TailSlot(c)' = w ELSE Clear(w)'

LEMMA TailClears ==
  ASSUME Owners, NEW c \in Consumer, NEW w \in Slot, TailClear(c, w), TypeOK', ConsumerRight(c)'
  PROVE  Owners' /\ SameQueue /\ Same(Proc \ {c}) /\ Pushed' = Pushed
<1>1. /\ pc[c] \in Taking /\ w = TailSlot(c) /\ headTail' = headTail /\ Writes({w}) /\ Only(c)
      /\ ~Ring(w) /\ (HeadBusy => w # HeadAt) /\ (pc[Producer] = "pushWrite" => w # HeadAt)
      /\ pc'[c] \in Taking => TailSlot(c)' = w
      /\ pc'[c] \notin Taking => Clear(w)'
  BY TakenSlots DEF TailClear
<1>2. SameQueue /\ HeadAt' = HeadAt /\ NeverOverfull' /\ \A s : Ring(s)' <=> Ring(s)
  BY <1>1, QueueKept
<1>3. pc'[Producer] = pc[Producer] /\ ptrs'[Producer] = ptrs[Producer] /\ item'[Producer] = item[Producer]
  BY <1>1, Procs DEF Only
<1>4. HeadBusy' <=> HeadBusy
  BY <1>3 DEF HeadBusy
<1>5. PICK h \in Slot : h = HeadAt
  BY RingFacts DEF Owners
<1>6. (HeadBusy \/ pc[Producer] = "pushWrite") =>
        /\ Clear(HeadAt)' <=> Clear(HeadAt)
        /\ InUse(HeadAt)' <=> InUse(HeadAt)
        /\ \A x : Stored(HeadAt, x)' <=> Stored(HeadAt, x)
        /\ Decode(HeadAt)' = Decode(HeadAt)
  <2>1. ASSUME HeadBusy \/ pc[Producer] = "pushWrite"
        PROVE  typ'[h] = typ[h] /\ val'[h] = val[h]
    BY <1>1, <1>5, <2>1 DEF Writes
  <2> QED
    BY <1>2, <1>5, <2>1 DEF Clear, InUse, Stored, Decode
<1>7. ProducerRight'
  <2>1. ProducerRight /\ Count' = Count
    BY <1>2 DEF Owners, SameQueue
  <2>2. pc[Producer] = "pushAdd" =>
          (Stored(HeadAt, item[Producer])' <=> Stored(HeadAt, item[Producer]))
    BY <1>3, <1>6 DEF HeadBusy, Stored
  <2> QED
    BY <1>1, <1>3, <1>6, <2>1, <2>2 DEF ProducerRight, HeadBusy
<1>8. ASSUME NEW d \in Consumer \ {c}
      PROVE  /\ ConsumerRight(d)' /\ Popped(d)' = Popped(d)
             /\ pc'[d] = pc[d] /\ TailSlot(d)' = TailSlot(d)
  <2>1. pc'[d] = pc[d] /\ ptrs'[d] = ptrs[d] /\ item'[d] = item[d]
    BY <1>1, Procs DEF Only
  <2>2. pc[d] \in Taking => TailSlot(d) # w
    BY <1>1 DEF Owners, Apart
  <2>3. \A s : pc[d] \in Taking /\ s = TailSlot(d) =>
                 s \notin {w} /\ ~Ring(s)' /\ (HeadBusy' => s # HeadAt')
    BY <1>2, <1>4, <2>2, TakenSlots
  <2> QED
    BY <1>1, <2>1, <2>3, Bystander
<1>9. Apart'
  BY <1>1, <1>8 DEF Owners, Apart
<1>10. ASSUME NEW s \in Slot PROVE SlotRight(s)'
  <2>1. SlotRight(s)
    BY DEF Owners
  <2>2. CASE s = w
    BY <1>1, <1>2, <2>2 DEF SlotRight
  <2>3. CASE s # w
    <3>1. ASSUME NEW d \in Consumer, pc[d] \in Taking, s = TailSlot(d)
          PROVE  pc'[d] \in Taking /\ s = TailSlot(d)'
      BY <1>1, <1>8, <2>3, <3>1
    <3> QED
      BY <1>1, <1>2, <1>4, <2>1, <2>3, <3>1, OtherSlots DEF SlotRight
  <2> QED
    BY <2>2, <2>3
<1>11. Owners'
  <2>1. \A d \in Consumer : ConsumerRight(d)'
    BY <1>8
  <2> QED
    BY <1>2, <1>7, <1>9, <1>10, <2>1 DEF Owners
<1>12. Popped(Producer)' = Popped(Producer)
  <2>1. PoppedRight /\ PoppedRight'
    BY <1>11, PoppedIs, PTL
  <2> QED
    BY <1>3, <1>6, <2>1 DEF PoppedRight, HeadBusy
<1> QED
  BY <1>2, <1>3, <1>8, <1>11, <1>12, Procs DEF Same, Pushed

LEMMA StepClearVal ==
  ASSUME Owners, NEW c \in Consumer, ClearVal(c)
  PROVE  Owners' /\ Nothing
<1>1. pc[c] = "clearVal" /\ pc[c] \in Taking
  BY DEF ClearVal, Taking
<1>2. PICK w \in Slot : w = TailSlot(c)
  BY <1>1, TakenSlots
<1>3. /\ val' = [val EXCEPT ![w] = None] /\ UNCHANGED <<headTail, typ, ptrs, item, out>>
      /\ pc' = [pc EXCEPT ![c] = "clearTyp"]
  BY <1>2 DEF ClearVal, Goto
<1>4. TypeOK' /\ Only(c) /\ Writes({w}) /\ pc'[c] = "clearTyp" /\ val'[w] = None /\ TailSlot(c)' = w
  BY <1>2, <1>3, Procs DEF Owners, TypeOK, Only, Writes, TailSlot
<1>5. TailClear(c, w)
  BY <1>1, <1>2, <1>3, <1>4 DEF TailClear, Taking
<1>6. /\ ~Ring(w) /\ (HeadBusy => w # HeadAt) /\ typ[w] # "nil" /\ item[c] \in Item
  BY <1>1, <1>2, TakenSlots DEF Owners, ConsumerRight
<1>7. SameQueue /\ HeadAt' = HeadAt /\ \A s : Ring(s)' <=> Ring(s)
  BY <1>3, <1>4, <1>6, QueueKept
<1>8. HeadBusy' <=> HeadBusy
  BY <1>4, Procs DEF Only, HeadBusy
<1>9. ConsumerRight(c)'
  BY <1>3, <1>4, <1>6, <1>7, <1>8 DEF ConsumerRight, Taking
<1>10. Owners' /\ Same(Proc \ {c}) /\ Pushed' = Pushed
  BY <1>4, <1>5, <1>9, TailClears
<1>11. Popped(c)' = Popped(c)
  BY <1>1, <1>3, <1>4 DEF Popped
<1> QED
  BY <1>3, <1>7, <1>10, <1>11 DEF Nothing, Same

LEMMA StepClearTyp ==
  ASSUME Owners, NEW c \in Consumer, ClearTyp(c)
  PROVE  Owners' /\ Returned(c)
<1>1. /\ pc[c] = "clearTyp" /\ pc[c] \in Taking /\ item[c] \in Item /\ item[c] # None
      /\ Popped(c) = item[c]
  BY Procs DEF ClearTyp, Taking, Owners, ConsumerRight, Popped
<1>2. PICK w \in Slot : w = TailSlot(c) /\ val[w] = None
  BY <1>1, TakenSlots DEF Owners, ConsumerRight
<1>3. /\ typ' = [typ EXCEPT ![w] = "nil"] /\ UNCHANGED <<headTail, val>>
      /\ out' = out \cup {item[c]}
      /\ pc' = [pc EXCEPT ![c] = "idle"] /\ ptrs' = [ptrs EXCEPT ![c] = Zero]
      /\ item' = [item EXCEPT ![c] = None]
  BY <1>1, <1>2 DEF ClearTyp, Return, Goto
<1>4. TypeOK' /\ Only(c) /\ Writes({w}) /\ pc'[c] = "idle" /\ item'[c] = None /\ Clear(w)'
  BY <1>1, <1>2, <1>3, Procs, Zeros DEF Owners, TypeOK, Only, Writes, Clear
<1>5. TailClear(c, w)
  BY <1>1, <1>2, <1>3, <1>4 DEF TailClear, Taking
<1>6. ConsumerRight(c)'
  BY <1>4 DEF ConsumerRight, Taking
<1>7. Owners' /\ SameQueue /\ Same(Proc \ {c}) /\ Pushed' = Pushed
  BY <1>4, <1>5, <1>6, TailClears
<1>8. Popped(c)' = None
  BY <1>4 DEF Popped
<1> QED
  BY <1>1, <1>3, <1>7, <1>8, Procs DEF Returned

-----------------------------------------------------------------------------
(***************************************************************************)
(* The items, step by step.                                                *)
(***************************************************************************)
LEMMA OwnersInit == Init => Owners /\ \A x \in Item : One(x)
<1> SUFFICES ASSUME Init PROVE Owners /\ \A x \in Item : One(x)
  OBVIOUS
<1> USE DEF Init
<1>1. TypeOK
  BY Zeros, Procs DEF TypeOK
<1>2. Count = 0
  <2>1. Count = Wrap(0) /\ 0 \in 0 .. Indexes - 1
    BY Sizes DEF Count, Zero
  <2> QED
    BY <2>1, Wraps
<1>3. NeverOverfull /\ \A s : ~Ring(s)
  BY <1>2, Sizes DEF NeverOverfull, Ring
<1>4. ProducerRight /\ ~HeadBusy /\ \A c \in Consumer : ConsumerRight(c)
  BY Procs DEF ProducerRight, ConsumerRight, Pushing, Taking, HeadBusy
<1>5. Apart /\ \A s \in Slot : SlotRight(s)
  BY <1>3, Procs DEF Apart, Taking, SlotRight, Clear
<1>6. ASSUME NEW x \in Item PROVE One(x)
  <2>1. Pushed = None /\ \A p \in Proc : Popped(p) = None
    BY Procs DEF Pushed, Pushing, Popped
  <2> QED
    BY <1>2, <2>1, Procs DEF One
<1> QED
  BY <1>1, <1>3, <1>4, <1>5, <1>6 DEF Owners

LEMMA OwnersNext ==
  ASSUME Owners, [Next]_vars
  PROVE  Owners' /\ Effect
<1>1. CASE \E x \in Item : PushHead(x)
  BY <1>1, StepPushHead DEF Effect
<1>2. CASE PopHead
  BY <1>2, StepPopHead DEF Effect
<1>3. CASE PushLoad \/ PushTyp \/ PushWrite \/ PushAdd \/ HeadLoad \/ HeadTake
  BY <1>3, StepPushLoad, StepPushTyp, StepPushWrite, StepPushAdd, StepHeadLoad, StepHeadTake,
     Procs DEF Effect
<1>4. CASE HeadCAS
  BY <1>4, StepHeadCAS, StepHeadCASFails DEF Effect
<1>5. ASSUME NEW c \in Consumer, PopTail(c) \/ ConsumerStep(c) PROVE Owners' /\ Effect
  BY <1>5, StepPopTail, StepTailLoad, StepTailCAS, StepTailCASFails, StepTailTake,
     StepClearVal, StepClearTyp, Procs DEF ConsumerStep, Effect
<1>6. CASE UNCHANGED vars
  <2> USE <1>6 DEF vars
  <2>1. Owners'
    BY DEF Owners, TypeOK, NeverOverfull, Count, ProducerRight, ConsumerRight, Apart, SlotRight,
           Ring, HeadAt, HeadBusy, Clear, Stored, InUse, TailSlot
  <2>2. Nothing
    BY DEF Nothing, SameQueue, Same, Count, Elem, Decode, Pushed, Popped, HeadSlot, TailSlot
  <2> QED
    BY <2>1, <2>2 DEF Effect
<1> QED
  BY <1>1, <1>2, <1>3, <1>4, <1>5, <1>6 DEF Next, ProducerStep

\* The types of the four places.
LEMMA Places ==
  ASSUME Owners
  PROVE  /\ Count \in Nat /\ out \subseteq Item /\ Pushed \in Item \cup {None}
         /\ \A k \in 0 .. Count - 1 : Elem(k) \in Item
         /\ \A p \in Proc : Popped(p) \in Item \cup {None}
         /\ None \notin Item
<1>1. Count \in 0 .. Size /\ Size \in Nat
  BY RingFacts, Sizes DEF Owners
<1>2. Pushed \in Item \cup {None}
  BY DEF Pushed, Owners, ProducerRight
<1> QED
  BY <1>1, <1>2, ElemIs, PoppedIs, Procs DEF PoppedRight, Owners, TypeOK

LEMMA NothingKeeps ==
  ASSUME Owners, Nothing, NEW x \in Item, One(x)
  PROVE  One(x)'
BY Places DEF Nothing, SameQueue, Same, One, Queued, Held

LEMMA BeginsKeeps ==
  ASSUME Owners, NEW y \in Item, Begins(y), NEW x \in Item, One(x)
  PROVE  One(x)'
BY Places DEF Begins, SameQueue, Same, One, Queued, Held

LEMMA FailsKeeps ==
  ASSUME Owners, Fails, NEW x \in Item, One(x)
  PROVE  One(x)'
BY Places DEF Fails, SameQueue, Same, One, Queued, Held

\* x stays where it is, or goes from one place to another with a step.
LEMMA JoinsKeeps ==
  ASSUME Owners, Joins, NEW x \in Item, One(x)
  PROVE  One(x)'
<1>1. PICK n \in Nat, y \in Item : n = Count /\ y = Pushed
  BY Places DEF Joins
<1>2. /\ out' = out /\ Pushed' = None /\ None \notin Item /\ Count' = n + 1
      /\ \A p \in Proc : Popped(p)' = Popped(p)
      /\ \A k \in 0 .. n - 1 : Elem(k)' = Elem(k)
      /\ \A k : k = n => Elem(k)' = y
      /\ \A k \in 0 .. Count' - 1 : k \in 0 .. n - 1 \/ k = n
      /\ \A k \in 0 .. n - 1 : k \in 0 .. Count' - 1 /\ k # n
      /\ n \in 0 .. Count' - 1
  BY <1>1, Places DEF Joins, Same
<1>3. /\ x \in out => y # x
      /\ x \in out \/ y = x => /\ \A k \in 0 .. n - 1 : Elem(k) # x
                               /\ \A p \in Proc : Popped(p) # x
      /\ \A k \in 0 .. n - 1 : Elem(k) = x =>
           /\ \A j \in 0 .. n - 1 : Elem(j) = x => j = k
           /\ \A p \in Proc : Popped(p) # x
      /\ \A p, q \in Proc : Popped(p) = x /\ Popped(q) = x => p = q
      /\ x \in out \/ y = x \/ (\E k \in 0 .. n - 1 : Elem(k) = x) \/ Held(x)
  BY <1>1 DEF One, Queued
<1>4. y = x => Queued(x)'
  BY <1>2 DEF Queued
<1>5. (\E k \in 0 .. n - 1 : Elem(k) = x) => Queued(x)'
  BY <1>2 DEF Queued
<1>6. Held(x) => Held(x)'
  BY <1>2 DEF Held
<1>7. ASSUME NEW k \in 0 .. Count' - 1, Elem(k)' = x
      PROVE  /\ \A j \in 0 .. Count' - 1 : Elem(j)' = x => j = k
             /\ \A p \in Proc : Popped(p)' # x
             /\ x \notin out
  <2>1. CASE k = n
    <3>1. y = x
      BY <1>2, <1>7, <2>1
    <3> QED
      BY <1>2, <1>3, <2>1, <3>1
  <2>2. CASE k \in 0 .. n - 1
    <3>1. Elem(k) = x /\ y # x
      BY <1>2, <1>3, <1>7, <2>2
    <3> QED
      BY <1>2, <1>3, <2>2, <3>1
  <2> QED
    BY <1>2, <2>1, <2>2
<1> QED
  BY <1>2, <1>3, <1>4, <1>5, <1>6, <1>7 DEF One

LEMMA TakenAtHeadKeeps ==
  ASSUME Owners, TakenAtHead, NEW x \in Item, One(x)
  PROVE  One(x)'
<1>1. PICK n \in Nat, e \in Item : Count = n + 1 /\ e = Elem(n)
  <2>1. PICK n \in Int : n = Count - 1
    BY Places
  <2>2. n \in 0 .. Count - 1 /\ n \in Nat /\ Count = n + 1
    BY <2>1, Places DEF TakenAtHead
  <2>3. Elem(n) \in Item
    BY <2>2, Places
  <2> QED
    BY <2>2, <2>3
<1>2. Count - 1 = n /\ Count - 2 = n - 1 /\ 0 .. n = (0 .. n - 1) \cup {n} /\ n \notin 0 .. n - 1
  BY <1>1
<1>3. /\ out' = out /\ Pushed' = Pushed /\ None \notin Item /\ Count' - 1 = n - 1
      /\ \A p \in Consumer : Popped(p)' = Popped(p)
      /\ Popped(Producer) = None /\ Popped(Producer)' = e
      /\ \A k \in 0 .. n - 1 : Elem(k)' = Elem(k)
  BY <1>1, <1>2, Places DEF TakenAtHead, Same
<1>4. /\ x \in out => Pushed # x
      /\ x \in out \/ Pushed = x => /\ \A k \in 0 .. n : Elem(k) # x
                                    /\ \A p \in Proc : Popped(p) # x
      /\ \A k \in 0 .. n : Elem(k) = x =>
           /\ \A j \in 0 .. n : Elem(j) = x => j = k
           /\ \A p \in Proc : Popped(p) # x
      /\ \A p, q \in Proc : Popped(p) = x /\ Popped(q) = x => p = q
      /\ x \in out \/ Pushed = x \/ (\E k \in 0 .. n : Elem(k) = x) \/ Held(x)
  BY <1>2 DEF One, Queued
<1>5. e = x => Held(x)'
  BY <1>3, Procs DEF Held
<1>6. (\E k \in 0 .. n - 1 : Elem(k) = x) => Queued(x)'
  BY <1>3 DEF Queued
<1>7. Held(x) => Held(x)'
  BY <1>3, Procs DEF Held
<1>8. e = x => /\ \A k \in 0 .. n - 1 : Elem(k) # x
               /\ \A p \in Proc : Popped(p) # x
               /\ x \notin out /\ Pushed # x
  BY <1>1, <1>2, <1>4
<1>9. (\E k \in 0 .. n : Elem(k) = x) => e = x \/ \E k \in 0 .. n - 1 : Elem(k) = x
  BY <1>1, <1>2
<1>10. \A p, q \in Proc : Popped(p)' = x /\ Popped(q)' = x => p = q
  BY <1>3, <1>4, <1>8, Procs
<1>11. e # x => \A p \in Proc : Popped(p)' = x => Popped(p) = x
  BY <1>3, Procs
<1> QED
  BY <1>2, <1>3, <1>4, <1>5, <1>6, <1>7, <1>8, <1>9, <1>10, <1>11 DEF One

LEMMA TakenAtTailKeeps ==
  ASSUME Owners, NEW c \in Consumer, TakenAtTail(c), NEW x \in Item, One(x)
  PROVE  One(x)'
<1>1. PICK n \in Nat, e \in Item : Count = n + 1 /\ e = Elem(0)
  <2>1. PICK n \in Int : n = Count - 1
    BY Places
  <2>2. n \in Nat /\ Count = n + 1 /\ 0 \in 0 .. Count - 1
    BY <2>1, Places DEF TakenAtTail
  <2>3. Elem(0) \in Item
    BY <2>2, Places
  <2> QED
    BY <2>2, <2>3
<1>2. /\ Count - 1 = n /\ Count - 2 = n - 1 /\ 0 \in 0 .. n
      /\ \A k \in 0 .. n - 1 : k + 1 \in 0 .. n /\ k + 1 # 0
      /\ \A k \in 0 .. n : k = 0 \/ \E j \in 0 .. n - 1 : k = j + 1
      /\ \A j, k \in 0 .. n - 1 : j + 1 = k + 1 => j = k
  <2>1. ASSUME NEW k \in 0 .. n, k # 0 PROVE \E j \in 0 .. n - 1 : k = j + 1
    <3>1. PICK j \in Int : j = k - 1
      OBVIOUS
    <3>2. j \in 0 .. n - 1 /\ k = j + 1
      BY <2>1, <3>1
    <3> QED
      BY <3>2
  <2> QED
    BY <1>1, <2>1
<1>3. /\ out' = out /\ Pushed' = Pushed /\ None \notin Item /\ Count' - 1 = n - 1
      /\ \A p \in Proc \ {c} : Popped(p)' = Popped(p)
      /\ Popped(c) = None /\ Popped(c)' = e
      /\ \A k \in 0 .. n - 1 : Elem(k)' = Elem(k + 1)
  BY <1>1, <1>2, Places DEF TakenAtTail, Same
<1>4. /\ x \in out => Pushed # x
      /\ x \in out \/ Pushed = x => /\ \A k \in 0 .. n : Elem(k) # x
                                    /\ \A p \in Proc : Popped(p) # x
      /\ \A k \in 0 .. n : Elem(k) = x =>
           /\ \A j \in 0 .. n : Elem(j) = x => j = k
           /\ \A p \in Proc : Popped(p) # x
      /\ \A p, q \in Proc : Popped(p) = x /\ Popped(q) = x => p = q
      /\ x \in out \/ Pushed = x \/ (\E k \in 0 .. n : Elem(k) = x) \/ Held(x)
  BY <1>2 DEF One, Queued
<1>5. e = x => Held(x)'
  BY <1>3, Procs DEF Held
<1>6. (\E k \in 0 .. n - 1 : Elem(k + 1) = x) => Queued(x)'
  BY <1>3 DEF Queued
<1>7. Held(x) => Held(x)'
  BY <1>3 DEF Held
<1>8. e = x => /\ \A k \in 0 .. n - 1 : Elem(k + 1) # x
               /\ \A p \in Proc : Popped(p) # x
               /\ x \notin out /\ Pushed # x
  BY <1>1, <1>2, <1>4
<1>9. (\E k \in 0 .. n : Elem(k) = x) => e = x \/ \E k \in 0 .. n - 1 : Elem(k + 1) = x
  BY <1>1, <1>2
<1>10. \A p, q \in Proc : Popped(p)' = x /\ Popped(q)' = x => p = q
  BY <1>3, <1>4, <1>8
<1>11. e # x => \A p \in Proc : Popped(p)' = x => Popped(p) = x
  BY <1>3
<1>12. ASSUME NEW k \in 0 .. n - 1, Elem(k)' = x
       PROVE  /\ \A j \in 0 .. n - 1 : Elem(j)' = x => j = k
              /\ \A p \in Proc : Popped(p)' # x
              /\ x \notin out /\ Pushed # x
  <2>1. Elem(k + 1) = x /\ k + 1 \in 0 .. n
    BY <1>2, <1>3, <1>12
  <2>2. e # x /\ x \notin out /\ Pushed # x /\ \A p \in Proc : Popped(p) # x
    BY <1>4, <1>8, <2>1
  <2>3. ASSUME NEW j \in 0 .. n - 1, Elem(j)' = x PROVE j = k
    <3>1. Elem(j + 1) = x /\ j + 1 \in 0 .. n
      BY <1>2, <1>3, <2>3
    <3>2. j + 1 = k + 1
      BY <1>4, <2>1, <3>1
    <3> QED
      BY <1>2, <3>2
  <2> QED
    BY <1>11, <2>2, <2>3
<1> QED
  BY <1>2, <1>3, <1>4, <1>5, <1>6, <1>7, <1>8, <1>9, <1>10, <1>11, <1>12 DEF One

LEMMA ReturnedKeeps ==
  ASSUME Owners, NEW p \in Proc, Returned(p), NEW x \in Item, One(x)
  PROVE  One(x)'
<1>1. /\ Popped(p) \in Item /\ Popped(p)' = None /\ None \notin Item
      /\ out' = out \cup {Popped(p)} /\ Pushed' = Pushed
      /\ \A q \in Proc \ {p} : Popped(q)' = Popped(q)
      /\ Count' = Count /\ \A k \in 0 .. Count - 1 : Elem(k)' = Elem(k)
  BY Places DEF Returned, SameQueue, Same
<1>2. Popped(p) # x => (Held(x)' <=> Held(x)) /\ (x \in out' <=> x \in out)
  BY <1>1 DEF Held
<1>3. Queued(x)' <=> Queued(x)
  BY <1>1 DEF Queued
<1>4. Popped(p) = x => /\ Pushed # x /\ x \in out'
                       /\ \A k \in 0 .. Count - 1 : Elem(k) # x
                       /\ \A q \in Proc \ {p} : Popped(q) # x
  BY <1>1 DEF One
<1> QED
  BY <1>1, <1>2, <1>3, <1>4 DEF One

-----------------------------------------------------------------------------
(***************************************************************************)
(* The theorems.                                                           *)
(***************************************************************************)
LEMMA IInvNext ==
  ASSUME IInv, [Next]_vars
  PROVE  IInv' /\ Effect
<1>1. Owners /\ Owners' /\ Effect
  BY OwnersNext DEF IInv
<1>2. ASSUME NEW x \in Item PROVE One(x)'
  <2>1. One(x)
    BY DEF IInv
  <2> QED
    BY <1>1, <2>1, NothingKeeps, BeginsKeeps, FailsKeeps, JoinsKeeps, TakenAtHeadKeeps,
       TakenAtTailKeeps, ReturnedKeeps DEF Effect
<1> QED
  BY <1>1, <1>2 DEF IInv

\* The inductive invariant holds in every reachable state of pushHead, popHead and
\* popTail (pool_queue.go:61-166): every slot has one owner, every item one place.
THEOREM Invariance == Spec => []IInv
<1>1. Init => IInv
  BY OwnersInit DEF IInv
<1>2. IInv /\ [Next]_vars => IInv'
  BY IInvNext
<1> QED
  BY <1>1, <1>2, PTL DEF Spec

LEMMA InQueueIsRing ==
  ASSUME Owners, NEW s
  PROVE  InQueue(s) <=> Ring(s)
<1>1. PICK h \in Index, t \in Index, n \in Index : h = headTail.head /\ t = headTail.tail /\ n = Wrap(h - t)
  BY Ends DEF Owners
<1>2. Count = n /\ n \in Nat /\ n <= Indexes /\ Indexes \in Int
  BY <1>1, Sizes DEF Count
<1>3. \A k \in Nat : k <= Indexes => At(Wrap(t + k)) = At(t + k)
  BY <1>1, Distances
<1>4. ASSUME NEW k \in 0 .. n - 1 PROVE At(Wrap(t + k)) = At(t + k)
  <2>1. k \in Nat /\ k <= Indexes
    BY <1>2
  <2> QED
    BY <1>3, <2>1
<1> QED
  BY <1>1, <1>2, <1>4 DEF InQueue, Ring

LEMMA OwnersHandOver == Owners => SlotsHandedOver
<1> SUFFICES ASSUME Owners, NEW s \in Slot
             PROVE  IF InQueue(s) THEN typ[s] # "nil" /\ ~Emptying(s)
                    ELSE Filling(s) \/ Emptying(s) \/ Clear(s)
  BY DEF SlotsHandedOver, Clear
<1>1. /\ pc[Producer] = "headTake" => HeadSlot = HeadAt
      /\ pc[Producer] = "pushAdd" => At(ptrs[Producer].head) = HeadAt
      /\ HeadBusy => ~Ring(HeadAt)
  BY PoppedIs, RingFacts DEF PoppedRight, Owners, ProducerRight, HeadAt, HeadBusy
<1>2. InQueue(s) <=> Ring(s)
  BY InQueueIsRing
<1>3. SlotRight(s)
  BY DEF Owners
<1>4. ASSUME Ring(s) PROVE typ[s] # "nil" /\ ~Emptying(s)
  <2>1. typ[s] # "nil"
    BY <1>3, <1>4, InUseIsRead DEF SlotRight
  <2> QED
    BY <1>1, <1>4, <2>1, TakenSlots DEF Emptying, HeadBusy, Taking
<1>5. ASSUME ~Ring(s) PROVE Filling(s) \/ Emptying(s) \/ Clear(s)
  BY <1>1, <1>3, <1>5 DEF SlotRight, Filling, Emptying, HeadBusy, Taking
<1> QED
  BY <1>2, <1>4, <1>5

\* The comment at pool_queue.go:12-14, with any number of consumers and any size:
\* the type word of a slot hands it from one end of the ring to the other.
THEOREM SlotsAreHandedOver == Spec => []SlotsHandedOver
<1>1. IInv => SlotsHandedOver
  BY OwnersHandOver DEF IInv
<1> QED
  BY <1>1, Invariance, PTL

\* The queue as a sequence.
QueueRight ==
  /\ Queue \in Seq(Item) /\ Len(Queue) = Count
  /\ \A j \in 1 .. Count : Queue[j] = Elem(j - 1)

LEMMA QueueIs == Owners => QueueRight
<1> SUFFICES ASSUME Owners PROVE QueueRight
  OBVIOUS
<1>1. PICK h \in Index, t \in Index, n \in Index : h = headTail.head /\ t = headTail.tail /\ n = Wrap(h - t)
  BY Ends DEF Owners
<1>2. Count = n /\ n \in Nat /\ n <= Indexes /\ t \in Int /\ Indexes \in Int
  BY <1>1, Sizes DEF Count
<1>3. \A k \in Nat : k <= Indexes => At(Wrap(t + k)) = At(t + k)
  BY <1>1, Distances
<1>4. ASSUME NEW j \in 1 .. n
      PROVE  /\ Decode(At(Wrap(headTail.tail + j - 1))) = Elem(j - 1)
             /\ Elem(j - 1) \in Item
  <2>1. PICK k \in Int : k = j - 1
    OBVIOUS
  <2>2. k \in 0 .. n - 1 /\ k \in Nat /\ k <= Indexes /\ t + j - 1 = t + k
    BY <1>2, <2>1
  <2>3. At(Wrap(t + k)) = At(t + k) /\ Elem(k) \in Item
    BY <1>2, <1>3, <2>2, ElemIs
  <2> QED
    BY <1>1, <2>1, <2>2, <2>3 DEF Elem
<1>5. Queue = [j \in 1 .. n |-> Decode(At(Wrap(headTail.tail + j - 1)))]
  BY <1>2 DEF Queue
<1>6. Queue \in [1 .. n -> Item]
  BY <1>4, <1>5
<1>7. Queue \in Seq(Item) /\ Len(Queue) = n
  BY <1>2, <1>5, <1>6
<1> QED
  BY <1>2, <1>4, <1>5, <1>7 DEF QueueRight

LEMMA IInvConserves == IInv => ItemsConserved
<1> SUFFICES ASSUME IInv, NEW x \in Item
             PROVE  1 = (IF x \in out THEN 1 ELSE 0)
                        + (IF pc[Producer] \in {"pushLoad", "pushTyp", "pushWrite", "pushAdd"}
                                /\ item[Producer] = x THEN 1 ELSE 0)
                        + Cardinality({k \in 1 .. Count : Queue[k] = x})
                        + Cardinality({p \in Proc : Popped(p) = x})
  BY DEF ItemsConserved
<1> DEFINE P == pc[Producer] \in {"pushLoad", "pushTyp", "pushWrite", "pushAdd"} /\ item[Producer] = x
           Q == {k \in 1 .. Count : Queue[k] = x}
           H == {p \in Proc : Popped(p) = x}
<1>1. Owners /\ One(x) /\ QueueRight /\ Count \in Nat /\ x # None
  BY QueueIs, Places DEF IInv
<1>2. P <=> Pushed = x
  BY <1>1 DEF Pushed, Pushing
<1>3. H = {} <=> ~Held(x)
  BY DEF Held
<1>4. Held(x) => \E p \in Proc : H = {p}
  BY <1>1 DEF Held, One
<1>5. \A k \in 1 .. Count : k - 1 \in 0 .. Count - 1 /\ Queue[k] = Elem(k - 1)
  BY <1>1 DEF QueueRight
<1>6. \A k \in 0 .. Count - 1 : k + 1 \in 1 .. Count /\ Queue[k + 1] = Elem(k)
  <2>1. ASSUME NEW k \in 0 .. Count - 1 PROVE k + 1 \in 1 .. Count /\ Queue[k + 1] = Elem(k)
    <3>1. k + 1 \in 1 .. Count /\ (k + 1) - 1 = k
      BY <1>1
    <3> QED
      BY <1>5, <3>1
  <2> QED
    BY <2>1
<1>7. Q = {} <=> ~Queued(x)
  BY <1>5, <1>6 DEF Queued
<1>8. ASSUME Queued(x) PROVE \E k \in 1 .. Count : Q = {k}
  <2>1. PICK k \in 0 .. Count - 1 : Elem(k) = x
    BY <1>8 DEF Queued
  <2>2. \A j \in 0 .. Count - 1 : Elem(j) = x => j = k
    BY <1>1, <2>1 DEF One
  <2>3. ASSUME NEW i \in 1 .. Count, Queue[i] = x PROVE i = k + 1
    <3>1. i - 1 = k
      BY <1>5, <2>2, <2>3
    <3> QED
      BY <3>1
  <2> QED
    BY <1>6, <2>1, <2>3
<1>9. /\ ~Held(x) => Cardinality(H) = 0
      /\ Held(x) => Cardinality(H) = 1
      /\ ~Queued(x) => Cardinality(Q) = 0
      /\ Queued(x) => Cardinality(Q) = 1
  BY <1>3, <1>4, <1>7, <1>8, FS_EmptySet, FS_Singleton
<1>10. /\ x \in out \/ Pushed = x \/ Queued(x) \/ Held(x)
       /\ x \in out => Pushed # x
       /\ x \in out \/ Pushed = x => ~Queued(x) /\ ~Held(x)
       /\ Queued(x) => ~Held(x)
  BY <1>1 DEF One, Queued, Held
<1> HIDE DEF P, Q, H
<1>11. 1 = (IF x \in out THEN 1 ELSE 0) + (IF P THEN 1 ELSE 0) + Cardinality(Q) + Cardinality(H)
  <2>1. CASE x \in out
    BY <1>2, <1>9, <1>10, <2>1
  <2>2. CASE x \notin out /\ Pushed = x
    BY <1>2, <1>9, <1>10, <2>2
  <2>3. CASE x \notin out /\ Pushed # x /\ Queued(x)
    BY <1>2, <1>9, <1>10, <2>3
  <2>4. CASE x \notin out /\ Pushed # x /\ ~Queued(x)
    BY <1>2, <1>9, <1>10, <2>4
  <2> QED
    BY <2>1, <2>2, <2>3, <2>4
<1> QED
  BY <1>11 DEF P, Q, H

\* No item is lost, none is taken twice, whatever the interleaving of the producer
\* and the consumers, and the ring never holds more than its slots.
THEOREM RingIsRight == Spec => []RingInv
<1>1. IInv => RingInv
  BY IInvConserves DEF RingInv, IInv, Owners
<1> QED
  BY <1>1, Invariance, PTL

-----------------------------------------------------------------------------
(***************************************************************************)
(* The ring is a double-ended queue.                                       *)
(***************************************************************************)
Got == [p \in Proc |-> Popped(p)]

LEMMA SameSeq ==
  ASSUME NEW s \in Seq(Item), NEW t \in Seq(Item), NEW n \in Nat,
         Len(s) = n, Len(t) = n, \A j \in 1 .. n : s[j] = t[j]
  PROVE  s = t
BY SeqEqual

LEMMA QueueStill ==
  ASSUME QueueRight, QueueRight', Count \in Nat, SameQueue
  PROVE  Queue' = Queue
<1>1. PICK n \in Nat, s \in Seq(Item), t \in Seq(Item) : n = Count /\ s = Queue /\ t = Queue'
  BY DEF QueueRight
<1>2. Count' = n /\ Len(s) = n /\ Len(t) = n
  BY <1>1 DEF QueueRight, SameQueue
<1>3. ASSUME NEW j \in 1 .. n PROVE s[j] = t[j]
  <2>1. PICK k \in 0 .. n - 1 : k = j - 1
    OBVIOUS
  <2>2. s[j] = Elem(k)
    BY <1>1, <1>2, <2>1 DEF QueueRight
  <2>3. t[j] = Elem(k)'
    <3>1. Queue'[j] = Elem(j - 1)'
      BY <1>2 DEF QueueRight
    <3> QED
      BY <1>1, <2>1, <3>1
  <2> QED
    BY <1>1, <2>1, <2>2, <2>3 DEF SameQueue
<1> QED
  BY <1>1, <1>2, <1>3, SameSeq

LEMMA QueueJoined ==
  ASSUME QueueRight, QueueRight', Count \in Nat, Joins
  PROVE  Queue' = Append(Queue, Pushed)
<1>1. PICK n \in Nat, s \in Seq(Item), t \in Seq(Item), x \in Item :
        n = Count /\ s = Queue /\ t = Queue' /\ x = Pushed
  BY DEF QueueRight, Joins
<1>2. /\ Count' = n + 1 /\ Len(s) = n /\ Len(t) = n + 1
      /\ \A k \in 0 .. n : Elem(k)' = IF k = n THEN x ELSE Elem(k)
  BY <1>1 DEF QueueRight, Joins
<1>3. PICK u \in Seq(Item) : u = Append(s, x)
  BY AppendProperties
<1>4. Len(u) = n + 1 /\ u[n + 1] = x /\ \A j \in 1 .. n : u[j] = s[j]
  BY <1>2, <1>3, AppendProperties
<1>5. ASSUME NEW j \in 1 .. n + 1 PROVE t[j] = u[j]
  <2>1. PICK k \in 0 .. n : k = j - 1
    OBVIOUS
  <2>2. t[j] = Elem(k)'
    <3>1. Queue'[j] = Elem(j - 1)'
      BY <1>2 DEF QueueRight
    <3> QED
      BY <1>1, <2>1, <3>1
  <2>3. CASE k = n
    BY <1>2, <1>4, <2>1, <2>2, <2>3
  <2>4. CASE k # n
    <3>1. j \in 1 .. n
      BY <2>1, <2>4
    <3>2. s[j] = Elem(k)
      BY <1>1, <2>1, <3>1 DEF QueueRight
    <3> QED
      BY <1>2, <1>4, <2>2, <2>4, <3>1, <3>2
  <2> QED
    BY <2>3, <2>4
<1>6. t = u
  BY <1>2, <1>4, <1>5, SeqEqual
<1> QED
  BY <1>1, <1>3, <1>6

LEMMA QueueShorterAtHead ==
  ASSUME QueueRight, QueueRight', Count \in Nat, TakenAtHead
  PROVE  /\ Queue # <<>> /\ Elem(Count - 1) = Queue[Len(Queue)]
         /\ Queue' = SubSeq(Queue, 1, Len(Queue) - 1)
<1>1. PICK n \in Nat, s \in Seq(Item), t \in Seq(Item) : n + 1 = Count /\ s = Queue /\ t = Queue'
  BY DEF QueueRight, TakenAtHead
<1>2. /\ Count' = n /\ Len(s) = n + 1 /\ Len(t) = n /\ Count - 1 = n /\ Count - 2 = n - 1
      /\ \A k \in 0 .. n - 1 : Elem(k)' = Elem(k)
  BY <1>1 DEF QueueRight, TakenAtHead
<1>3. s[n + 1] = Elem(n)
  <2>1. n + 1 \in 1 .. Count /\ n + 1 - 1 = n
    BY <1>1
  <2> QED
    BY <1>1, <2>1 DEF QueueRight
<1>4. PICK u \in Seq(Item) : u = SubSeq(s, 1, n)
  <2>1. \A i \in 1 .. n : s[i] \in Item
    BY <1>2, ElementOfSeq
  <2>2. 1 \in Int /\ n \in Int
    OBVIOUS
  <2>3. SubSeq(s, 1, n) \in Seq(Item)
    BY <2>1, <2>2, SubSeqProperties, Zenon
  <2> QED
    BY <2>3
<1>5. Len(u) = n /\ \A j \in 1 .. n : u[j] = s[j]
  BY <1>2, <1>4
<1>6. ASSUME NEW j \in 1 .. n PROVE t[j] = u[j]
  <2>1. PICK k \in 0 .. n - 1 : k = j - 1
    OBVIOUS
  <2>2. t[j] = Elem(k)'
    <3>1. Queue'[j] = Elem(j - 1)'
      BY <1>2 DEF QueueRight
    <3> QED
      BY <1>1, <2>1, <3>1
  <2>3. s[j] = Elem(k)
    <3>1. j \in 1 .. Count
      BY <1>1
    <3> QED
      BY <1>1, <2>1, <3>1 DEF QueueRight
  <2> QED
    BY <1>2, <1>5, <2>2, <2>3
<1>7. t = u
  BY <1>2, <1>5, <1>6, SeqEqual
<1>8. s # <<>> /\ Len(s) - 1 = n
  BY <1>2
<1> QED
  BY <1>1, <1>2, <1>3, <1>4, <1>7, <1>8

LEMMA QueueShorterAtTail ==
  ASSUME QueueRight, QueueRight', Count \in Nat, NEW c, TakenAtTail(c)
  PROVE  Queue # <<>> /\ Elem(0) = Head(Queue) /\ Queue' = Tail(Queue)
<1>1. PICK n \in Nat, s \in Seq(Item), t \in Seq(Item) : n + 1 = Count /\ s = Queue /\ t = Queue'
  BY DEF QueueRight, TakenAtTail
<1>2. /\ Count' = n /\ Len(s) = n + 1 /\ Len(t) = n /\ Count - 2 = n - 1
      /\ \A k \in 0 .. n - 1 : Elem(k)' = Elem(k + 1)
  BY <1>1 DEF QueueRight, TakenAtTail
<1>3. s[1] = Elem(0) /\ s # <<>>
  <2>1. 1 \in 1 .. Count /\ 1 - 1 = 0
    BY <1>1
  <2>2. s[1] = Elem(1 - 1)
    BY <1>1, <2>1 DEF QueueRight
  <2> QED
    BY <1>2, <2>1, <2>2
<1>4. PICK u \in Seq(Item) : u = Tail(s)
  BY <1>3, HeadTailProperties
<1>5. Len(u) = n /\ \A j \in 1 .. n : u[j] = s[j + 1]
  BY <1>2, <1>3, <1>4, HeadTailProperties
<1>6. ASSUME NEW j \in 1 .. n PROVE t[j] = u[j]
  <2>1. PICK k \in 0 .. n - 1 : k = j - 1 /\ k + 1 = j
    OBVIOUS
  <2>2. t[j] = Elem(k)'
    <3>1. Queue'[j] = Elem(j - 1)'
      BY <1>2 DEF QueueRight
    <3> QED
      BY <1>1, <2>1, <3>1
  <2>3. s[j + 1] = Elem(j)
    <3>1. j + 1 \in 1 .. Count /\ j + 1 - 1 = j
      BY <1>1
    <3> QED
      BY <1>1, <3>1 DEF QueueRight
  <2> QED
    BY <1>2, <1>5, <2>1, <2>2, <2>3
<1>7. t = u
  BY <1>2, <1>5, <1>6, SeqEqual
<1>8. Head(s) = s[1]
  BY <1>3
<1> QED
  BY <1>1, <1>3, <1>4, <1>7, <1>8

LEMMA DequeInit == Init => D!Init
<1> SUFFICES ASSUME Init PROVE D!Init
  OBVIOUS
<1>1. Count = 0 /\ QueueRight
  <2>1. Owners
    BY OwnersInit
  <2>2. Count = Wrap(0) /\ 0 \in 0 .. Indexes - 1
    BY Sizes DEF Count, Zero, Init
  <2> QED
    BY <2>1, <2>2, Wraps, QueueIs
<1>2. Queue = <<>>
  BY <1>1 DEF QueueRight
<1>3. \A p \in Proc : Popped(p) = None
  BY DEF Init, Popped
<1> QED
  BY <1>2, <1>3 DEF D!Init

LEMMA DequeStep ==
  ASSUME IInv, [Next]_vars
  PROVE  [D!Next]_<<Queue, Got>>
<1>1. Owners /\ Owners' /\ Effect
  BY IInvNext DEF IInv
<1>2. QueueRight /\ QueueRight'
  BY <1>1, QueueIs, PTL
<1>3. Count \in Nat /\ None \notin Item /\ \A k \in 0 .. Count - 1 : Elem(k) \in Item
  BY <1>1, Places
<1>4. Same(Proc) => Got' = Got
  BY DEF Same, Got
<1>5. ASSUME NEW p \in Proc, NEW x, Same(Proc \ {p}), Popped(p)' = x
      PROVE  Got' = [Got EXCEPT ![p] = x]
  BY <1>5 DEF Same, Got
<1>6. SameQueue => Queue' = Queue
  BY <1>2, <1>3, QueueStill
<1>7. CASE Nothing \/ (\E x \in Item : Begins(x)) \/ Fails
  BY <1>4, <1>6, <1>7 DEF Nothing, Begins, Fails
<1>8. CASE Joins
  <2>1. PICK x \in Item : x = Pushed
    BY <1>8 DEF Joins
  <2>2. Queue' = Append(Queue, x) /\ Got' = Got
    BY <1>2, <1>3, <1>4, <1>8, <2>1, QueueJoined DEF Joins
  <2>3. D!PushHead(x)
    BY <2>2 DEF D!PushHead, Got
  <2> QED
    BY <2>3 DEF D!Next
<1>9. CASE TakenAtHead
  <2>1. PICK x : x = Queue[Len(Queue)]
    OBVIOUS
  <2>2. /\ Queue # <<>> /\ Elem(Count - 1) = x
        /\ Queue' = SubSeq(Queue, 1, Len(Queue) - 1)
    BY <1>2, <1>3, <1>9, <2>1, QueueShorterAtHead
  <2>3. Got' = [Got EXCEPT ![Producer] = x] /\ Got[Producer] = None
    BY <1>5, <1>9, <2>2, Procs DEF TakenAtHead, Got
  <2>4. D!PopHead(Producer)
    BY <2>1, <2>2, <2>3 DEF D!PopHead, Got
  <2> QED
    BY <2>4, Procs DEF D!Next
<1>10. ASSUME NEW c \in Consumer, TakenAtTail(c) PROVE D!Next
  <2>1. PICK x : x = Head(Queue)
    OBVIOUS
  <2>2. Queue # <<>> /\ Elem(0) = x /\ Queue' = Tail(Queue)
    BY <1>2, <1>3, <1>10, <2>1, QueueShorterAtTail
  <2>3. Got' = [Got EXCEPT ![c] = x] /\ Got[c] = None
    BY <1>5, <1>10, <2>2, Procs DEF TakenAtTail, Got
  <2>4. D!PopTail(c)
    BY <2>1, <2>2, <2>3 DEF D!PopTail, Got
  <2> QED
    BY <2>4, Procs DEF D!Next
<1>11. ASSUME NEW p \in Proc, Returned(p) PROVE D!Next
  <2>1. Got' = [Got EXCEPT ![p] = None] /\ Got[p] # None /\ Queue' = Queue
    BY <1>3, <1>5, <1>6, <1>11 DEF Returned, Got
  <2>2. D!Return(p)
    BY <2>1 DEF D!Return, Got
  <2> QED
    BY <2>2 DEF D!Next
<1> QED
  BY <1>1, <1>7, <1>8, <1>9, <1>10, <1>11 DEF Effect

\* The poolDequeue implements the double-ended queue that every Pool shard, and
\* poolChain, rely on: one item for one process, from the end it was asked for.
THEOREM DequeueImplementsDeque == Spec => ImplementsDeque
<1>1. IInv /\ [Next]_vars => [D!Next]_<<Queue, [p \in Proc |-> Popped(p)]>>
  BY DequeStep DEF Got
<1> QED
  BY <1>1, DequeInit, Invariance, PTL DEF Spec, ImplementsDeque, D!Spec

=============================================================================
