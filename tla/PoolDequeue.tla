---------------------------- MODULE PoolDequeue ----------------------------
(***************************************************************************)
(* xsync/pool_queue.go: a lock-free ring with one producer, which pushes   *)
(* and pops at the head, and consumers, which pop at the tail.             *)
(*                                                                         *)
(* A step is one atomic operation on headTail or on the type word of a     *)
(* slot, or the plain accesses between two of them, except that popTail's  *)
(* two stores to a slot are two steps: their order is what hands the slot  *)
(* back.  Indexes are Bits wide and wrap around.                           *)
(***************************************************************************)
EXTENDS Integers, Sequences, FiniteSets

CONSTANTS Producer, Consumer,
          Item,     \* what is pushed, each item in one place at a time
          NilItem,  \* the item that is interface{}(nil)
          None,     \* no item
          Bits,     \* dequeueBits
          Size      \* len(vals), a power of 2

Limit == 2 ^ Bits \div 4     \* dequeueLimit

ASSUME DequeueAssumption ==
  /\ Producer \notin Consumer
  /\ NilItem \in Item /\ None \notin Item
  /\ Bits \in Nat /\ Size \in 1 .. Limit
  /\ 2 ^ Bits % Size = 0   \* as it is for every power of 2

Proc == Consumer \cup {Producer}
Index == 0 .. 2 ^ Bits - 1
Slot == 0 .. Size - 1

Zero == [head |-> 0, tail |-> 0]

VARIABLES
  headTail,   \* the packed head and tail
  typ, val,   \* the two words of each slot
  pc,         \* where each process is in its operation
  ptrs,       \* the headTail it has loaded
  item,       \* the item it pushes, or has popped
  out         \* the items that are neither in the ring nor in an operation

vars == <<headTail, typ, val, pc, ptrs, item, out>>

Init ==
  /\ headTail = Zero
  /\ typ = [s \in Slot |-> "nil"] /\ val = [s \in Slot |-> None]
  /\ pc = [p \in Proc |-> "idle"]
  /\ ptrs = [p \in Proc |-> Zero]
  /\ item = [p \in Proc |-> None]
  /\ out = Item

(***************************************************************************)
(* Indexes and slots.                                                      *)
(***************************************************************************)

Wrap(i) == i % 2 ^ Bits
At(i) == i % Size
\* A bug: a ring that has wrapped around is not recognized as empty.
Empty_AtZero(ht) == ht.head = 0 /\ ht.tail = 0

Empty(ht) == ht.head = ht.tail

Full(ht) == Wrap(ht.tail + Size) = ht.head

\* The type word and the data word that represent an item; dequeueNil stands
\* for interface{}(nil), so that the type word of a slot in use is not nil.
TypOf(x) == IF x = NilItem THEN "dequeueNil" ELSE "type"
ValOf(x) == IF x = NilItem THEN None ELSE x
Decode(s) == IF typ[s] = "type" THEN val[s] ELSE NilItem

Goto(p, l) == pc' = [pc EXCEPT ![p] = l]
Load(p) == ptrs' = [ptrs EXCEPT ![p] = headTail]

\* The operation of p ends; an item it leaves with is outside from now on.
Return(p, x) ==
  /\ Goto(p, "idle")
  /\ item' = [item EXCEPT ![p] = None]
  /\ ptrs' = [ptrs EXCEPT ![p] = Zero]
  /\ out' = IF x = None THEN out ELSE out \cup {x}

\* A bug: the exchange succeeds even if headTail has changed.
Unchanged_NotChecked(p) == TRUE

\* The compare-and-swap on headTail succeeds.
Unchanged(p) == headTail = ptrs[p]

(***************************************************************************)
(* pushHead, by the producer.                                              *)
(***************************************************************************)
PushHead(x) ==
  /\ pc[Producer] = "idle" /\ x \in out
  /\ item' = [item EXCEPT ![Producer] = x] /\ out' = out \ {x}
  /\ Goto(Producer, "pushLoad")
  /\ UNCHANGED <<headTail, typ, val, ptrs>>

PushLoad ==
  /\ pc[Producer] = "pushLoad"
  /\ \/ Full(headTail) /\ Return(Producer, item[Producer])
     \/ ~Full(headTail) /\ Load(Producer) /\ Goto(Producer, "pushTyp") /\ UNCHANGED <<item, out>>
  /\ UNCHANGED <<headTail, typ, val>>

\* A bug: pushHead does not wait for the consumer that empties the slot.
Released_Always(s) == TRUE

Released(s) == typ[s] = "nil"

PushTyp ==
  /\ pc[Producer] = "pushTyp"
  /\ LET free == Released(At(ptrs[Producer].head)) IN
       \/ free /\ Goto(Producer, "pushWrite") /\ UNCHANGED <<ptrs, item, out>>
       \/ ~free /\ Return(Producer, item[Producer])
  /\ UNCHANGED <<headTail, typ, val>>

PushWrite ==
  /\ pc[Producer] = "pushWrite"
  /\ LET s == At(ptrs[Producer].head) IN
       /\ typ' = [typ EXCEPT ![s] = TypOf(item[Producer])]
       /\ val' = [val EXCEPT ![s] = ValOf(item[Producer])]
  /\ Goto(Producer, "pushAdd")
  /\ UNCHANGED <<headTail, ptrs, item, out>>

\* The addition reaches the head only: a tail that has moved is kept.
PushAdd ==
  /\ pc[Producer] = "pushAdd"
  /\ headTail' = [headTail EXCEPT !.head = Wrap(@ + 1)]
  /\ Return(Producer, None)
  /\ UNCHANGED <<typ, val>>

(***************************************************************************)
(* popHead, by the producer.                                               *)
(***************************************************************************)
PopHead ==
  /\ pc[Producer] = "idle" /\ Goto(Producer, "headLoad")
  /\ UNCHANGED <<headTail, typ, val, ptrs, item, out>>

HeadLoad ==
  /\ pc[Producer] = "headLoad"
  /\ \/ Empty(headTail) /\ Return(Producer, None)
     \/ ~Empty(headTail) /\ Load(Producer) /\ Goto(Producer, "headCAS") /\ UNCHANGED <<item, out>>
  /\ UNCHANGED <<headTail, typ, val>>

\* A bug: headTail is loaded once, before the loop.
Retry_Hoisted == "headCAS"

\* Where popHead goes on after an exchange that failed.
Retry == "headLoad"

HeadCAS ==
  /\ pc[Producer] = "headCAS"
  /\ \/ /\ Unchanged(Producer)
        /\ headTail' = [ptrs[Producer] EXCEPT !.head = Wrap(@ - 1)]
        /\ Goto(Producer, "headTake")
     \/ ~Unchanged(Producer) /\ Goto(Producer, Retry) /\ UNCHANGED headTail
  /\ UNCHANGED <<typ, val, ptrs, item, out>>

\* Reading and zeroing the slot: no consumer can reach it any more.
HeadSlot == At(Wrap(ptrs[Producer].head - 1))

HeadTake ==
  /\ pc[Producer] = "headTake"
  /\ Return(Producer, Decode(HeadSlot))
  /\ typ' = [typ EXCEPT ![HeadSlot] = "nil"]
  /\ val' = [val EXCEPT ![HeadSlot] = None]
  /\ UNCHANGED headTail

(***************************************************************************)
(* popTail, by a consumer.                                                 *)
(***************************************************************************)
PopTail(c) ==
  /\ pc[c] = "idle" /\ Goto(c, "tailLoad")
  /\ UNCHANGED <<headTail, typ, val, ptrs, item, out>>

TailLoad(c) ==
  /\ pc[c] = "tailLoad"
  /\ \/ Empty(headTail) /\ Return(c, None)
     \/ ~Empty(headTail) /\ Load(c) /\ Goto(c, "tailCAS") /\ UNCHANGED <<item, out>>
  /\ UNCHANGED <<headTail, typ, val>>

TailCAS(c) ==
  /\ pc[c] = "tailCAS"
  /\ \/ /\ Unchanged(c)
        /\ headTail' = [ptrs[c] EXCEPT !.tail = Wrap(@ + 1)]
        /\ Goto(c, "tailTake")
     \/ ~Unchanged(c) /\ Goto(c, "tailLoad") /\ UNCHANGED headTail
  /\ UNCHANGED <<typ, val, ptrs, item, out>>

TailSlot(c) == At(ptrs[c].tail)

TailTake(c) ==
  /\ pc[c] = "tailTake" /\ Goto(c, "clearVal")
  /\ item' = [item EXCEPT ![c] = Decode(TailSlot(c))]
  /\ UNCHANGED <<headTail, typ, val, ptrs, out>>

ClearVal(c) ==
  /\ pc[c] = "clearVal" /\ Goto(c, "clearTyp")
  /\ val' = [val EXCEPT ![TailSlot(c)] = None]
  /\ UNCHANGED <<headTail, typ, ptrs, item, out>>

ClearTyp(c) ==
  /\ pc[c] = "clearTyp"
  /\ typ' = [typ EXCEPT ![TailSlot(c)] = "nil"]
  /\ Return(c, item[c])
  /\ UNCHANGED <<headTail, val>>

-----------------------------------------------------------------------------
ProducerStep == PushLoad \/ PushTyp \/ PushWrite \/ PushAdd
                \/ HeadLoad \/ HeadCAS \/ HeadTake
ConsumerStep(c) == TailLoad(c) \/ TailCAS(c) \/ TailTake(c) \/ ClearVal(c) \/ ClearTyp(c)

Next == \/ \E x \in Item : PushHead(x)
        \/ PopHead
        \/ ProducerStep
        \/ \E c \in Consumer : PopTail(c) \/ ConsumerStep(c)

Spec == Init /\ [][Next]_vars

\* Operations that have begun go on; nobody has to begin one.
FairSpec == Spec /\ WF_vars(ProducerStep) /\ \A c \in Consumer : WF_vars(ConsumerStep(c))

-----------------------------------------------------------------------------
(***************************************************************************)
(* Properties.                                                             *)
(***************************************************************************)
\* Every word of the ring and of the operations keeps to its values.
TypeOK ==
  /\ headTail \in [head : Index, tail : Index]
  /\ typ \in [Slot -> {"nil", "type", "dequeueNil"}]
  /\ val \in [Slot -> Item \cup {None}]
  /\ pc \in [Proc -> {"idle", "pushLoad", "pushTyp", "pushWrite", "pushAdd", "headLoad",
                      "headCAS", "headTake", "tailLoad", "tailCAS", "tailTake",
                      "clearVal", "clearTyp"}]
  /\ ptrs \in [Proc -> [head : Index, tail : Index]]
  /\ item \in [Proc -> Item \cup {None}]
  /\ out \subseteq Item

Count == Wrap(headTail.head - headTail.tail)
InQueue(s) == \E k \in 0 .. Count - 1 : s = At(Wrap(headTail.tail + k))

\* The ring never holds more than its size, although head and tail wrap around.
NeverOverfull == Count <= Size

\* Who is busy with a slot outside the queue: the producer that has found it
\* free, the popHead that has taken it back, the popTail that has it still.
Filling(s) == pc[Producer] = "pushAdd" /\ s = At(ptrs[Producer].head)
Emptying(s) ==
  \/ pc[Producer] = "headTake" /\ s = HeadSlot
  \/ \E c \in Consumer : pc[c] \in {"tailTake", "clearVal", "clearTyp"} /\ s = TailSlot(c)

\* The comment at pool_queue.go:12-14: a slot that no operation is busy with is
\* empty, in both its words, if it is outside the queue, and in use otherwise.
SlotsHandedOver ==
  \A s \in Slot :
    IF InQueue(s) THEN typ[s] # "nil" /\ ~Emptying(s)
    ELSE Filling(s) \/ Emptying(s) \/ (typ[s] = "nil" /\ val[s] = None)

\* The value a process holds or is about to read from the slot it owns.
Popped(p) ==
  IF pc[p] = "headTake" THEN Decode(HeadSlot)
  ELSE IF pc[p] = "tailTake" THEN Decode(TailSlot(p))
  ELSE IF pc[p] \in {"clearVal", "clearTyp"} THEN item[p]
  ELSE None

Queue == [k \in 1 .. Count |-> Decode(At(Wrap(headTail.tail + k - 1)))]

\* No item is lost and none is in two places: outside, pushed, in the queue, popped.
ItemsConserved ==
  \A x \in Item :
    1 = (IF x \in out THEN 1 ELSE 0)
        + (IF pc[Producer] \in {"pushLoad", "pushTyp", "pushWrite", "pushAdd"}
                /\ item[Producer] = x THEN 1 ELSE 0)
        + Cardinality({k \in 1 .. Count : Queue[k] = x})
        + Cardinality({p \in Proc : Popped(p) = x})

\* What holds of the ring between any two atomic steps, but for the slots.
RingInv == TypeOK /\ NeverOverfull /\ ItemsConserved

\* The ring is a double-ended queue: items come out at the tail in the order of
\* their pushes, at the head in the opposite order, each for one process.
D == INSTANCE Deque WITH queue <- Queue, got <- [p \in Proc |-> Popped(p)]
ImplementsDeque == D!Spec

\* Every operation of the producer ends: a compare-and-swap of its popHead fails
\* only if a consumer has taken an item that was there when it began.
ProducerReturns == (pc[Producer] # "idle") ~> (pc[Producer] = "idle")
=============================================================================
