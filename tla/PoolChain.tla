----------------------------- MODULE PoolChain -----------------------------
(***************************************************************************)
(* xsync/pool_chain.go: a doubly linked list of poolDequeues, each twice   *)
(* the size of the one before.  The producer pushes to the newest one and  *)
(* pops from the newest that is not empty; consumers pop from the oldest   *)
(* and drop it once it is drained.                                         *)
(*                                                                         *)
(* An operation on one dequeue is one step here: module PoolDequeue shows  *)
(* that it takes effect at once, but that a pushHead may find the ring     *)
(* full while a consumer is still emptying a slot.  Every atomic load,     *)
(* store and exchange of a pointer is a step of its own.                   *)
(***************************************************************************)
EXTENDS Integers, Sequences, FiniteSets, SequencesExt

CONSTANTS Producer, Consumer, Item,
          None,      \* no item, no element: nil
          InitSize,  \* initSize
          Limit,     \* dequeueLimit
          MaxElts    \* bound: how many dequeues are ever allocated

ASSUME ChainAssumption ==
  /\ Producer \notin Consumer /\ None \notin Item \cup (1 .. MaxElts)
  /\ InitSize \in Nat \ {0} /\ Limit \in Nat /\ InitSize <= Limit /\ MaxElts \in Nat

Proc == Consumer \cup {Producer}
Elt == 1 .. MaxElts           \* poolChainElts, in the order of their allocation
Link == Elt \cup {None}

VARIABLES
  head, tail,        \* c.head and c.tail
  size, q,           \* each element's ring: its length and what is in it
  next, prev,        \* each element's links
  pc, at, nx, item,  \* each process: where it is, its d and d2, its item
  out                \* the items that are neither in the chain nor in an operation

rings == <<size, q>>
links == <<head, tail, next, prev>>
vars == <<links, rings, pc, at, nx, item, out>>

Init ==
  /\ head = None /\ tail = None
  /\ size = [e \in Elt |-> 0] /\ q = [e \in Elt |-> <<>>]
  /\ next = [e \in Elt |-> None] /\ prev = [e \in Elt |-> None]
  /\ pc = [p \in Proc |-> "idle"]
  /\ at = [p \in Proc |-> None] /\ nx = [p \in Proc |-> None]
  /\ item = [p \in Proc |-> None]
  /\ out = Item

Goto(p, l) == pc' = [pc EXCEPT ![p] = l]

\* The operation of p ends; its locals go out of scope.
Return(p) ==
  /\ Goto(p, "idle")
  /\ at' = [at EXCEPT ![p] = None] /\ nx' = [nx EXCEPT ![p] = None]

Fresh == Cardinality({e \in Elt : size[e] > 0}) + 1

(***************************************************************************)
(* pushHead.                                                               *)
(***************************************************************************)
\* A push begins only if it can end within MaxElts dequeues.
WithinBound == Fresh \in Elt \/ (head # None /\ Len(q[head]) < size[head])

PushHead(x) ==
  /\ pc[Producer] = "idle" /\ x \in out /\ WithinBound
  /\ item' = [item EXCEPT ![Producer] = x] /\ out' = out \ {x}
  /\ Goto(Producer, "push")
  /\ \/ head # None /\ UNCHANGED <<head, tail, size>>
     \/ /\ head = None
        /\ head' = 1 /\ tail' = 1
        /\ size' = [size EXCEPT ![1] = InitSize]
  /\ at' = [at EXCEPT ![Producer] = head']
  /\ UNCHANGED <<next, prev, q, nx>>

\* A consumer has taken an item from the ring of d and is emptying its slot.
Emptying(d) == \E c \in Consumer : pc[c] = "have" /\ at[c] = d

Push ==
  /\ pc[Producer] = "push" /\ Len(q[head]) < size[head]
  /\ q' = [q EXCEPT ![head] = Append(@, item[Producer])]
  /\ item' = [item EXCEPT ![Producer] = None]
  /\ Return(Producer)
  /\ UNCHANGED <<links, size, out>>

NewSize(n) == IF n * 2 >= Limit THEN Limit ELSE n * 2

\* A bug: the new dequeue does not link back.
PrevOfNew_None(d) == None

\* The new dequeue links back to the one that was the newest.
PrevOfNew(d) == d

PushFull ==
  /\ pc[Producer] = "push"
  /\ Len(q[head]) = size[head] \/ Emptying(head)
  /\ Fresh \in Elt
  /\ size' = [size EXCEPT ![Fresh] = NewSize(size[head])]
  /\ prev' = [prev EXCEPT ![Fresh] = PrevOfNew(head)]
  /\ head' = Fresh
  /\ Goto(Producer, "link")
  /\ UNCHANGED <<tail, next, q, at, nx, item, out>>

StoreNext ==
  /\ pc[Producer] = "link"
  /\ next' = [next EXCEPT ![at[Producer]] = head]
  /\ Goto(Producer, "pushNew")
  /\ UNCHANGED <<head, tail, prev, rings, at, nx, item, out>>

\* The result of this push is not looked at: the new dequeue has room.
PushNew ==
  /\ pc[Producer] = "pushNew"
  /\ q' = [q EXCEPT ![head] = Append(@, item[Producer])]
  /\ item' = [item EXCEPT ![Producer] = None]
  /\ Return(Producer)
  /\ UNCHANGED <<links, size, out>>

(***************************************************************************)
(* popHead, by the producer.                                               *)
(***************************************************************************)
PopHead ==
  /\ pc[Producer] = "idle"
  /\ \/ head = None /\ UNCHANGED <<pc, at>>
     \/ head # None /\ Goto(Producer, "pop") /\ at' = [at EXCEPT ![Producer] = head]
  /\ UNCHANGED <<links, rings, nx, item, out>>

HeadPop ==
  /\ pc[Producer] = "pop"
  /\ LET d == at[Producer] IN
       \/ /\ q[d] # <<>>
          /\ item' = [item EXCEPT ![Producer] = Last(q[d])]
          /\ q' = [q EXCEPT ![d] = Front(@)]
          /\ Goto(Producer, "have")
       \/ q[d] = <<>> /\ Goto(Producer, "back") /\ UNCHANGED <<item, q>>
  /\ UNCHANGED <<links, size, at, nx, out>>

HeadBack ==
  /\ pc[Producer] = "back"
  /\ LET d == prev[at[Producer]] IN
       \/ d = None /\ Return(Producer)
       \/ d # None /\ Goto(Producer, "pop") /\ at' = [at EXCEPT ![Producer] = d] /\ UNCHANGED nx
  /\ UNCHANGED <<links, rings, item, out>>

(***************************************************************************)
(* popTail, by a consumer.                                                 *)
(***************************************************************************)
PopTail(c) ==
  /\ pc[c] = "idle"
  /\ \/ tail = None /\ UNCHANGED <<pc, at>>
     \/ tail # None /\ Goto(c, "next") /\ at' = [at EXCEPT ![c] = tail]
  /\ UNCHANGED <<links, rings, nx, item, out>>

LoadNext(c) ==
  /\ pc[c] = "next" /\ Goto(c, "pop")
  /\ nx' = [nx EXCEPT ![c] = next[at[c]]]
  /\ UNCHANGED <<links, rings, at, item, out>>

TailPop(c) ==
  /\ pc[c] = "pop"
  /\ LET d == at[c] IN
       \/ /\ q[d] # <<>>
          /\ item' = [item EXCEPT ![c] = Head(q[d])]
          /\ q' = [q EXCEPT ![d] = Tail(@)]
          /\ Goto(c, "have")
       \/ q[d] = <<>> /\ Goto(c, "drop") /\ UNCHANGED <<item, q>>
  /\ UNCHANGED <<links, size, at, nx, out>>

\* A bug: next is loaded after the pop has failed.
NextSeen_After(c) == next[at[c]]

\* The next pointer that decides what to do with an empty dequeue.
NextSeen(c) == nx[c]

\* A bug: tail is stored without a comparison.
StillTail_NotChecked(c) == TRUE

\* The compare-and-swap on c.tail succeeds.
StillTail(c) == tail = at[c]

LastDequeue(c) ==
  /\ pc[c] = "drop" /\ NextSeen(c) = None
  /\ Return(c)
  /\ UNCHANGED <<links, rings, item, out>>

Drop(c) ==
  /\ pc[c] = "drop" /\ NextSeen(c) # None
  /\ nx' = [nx EXCEPT ![c] = NextSeen(c)]
  /\ \/ StillTail(c) /\ tail' = NextSeen(c) /\ Goto(c, "clear") /\ UNCHANGED at
     \/ ~StillTail(c) /\ Goto(c, "next") /\ at' = [at EXCEPT ![c] = NextSeen(c)] /\ UNCHANGED tail
  /\ UNCHANGED <<head, next, prev, rings, item, out>>

ClearPrev(c) ==
  /\ pc[c] = "clear" /\ Goto(c, "next")
  /\ prev' = [prev EXCEPT ![nx[c]] = None]
  /\ at' = [at EXCEPT ![c] = nx[c]]
  /\ UNCHANGED <<head, tail, next, rings, nx, item, out>>

\* A pop that has an item returns it.
ReturnItem(p) ==
  /\ pc[p] = "have"
  /\ out' = out \cup {item[p]}
  /\ item' = [item EXCEPT ![p] = None]
  /\ Return(p)
  /\ UNCHANGED <<links, rings>>

-----------------------------------------------------------------------------
ProducerStep == Push \/ PushFull \/ StoreNext \/ PushNew \/ HeadPop \/ HeadBack
ConsumerStep(c) == LoadNext(c) \/ TailPop(c) \/ LastDequeue(c) \/ Drop(c) \/ ClearPrev(c)

Next == \/ \E x \in Item : PushHead(x)
        \/ PopHead \/ ProducerStep
        \/ \E c \in Consumer : PopTail(c) \/ ConsumerStep(c)
        \/ \E p \in Proc : ReturnItem(p)

Spec == Init /\ [][Next]_vars

-----------------------------------------------------------------------------
(***************************************************************************)
(* Properties.                                                             *)
(***************************************************************************)
\* Links lead to elements, rings stay within their sizes and sizes within the limit.
TypeOK ==
  /\ head \in Link /\ tail \in Link
  /\ next \in [Elt -> Link] /\ prev \in [Elt -> Link]
  /\ size \in [Elt -> 0 .. Limit]
  /\ \A e \in Elt : q[e] \in Seq(Item) /\ Len(q[e]) <= size[e]
  /\ pc \in [Proc -> {"idle", "push", "link", "pushNew", "pop", "back", "next",
                      "drop", "clear", "have"}]
  /\ at \in [Proc -> Link] /\ nx \in [Proc -> Link]
  /\ item \in [Proc -> Item \cup {None}] /\ out \subseteq Item

\* The comment at pool_chain.go:102-107: a dequeue that has been dropped from
\* the chain, or that a consumer is about to drop, is empty for good.
DroppedIsEmpty ==
  /\ tail # None => \A e \in 1 .. tail - 1 : q[e] = <<>>
  /\ \A c \in Consumer : pc[c] = "drop" /\ NextSeen(c) # None => q[at[c]] = <<>> /\ at[c] # head

\* The comment at pool_chain.go:87-88: popHead backs up over everything that may
\* hold an element; it gives up only if the whole chain is empty.
PopHeadMissesNothing ==
  pc[Producer] = "back" /\ prev[at[Producer]] = None => \A e \in Elt : q[e] = <<>>

\* What holds of the chain between any two atomic steps.
ChainInv == TypeOK /\ DroppedIsEmpty /\ PopHeadMissesNothing

\* The comments at pool_chain.go:29-38: next only goes from nil to non-nil and
\* prev from non-nil to nil, once an element is linked; and the tail never goes back.
LinksMoveOneWay ==
  [][/\ \A e \in Elt : next[e] # None => next'[e] = next[e]
     /\ \A e \in Elt : size[e] > 0 /\ prev'[e] # prev[e] => prev'[e] = None
     /\ tail # None => tail' >= tail]_vars

\* Whatever the dequeues it is made of, the chain is one double-ended queue:
\* items come out at the tail in the order of their pushes, each to one process,
\* and a pop at the head takes the newest of them.
D == INSTANCE Deque WITH queue <- FlattenSeq(q),
       got <- [p \in Proc |-> IF pc[p] = "have" THEN item[p] ELSE None]
ImplementsDeque == D!Spec
=============================================================================
