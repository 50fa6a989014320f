------------------------------- MODULE Deque -------------------------------
(***************************************************************************)
(* What poolDequeue and poolChain promise: a queue of items that takes new *)
(* ones at its head and gives them out at either end, each to one process. *)
(* got[p] is the item that an operation of p has taken and not returned    *)
(* yet.  An operation that returns false changes nothing.                  *)
(***************************************************************************)
EXTENDS Sequences, Naturals

CONSTANTS Proc, Item, None

VARIABLES queue, got

Init == queue = <<>> /\ got = [p \in Proc |-> None]

PushHead(x) == queue' = Append(queue, x) /\ UNCHANGED got

PopHead(p) ==
  /\ queue # <<>> /\ got[p] = None
  /\ got' = [got EXCEPT ![p] = queue[Len(queue)]]
  /\ queue' = SubSeq(queue, 1, Len(queue) - 1)

PopTail(p) ==
  /\ queue # <<>> /\ got[p] = None
  /\ got' = [got EXCEPT ![p] = Head(queue)]
  /\ queue' = Tail(queue)

Return(p) ==
  /\ got[p] # None
  /\ got' = [got EXCEPT ![p] = None]
  /\ UNCHANGED queue

Next == \/ \E x \in Item : PushHead(x)
        \/ \E p \in Proc : PopHead(p) \/ PopTail(p) \/ Return(p)

Spec == Init /\ [][Next]_<<queue, got>>
=============================================================================
