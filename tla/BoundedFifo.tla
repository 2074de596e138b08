---------------------------- MODULE BoundedFifo ----------------------------
(***************************************************************************)
(* What producer_send and consumer_receive promise: a first-in first-out   *)
(* buffer of bounded capacity.  A put is one step, a get hands the oldest  *)
(* item, whole, to one consumer.                                           *)
(***************************************************************************)
EXTENDS Naturals, Sequences

CONSTANTS Item,      \* what is sent
          Consumers, \* who receives
          Capacity,  \* how many items the buffer holds
          NoItem     \* a consumer that was not handed anything yet

VARIABLES queue, \* the items in the buffer, oldest first
          got    \* the item each consumer was handed in its last call

vars == <<queue, got>>

Init == queue = <<>> /\ got = [c \in Consumers |-> NoItem]

Put(x) ==
  /\ Len(queue) < Capacity
  /\ queue' = Append(queue, x)
  /\ UNCHANGED got

\* A consumer calls consumer_receive again.
Ask(c) ==
  /\ got[c] # NoItem
  /\ got' = [got EXCEPT ![c] = NoItem]
  /\ UNCHANGED queue

Get(c) ==
  /\ queue # <<>> /\ got[c] = NoItem
  /\ got' = [got EXCEPT ![c] = Head(queue)]
  /\ queue' = Tail(queue)

Next == (\E x \in Item : Put(x)) \/ (\E c \in Consumers : Ask(c) \/ Get(c))

Spec == Init /\ [][Next]_vars
=============================================================================
