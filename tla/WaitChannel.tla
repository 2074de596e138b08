---------------------------- MODULE WaitChannel ----------------------------
(***************************************************************************)
(* The wait channels of kern/thread/thread.c, as the data they are: a list *)
(* of threads kept in the order they went to sleep.  Every channel comes   *)
(* with a spinlock its users hold around these operations.                 *)
(***************************************************************************)
EXTENDS Naturals, Sequences, FiniteSets

\* wchan_sleep through thread_switch: the thread goes to the tail.
Asleep(chan, t) == Append(chan, t)

\* wchan_wakeone: the thread at the head leaves the channel ...
Woke(chan) == Head(chan)

\* ... and the others stay, in order.
AfterWakeOne(chan) == Tail(chan)

\* The threads on a channel (what wchan_wakeall makes runnable).
On(chan) == {chan[i] : i \in 1..Len(chan)}

\* The channel lists the threads of A and nobody else, each of them once.
Lists(chan, A) ==
  /\ On(chan) = A
  /\ \A i, j \in 1..Len(chan) : chan[i] = chan[j] => i = j
=============================================================================
