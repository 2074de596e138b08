-------------------------- MODULE ProducerConsumer --------------------------
(***************************************************************************)
(* The bounded buffer of asst1 (kern/asst1/producerconsumer.c) run by its  *)
(* driver: producers send their items, the main thread waits for them,     *)
(* sends one (0, 0) item per consumer to stop it, waits for the consumers  *)
(* and destroys the lock and the semaphores.                               *)
(*                                                                         *)
(* Threads are preempted anywhere.  P, V, lock_acquire and lock_release    *)
(* are the atomic operations that Semaphore and Monitor show them to be;   *)
(* the copy of the two fields of an item is not atomic, and is two steps.  *)
(* An item is the pair <<sender, number>>; the driver derives both fields  *)
(* of an item from it, so a field is represented by the item it is of.     *)
(***************************************************************************)
EXTENDS Naturals, Sequences, FiniteSets

CONSTANTS Producers,      \* the producer threads
          Consumers,      \* the consumer threads
          Main,           \* the thread that runs run_producerconsumer
          Nobody,         \* pc_lock is free
          BufferSize,     \* BUFFER_SIZE
          ItemsToProduce  \* ITEMS_TO_PRODUCE

Senders == Producers \cup {Main}
Thread  == Senders \cup Consumers

ASSUME PCAssumption ==
  /\ IsFiniteSet(Producers) /\ IsFiniteSet(Consumers)
  /\ Producers \cap Consumers = {} /\ Main \notin Producers \cup Consumers
  /\ Nobody \notin Thread
  /\ BufferSize \in Nat \ {0}
  /\ ItemsToProduce \in Nat

\* The (0, 0) item; a static buffer also starts out full of zeroes.
Zero == <<Main, 0>>

Item == (Producers \X (1..ItemsToProduce)) \cup {Zero}

\* struct pc_data
PcData == [item1 : Item, item2 : Item]

\* A consumer that holds nothing is told apart from one that holds an item.
ASSUME NobodyAssumption == Nobody \notin PcData

\* NUM_CONSUMERS: somebody empties the ring.
ASSUME ConsumersAssumption == Consumers # {}

VARIABLES
  buffer, hi, lo,      \* the ring and its two indices
  pc_lock,             \* holder of pc_lock
  empty_sem, full_sem, \* counts of the buffer's semaphores
  producer_finished, consumer_finished, \* counts of the driver's semaphores
  pc,                  \* the next operation of each thread
  thedata,             \* each thread's local struct pc_data
  left                 \* each sender's loop counter

ring  == <<buffer, hi, lo>>
sems  == <<empty_sem, full_sem>>
fins  == <<producer_finished, consumer_finished>>
vars  == <<buffer, hi, lo, pc_lock, empty_sem, full_sem, producer_finished,
           consumer_finished, pc, thedata, left>>

\* The operations of a call, in program order, and the driver's around them.
InCall == {"P", "lock", "copy1", "copy2", "unlock", "V"}
Driver == {"start", "finish", "join", "reap", "shutdown", "done"}

TypeOK ==
  /\ buffer \in [0..BufferSize-1 -> PcData]
  /\ hi \in 0..BufferSize-1 /\ lo \in 0..BufferSize-1
  /\ pc_lock \in Thread \cup {Nobody}
  /\ empty_sem \in Nat /\ full_sem \in Nat
  /\ producer_finished \in Nat /\ consumer_finished \in Nat
  /\ pc \in [Thread -> InCall \cup Driver]
  /\ thedata \in [Thread -> PcData]
  /\ left \in [Senders -> Nat]

\* Mutation: the semaphore counts one slot more than the ring has.
InitOneMore ==
  /\ buffer = [i \in 0..BufferSize-1 |-> [item1 |-> Zero, item2 |-> Zero]]
  /\ hi = 0 /\ lo = 0
  /\ pc_lock = Nobody
  /\ empty_sem = 0 /\ full_sem = BufferSize + 1
  /\ producer_finished = 0 /\ consumer_finished = 0
  /\ pc = [t \in Thread |-> IF t = Main THEN "join"
                            ELSE IF t \in Producers THEN "start" ELSE "P"]
  /\ thedata = [t \in Thread |-> [item1 |-> Zero, item2 |-> Zero]]
  /\ left = [s \in Senders |-> IF s = Main THEN Cardinality(Producers) ELSE ItemsToProduce]

\* producerconsumer_startup, and the threads as the driver forks them.
Init ==
  /\ buffer = [i \in 0..BufferSize-1 |-> [item1 |-> Zero, item2 |-> Zero]]
  /\ hi = 0 /\ lo = 0
  /\ pc_lock = Nobody
  /\ empty_sem = 0 /\ full_sem = BufferSize
  /\ producer_finished = 0 /\ consumer_finished = 0
  /\ pc = [t \in Thread |-> IF t = Main THEN "join"
                            ELSE IF t \in Producers THEN "start" ELSE "P"]
  /\ thedata = [t \in Thread |-> [item1 |-> Zero, item2 |-> Zero]]
  /\ left = [s \in Senders |-> IF s = Main THEN Cardinality(Producers) ELSE ItemsToProduce]

Goto(t, place) == pc' = [pc EXCEPT ![t] = place]

-----------------------------------------------------------------------------
(* producer_send *)

SendP(s) ==
  /\ pc[s] = "P" /\ full_sem > 0
  /\ full_sem' = full_sem - 1
  /\ Goto(s, "lock")
  /\ UNCHANGED <<ring, pc_lock, empty_sem, fins, thedata, left>>

\* lock_acquire, in both calls
Lock(t) ==
  /\ pc[t] = "lock" /\ pc_lock = Nobody
  /\ pc_lock' = t
  /\ Goto(t, "copy1")
  /\ UNCHANGED <<ring, sems, fins, thedata, left>>

Store1(s) ==
  /\ pc[s] = "copy1"
  /\ buffer' = [buffer EXCEPT ![hi].item1 = thedata[s].item1]
  /\ Goto(s, "copy2")
  /\ UNCHANGED <<hi, lo, pc_lock, sems, fins, thedata, left>>

\* The second field, and hi moves on.
Store2(s) ==
  /\ pc[s] = "copy2"
  /\ buffer' = [buffer EXCEPT ![hi].item2 = thedata[s].item2]
  /\ hi' = (hi + 1) % BufferSize
  /\ Goto(s, "unlock")
  /\ UNCHANGED <<lo, pc_lock, sems, fins, thedata, left>>

\* lock_release, in both calls
Unlock(t) ==
  /\ pc[t] = "unlock" /\ pc_lock = t
  /\ pc_lock' = Nobody
  /\ Goto(t, "V")
  /\ UNCHANGED <<ring, sems, fins, thedata, left>>

\* V(empty_sem) and the return to the sender's loop.
SendV(s) ==
  /\ pc[s] = "V"
  /\ empty_sem' = empty_sem + 1
  /\ left' = [left EXCEPT ![s] = left[s] - 1]
  /\ Goto(s, "start")
  /\ UNCHANGED <<ring, pc_lock, full_sem, fins, thedata>>

-----------------------------------------------------------------------------
(* consumer_receive *)

ReceiveP(c) ==
  /\ pc[c] = "P" /\ empty_sem > 0
  /\ empty_sem' = empty_sem - 1
  /\ Goto(c, "lock")
  /\ UNCHANGED <<ring, pc_lock, full_sem, fins, thedata, left>>

Load1(c) ==
  /\ pc[c] = "copy1"
  /\ thedata' = [thedata EXCEPT ![c].item1 = buffer[lo].item1]
  /\ Goto(c, "copy2")
  /\ UNCHANGED <<ring, pc_lock, sems, fins, left>>

\* Mutation: lo stays where it is.
Load2NoAdvance(c) ==
  /\ pc[c] = "copy2"
  /\ thedata' = [thedata EXCEPT ![c].item2 = buffer[lo].item2]
  /\ Goto(c, "unlock")
  /\ UNCHANGED <<ring, pc_lock, sems, fins, left>>

\* The second field, and lo moves on.
Load2(c) ==
  /\ pc[c] = "copy2"
  /\ thedata' = [thedata EXCEPT ![c].item2 = buffer[lo].item2]
  /\ lo' = (lo + 1) % BufferSize
  /\ Goto(c, "unlock")
  /\ UNCHANGED <<buffer, hi, pc_lock, sems, fins, left>>

\* V(full_sem); the consumer goes on unless both fields are zero.
ReceiveV(c) ==
  /\ pc[c] = "V"
  /\ full_sem' = full_sem + 1
  /\ Goto(c, IF thedata[c] = [item1 |-> Zero, item2 |-> Zero] THEN "finish" ELSE "P")
  /\ UNCHANGED <<ring, pc_lock, empty_sem, fins, thedata, left>>

-----------------------------------------------------------------------------
(* producerconsumer_driver.c *)

\* producer_thread: the next item, while items are left.
NextItem(p) ==
  /\ pc[p] = "start" /\ left[p] > 0
  /\ thedata' = [thedata EXCEPT ![p] = [item1 |-> <<p, left[p]>>, item2 |-> <<p, left[p]>>]]
  /\ Goto(p, "P")
  /\ UNCHANGED <<ring, pc_lock, sems, fins, left>>

\* producer_thread: V(producer_finished) and exit.
ProducerExit(p) ==
  /\ pc[p] = "start" /\ left[p] = 0
  /\ producer_finished' = producer_finished + 1
  /\ Goto(p, "done")
  /\ UNCHANGED <<ring, pc_lock, sems, consumer_finished, thedata, left>>

\* consumer_thread: V(consumer_finished) and exit.
ConsumerExit(c) ==
  /\ pc[c] = "finish"
  /\ consumer_finished' = consumer_finished + 1
  /\ Goto(c, "done")
  /\ UNCHANGED <<ring, pc_lock, sems, producer_finished, thedata, left>>

\* wait_for_producer_threads: P(producer_finished) once per producer.
Join ==
  /\ pc[Main] = "join" /\ left[Main] > 0 /\ producer_finished > 0
  /\ producer_finished' = producer_finished - 1
  /\ left' = [left EXCEPT ![Main] = left[Main] - 1]
  /\ UNCHANGED <<ring, pc_lock, sems, consumer_finished, pc, thedata>>

\* Mutation: one zero item too few.
StopOneLess ==
  /\ pc[Main] = "join" /\ left[Main] = 0
  /\ left' = [left EXCEPT ![Main] = Cardinality(Consumers) - 1]
  /\ Goto(Main, "start")
  /\ UNCHANGED <<ring, pc_lock, sems, fins, thedata>>

\* stop_consumer_threads begins: one zero item per consumer.
Stop ==
  /\ pc[Main] = "join" /\ left[Main] = 0
  /\ left' = [left EXCEPT ![Main] = Cardinality(Consumers)]
  /\ Goto(Main, "start")
  /\ UNCHANGED <<ring, pc_lock, sems, fins, thedata>>

NextZero ==
  /\ pc[Main] = "start" /\ left[Main] > 0
  /\ thedata' = [thedata EXCEPT ![Main] = [item1 |-> Zero, item2 |-> Zero]]
  /\ Goto(Main, "P")
  /\ UNCHANGED <<ring, pc_lock, sems, fins, left>>

StartReap ==
  /\ pc[Main] = "start" /\ left[Main] = 0
  /\ left' = [left EXCEPT ![Main] = Cardinality(Consumers)]
  /\ Goto(Main, "reap")
  /\ UNCHANGED <<ring, pc_lock, sems, fins, thedata>>

\* P(consumer_finished) once per consumer, then producerconsumer_shutdown.
Reap ==
  /\ pc[Main] = "reap" /\ left[Main] > 0 /\ consumer_finished > 0
  /\ consumer_finished' = consumer_finished - 1
  /\ left' = [left EXCEPT ![Main] = left[Main] - 1]
  /\ UNCHANGED <<ring, pc_lock, sems, producer_finished, pc, thedata>>

\* Mutation: shutdown while consumers still run.
StartShutdownEarly ==
  /\ pc[Main] = "reap"
  /\ Goto(Main, "shutdown")
  /\ UNCHANGED <<ring, pc_lock, sems, fins, thedata, left>>

\* producerconsumer_shutdown begins.

StartShutdown ==
  /\ pc[Main] = "reap" /\ left[Main] = 0
  /\ Goto(Main, "shutdown")
  /\ UNCHANGED <<ring, pc_lock, sems, fins, thedata, left>>

\* lock_destroy and sem_destroy; run_producerconsumer returns to the menu.
Shutdown ==
  /\ pc[Main] = "shutdown"
  /\ Goto(Main, "done")
  /\ UNCHANGED <<ring, pc_lock, sems, fins, thedata, left>>

-----------------------------------------------------------------------------
Send(s)    == SendP(s) \/ Lock(s) \/ Store1(s) \/ Store2(s) \/ Unlock(s) \/ SendV(s)
Receive(c) == ReceiveP(c) \/ Lock(c) \/ Load1(c) \/ Load2(c) \/ Unlock(c) \/ ReceiveV(c)

ProducerStep(p) == Send(p) \/ NextItem(p) \/ ProducerExit(p)
ConsumerStep(c) == Receive(c) \/ ConsumerExit(c)
MainStep == \/ Send(Main) \/ Join \/ Stop \/ NextZero \/ StartReap
            \/ Reap \/ StartShutdown \/ Shutdown

\* Everybody returned: the menu command is over.
Over == (\A t \in Thread : pc[t] = "done") /\ UNCHANGED vars

Next ==
  \/ Over
  \/ \E p \in Producers : ProducerStep(p)
  \/ \E c \in Consumers : ConsumerStep(c)
  \/ MainStep

\* A thread that can run is scheduled; a semaphore or the lock need not be
\* fair among threads that compete for it.
Fairness ==
  /\ \A p \in Producers : WF_vars(ProducerStep(p))
  /\ \A c \in Consumers : WF_vars(ConsumerStep(c))
  /\ WF_vars(MainStep)

Spec == Init /\ [][Next]_vars /\ Fairness

-----------------------------------------------------------------------------
(* Properties *)

\* Threads between two points of a call.
At(group, places) == {t \in group : pc[t] \in places}

Reserving == At(Senders, {"lock", "copy1", "copy2"})
Stored    == At(Senders, {"unlock", "V"})
Claiming  == At(Consumers, {"lock", "copy1", "copy2"})
Freeing   == At(Consumers, {"unlock", "V"})

\* The number of items in the ring: those the semaphore announces, those
\* stored but not announced yet, those claimed but not taken yet.
Count == empty_sem + Cardinality(Stored) + Cardinality(Claiming)

\* One critical section for both ends of the ring: the threads between
\* lock_acquire and lock_release are exactly the holder of pc_lock.
OneInside ==
  \A t \in Thread : pc[t] \in {"copy1", "copy2", "unlock"} <=> pc_lock = t

\* Every slot of the ring is accounted for once, whoever is preempted between
\* a P, the copy and the V: it holds an item, is reserved by a sender, is free
\* but not announced, or is announced as free.
SlotsConserved ==
  Count + full_sem + Cardinality(Reserving) + Cardinality(Freeing) = BufferSize

\* The indices agree with the semaphores: hi is Count slots after lo, so a
\* sender never stores over an item and a consumer never loads an empty slot.
IndicesAgree == hi = (lo + Count) % BufferSize

\* Both at once: the ring is neither overrun nor underrun (producer_send and
\* consumer_receive, preempted between any two of their steps).
RingExact == SlotsConserved /\ IndicesAgree

\* The items in the ring, oldest first, and what each consumer was handed.
Whole(x)  == [item1 |-> x, item2 |-> x]
Queue     == [i \in 1..Count |-> buffer[(lo + i - 1) % BufferSize]]
HandedOut == [c \in Consumers |->
                IF pc[c] \in {"unlock", "V", "finish", "done"} THEN thedata[c] ELSE Nobody]

\* The ring, its two semaphores and its lock are a bounded FIFO of whole items:
\* no item is lost, duplicated, reordered, or made of the fields of two.
Fifo == INSTANCE BoundedFifo WITH
          Item <- {Whole(x) : x \in Item}, Capacity <- BufferSize, NoItem <- Nobody,
          queue <- Queue, got <- HandedOut

ImplementsFifo == Fifo!Spec

\* A consumer only stops when every producer's item was taken out of the ring:
\* the zero items come last although consumers race for them.
NothingLeftBehind ==
  (\E c \in Consumers : pc[c] \in {"finish", "done"})
    => \A p \in Producers : pc[p] = "done" /\ \A i \in 1..Count : Queue[i] = Whole(Zero)

\* When the lock and the semaphores are destroyed nobody holds, waits on or
\* will use them again, and the ring is empty (lock_destroy, sem_destroy and
\* wchan_destroy assert the first two).
SafeShutdown ==
  pc[Main] \in {"shutdown", "done"} =>
    /\ \A t \in Thread \ {Main} : pc[t] = "done"
    /\ pc_lock = Nobody /\ Count = 0 /\ full_sem = BufferSize
    /\ producer_finished = 0 /\ consumer_finished = 0

\* The driver's protocol: consumers stop last, and what they use is destroyed
\* after that (run_producerconsumer).
CleanStop == NothingLeftBehind /\ SafeShutdown

\* The run ends: no sequence of preemptions leaves a sender, a consumer or the
\* main thread blocked for ever.
Terminates == <>(\A t \in Thread : pc[t] = "done")
=============================================================================
