----------------------------- MODULE Semaphore -----------------------------
(***************************************************************************)
(* The counting semaphore of kern/thread/synch.c over the wait channels of *)
(* kern/thread/thread.c.                                                   *)
(*                                                                         *)
(* sem_lock is a spinlock that is held from the first test of sem_count to *)
(* the decrement or to the context switch of wchan_sleep, which releases   *)
(* it only after the thread is on the channel.  Everything P and V touch   *)
(* is touched under it, so a critical section is one step here.  What is   *)
(* NOT atomic is a P that sleeps: V takes the sleeper off the channel and  *)
(* makes it runnable, and it competes for sem_lock again with the threads  *)
(* that just arrived ("woken" is that window).                             *)
(***************************************************************************)
EXTENDS WaitChannel

CONSTANTS Users,        \* threads that use the semaphore
          InitialCount, \* initial_count of sem_create
          MaxCount      \* bound of the model: sem_count never gets past it

ASSUME SemaphoreAssumption ==
  /\ InitialCount \in Nat
  /\ MaxCount \in Nat
  /\ IsFiniteSet(Users)

VARIABLES sem_count, \* sem->sem_count
          sem_wchan, \* sem->sem_wchan: sleeping threads, first to sleep first
          sem_pc     \* where each thread is with respect to P

semVars == <<sem_count, sem_wchan, sem_pc>>

Woken    == {t \in Users : sem_pc[t] = "woken"}
Sleeping == {t \in Users : sem_pc[t] = "sleep"}

SemTypeOK ==
  /\ sem_count \in Nat
  /\ sem_wchan \in Seq(Users)
  /\ sem_pc \in [Users -> {"idle", "P", "sleep", "woken"}]

\* sem_create
SemInit ==
  /\ sem_count = InitialCount
  /\ sem_wchan = <<>>
  /\ sem_pc = [t \in Users |-> "idle"]

\* A thread calls P and goes for sem_lock.
PCall(t) ==
  /\ sem_pc[t] = "idle"
  /\ sem_pc' = [sem_pc EXCEPT ![t] = "P"]
  /\ UNCHANGED <<sem_count, sem_wchan>>

\* P with sem_lock: the while test fails and the count goes down.
PTake(t) ==
  /\ sem_pc[t] \in {"P", "woken"}
  /\ sem_count > 0
  /\ sem_count' = sem_count - 1
  /\ sem_pc' = [sem_pc EXCEPT ![t] = "idle"]
  /\ UNCHANGED sem_wchan

\* P with sem_lock: the while test holds and wchan_sleep appends the thread to
\* the channel, then lets go of sem_lock.
PSleep(t) ==
  /\ sem_pc[t] \in {"P", "woken"}
  /\ sem_count = 0
  /\ sem_wchan' = Asleep(sem_wchan, t)
  /\ sem_pc' = [sem_pc EXCEPT ![t] = "sleep"]
  /\ UNCHANGED sem_count

\* Mutation: the thread is taken off the channel and never made runnable.
WakeForgets ==
  IF sem_wchan = <<>>
  THEN UNCHANGED <<sem_wchan, sem_pc>>
  ELSE sem_wchan' = AfterWakeOne(sem_wchan) /\ UNCHANGED sem_pc

\* wchan_wakeone: the longest sleeper, if any, becomes runnable.
WakeOne ==
  IF sem_wchan = <<>>
  THEN UNCHANGED <<sem_wchan, sem_pc>>
  ELSE /\ sem_wchan' = AfterWakeOne(sem_wchan)
       /\ sem_pc' = [sem_pc EXCEPT ![Woke(sem_wchan)] = "woken"]

\* Mutation: V only wakes when the count was zero.
VFromZero ==
  /\ sem_count < MaxCount
  /\ sem_count' = sem_count + 1
  /\ IF sem_count = 0 THEN WakeOne ELSE UNCHANGED <<sem_wchan, sem_pc>>

\* V.  It needs no current thread: interrupt handlers call it too.
V ==
  /\ sem_count < MaxCount
  /\ sem_count' = sem_count + 1
  /\ WakeOne

SemNext == V \/ \E t \in Users : PCall(t) \/ PTake(t) \/ PSleep(t)

\* A runnable thread is scheduled and gets the spinlock: weak fairness of the
\* two ways through P's loop.  Nobody has to call P or V.
SemFairness == \A t \in Users : WF_semVars(PTake(t) \/ PSleep(t))

SemSpec == SemInit /\ [][SemNext]_semVars /\ SemFairness

-----------------------------------------------------------------------------
(* Properties *)

\* The channel lists exactly the threads that sleep in P: a wakeup always goes
\* to a sleeper, and a sleeper can always be reached (thread_switch,
\* wchan_wakeone).
WchanExact == Lists(sem_wchan, Sleeping)

\* No lost wakeup: while somebody sleeps in P, every unit of the count has a
\* thread on its way to it, however V and the arrivals interleave.
NoLostWakeup == sem_wchan # <<>> => sem_count <= Cardinality(Woken)

\* The wait channel is invisible: to its callers the code is the abstract
\* semaphore, with everybody who is anywhere inside P blocked.  That includes
\* its fairness: units that stay available while threads are inside P do not
\* stay unclaimed for ever, so no sleeper is forgotten on the channel.
Abstract == INSTANCE AbstractSemaphore WITH
              Thread <- Users,
              count <- sem_count,
              blocked <- {t \in Users : sem_pc[t] # "idle"}

ImplementsSemaphore == Abstract!Spec
=============================================================================
