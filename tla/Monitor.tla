------------------------------ MODULE Monitor ------------------------------
(***************************************************************************)
(* The sleep lock and the condition variable of kern/thread/synch.c, used  *)
(* together by threads that respect synch.h: only the holder releases the  *)
(* lock, waits, signals or broadcasts.                                     *)
(*                                                                         *)
(* Two spinlocks are at work.  lk_lock guards lk_holder and lk_wchan; each *)
(* of its critical sections is one step, as in Semaphore.  cv_wchanlock    *)
(* guards cv_wchan; cv_wait keeps it across the call of lock_release, so   *)
(* cv_spin records its holder and cv_wait is three steps, between which    *)
(* other processors run.                                                   *)
(***************************************************************************)
EXTENDS WaitChannel

CONSTANTS Thread, \* threads that use the lock and the condition variable
          Nobody  \* lk_holder == NULL, and a spinlock that is free

ASSUME MonitorAssumption == Nobody \notin Thread

VARIABLES lk_holder, \* lock->lk_holder
          lk_wchan,  \* lock->lk_wchan, first to sleep first
          cv_spin,   \* holder of cv->cv_wchanlock between two steps
          cv_wchan,  \* cv->cv_wchan, first to sleep first
          pc         \* where each thread is in lock_acquire and cv_wait

lockVars == <<lk_holder, lk_wchan>>
cvVars   == <<cv_spin, cv_wchan>>
vars     == <<lk_holder, lk_wchan, cv_spin, cv_wchan, pc>>

Outside  == {"out", "acquire", "lksleep", "lkwoken", "cv_released", "cvsleep", "cvwoken"}
Inside   == {"in", "cv_entered"}

TypeOK ==
  /\ lk_holder \in Thread \cup {Nobody}
  /\ cv_spin \in Thread \cup {Nobody}
  /\ lk_wchan \in Seq(Thread)
  /\ cv_wchan \in Seq(Thread)
  /\ pc \in [Thread -> Outside \cup Inside]

\* lock_create, cv_create
Init ==
  /\ lk_holder = Nobody /\ lk_wchan = <<>>
  /\ cv_spin = Nobody /\ cv_wchan = <<>>
  /\ pc = [t \in Thread |-> "out"]

\* A thread calls lock_acquire and goes for lk_lock.
LockCall(t) ==
  /\ pc[t] = "out"
  /\ pc' = [pc EXCEPT ![t] = "acquire"]
  /\ UNCHANGED <<lockVars, cvVars>>

\* Mutation: a woken thread takes the lock without testing the holder again.
LockTakeNoRetest(t) ==
  /\ \/ pc[t] = "acquire" /\ lk_holder = Nobody
     \/ pc[t] = "lkwoken"
  /\ lk_holder' = t
  /\ pc' = [pc EXCEPT ![t] = "in"]
  /\ UNCHANGED <<lk_wchan, cvVars>>

\* lock_acquire: nobody holds the lock, the thread takes it.
LockTake(t) ==
  /\ pc[t] \in {"acquire", "lkwoken"}
  /\ lk_holder = Nobody
  /\ lk_holder' = t
  /\ pc' = [pc EXCEPT ![t] = "in"]
  /\ UNCHANGED <<lk_wchan, cvVars>>

\* lock_acquire: the lock is held, wchan_sleep on lk_wchan.
LockSleep(t) ==
  /\ pc[t] \in {"acquire", "lkwoken"}
  /\ lk_holder # Nobody
  /\ lk_wchan' = Asleep(lk_wchan, t)
  /\ pc' = [pc EXCEPT ![t] = "lksleep"]
  /\ UNCHANGED <<lk_holder, cvVars>>

\* Mutation: the release wakes nobody.
ReleaseNoWake(t, next) ==
  /\ lk_holder = t
  /\ lk_holder' = Nobody
  /\ UNCHANGED lk_wchan
  /\ pc' = [pc EXCEPT ![t] = next]

\* The body of lock_release: drop the lock and wake the longest sleeper; the
\* caller goes on at `next'.
ReleaseTo(t, next) ==
  /\ lk_holder = t
  /\ lk_holder' = Nobody
  /\ IF lk_wchan = <<>>
     THEN /\ UNCHANGED lk_wchan
          /\ pc' = [pc EXCEPT ![t] = next]
     ELSE /\ lk_wchan' = AfterWakeOne(lk_wchan)
          /\ pc' = [pc EXCEPT ![t] = next, ![Woke(lk_wchan)] = "lkwoken"]

\* lock_release
LockRelease(t) ==
  /\ pc[t] = "in"
  /\ ReleaseTo(t, "out")
  /\ UNCHANGED cvVars

\* Mutation: cv_wait does not keep the spinlock across lock_release.
CvWaitUnguarded(t) ==
  /\ pc[t] = "in" /\ cv_spin = Nobody
  /\ pc' = [pc EXCEPT ![t] = "cv_entered"]
  /\ UNCHANGED <<lockVars, cvVars>>

\* cv_wait takes cv_wchanlock.
CvWaitEnter(t) ==
  /\ pc[t] = "in" /\ cv_spin = Nobody
  /\ cv_spin' = t
  /\ pc' = [pc EXCEPT ![t] = "cv_entered"]
  /\ UNCHANGED <<lockVars, cv_wchan>>

\* cv_wait calls lock_release, still holding cv_wchanlock.
CvWaitRelease(t) ==
  /\ pc[t] = "cv_entered"
  /\ ReleaseTo(t, "cv_released")
  /\ UNCHANGED cvVars

\* cv_wait: wchan_sleep puts the thread on the channel and lets go of
\* cv_wchanlock in the context switch.
CvWaitSleep(t) ==
  /\ pc[t] = "cv_released"
  /\ cv_wchan' = Asleep(cv_wchan, t)
  /\ cv_spin' = Nobody
  /\ pc' = [pc EXCEPT ![t] = "cvsleep"]
  /\ UNCHANGED lockVars

\* cv_wait after the wakeup: it takes cv_wchanlock only to drop it, and calls
\* lock_acquire.
CvWaitWoken(t) ==
  /\ pc[t] = "cvwoken" /\ cv_spin = Nobody
  /\ pc' = [pc EXCEPT ![t] = "acquire"]
  /\ UNCHANGED <<lockVars, cvVars>>

\* cv_signal: wchan_wakeone under cv_wchanlock.
CvSignal(t) ==
  /\ pc[t] = "in" /\ cv_spin = Nobody
  /\ cv_wchan # <<>>
  /\ cv_wchan' = AfterWakeOne(cv_wchan)
  /\ pc' = [pc EXCEPT ![Woke(cv_wchan)] = "cvwoken"]
  /\ UNCHANGED <<lockVars, cv_spin>>

\* Mutation: wchan_wakeall wakes the threads and leaves them listed.
CvBroadcastKeeps(t) ==
  /\ pc[t] = "in" /\ cv_spin = Nobody
  /\ cv_wchan # <<>>
  /\ pc' = [u \in Thread |-> IF u \in On(cv_wchan) THEN "cvwoken" ELSE pc[u]]
  /\ UNCHANGED <<lockVars, cvVars>>

\* cv_broadcast: wchan_wakeall under cv_wchanlock.
CvBroadcast(t) ==
  /\ pc[t] = "in" /\ cv_spin = Nobody
  /\ cv_wchan # <<>>
  /\ cv_wchan' = <<>>
  /\ pc' = [u \in Thread |-> IF u \in On(cv_wchan) THEN "cvwoken" ELSE pc[u]]
  /\ UNCHANGED <<lockVars, cv_spin>>

\* What a thread does by itself once it is inside a call.
Continue(t) ==
  \/ LockTake(t) \/ LockSleep(t)
  \/ CvWaitRelease(t) \/ CvWaitSleep(t) \/ CvWaitWoken(t)

Next ==
  \E t \in Thread :
    \/ Continue(t)
    \/ LockCall(t) \/ LockRelease(t)
    \/ CvWaitEnter(t) \/ CvSignal(t) \/ CvBroadcast(t)

\* A runnable thread is scheduled and a free spinlock is won by a thread that
\* spins on it while nobody else takes it: weak fairness of the steps inside a
\* call.  No thread has to release the lock or to signal.
Fairness == \A t \in Thread : WF_vars(Continue(t))

Spec == Init /\ [][Next]_vars /\ Fairness

-----------------------------------------------------------------------------
(* Properties *)

\* Mutual exclusion: the threads that are past lock_acquire and not yet past
\* the release are exactly the recorded holder, so there is at most one;
\* cv_wait counts as inside until its lock_release (lock_acquire,
\* lock_release, cv_wait).
MutualExclusion == \A t \in Thread : pc[t] \in Inside <=> lk_holder = t

\* Each channel lists exactly the threads asleep on it: lock_release, cv_signal
\* and cv_broadcast never make a thread runnable that is not asleep, and no
\* thread sleeps where nobody can find it.
At(state) == {t \in Thread : pc[t] = state}

ChannelsExact == Lists(lk_wchan, At("lksleep")) /\ Lists(cv_wchan, At("cvsleep"))

\* A free lock with sleepers has a thread on its way to take it
\* (lock_release wakes one, barging threads wake the next when they leave).
LockNotForgotten == lk_holder = Nobody /\ lk_wchan # <<>> => At("lkwoken") # {}

\* cv_wait releases the lock and goes to sleep as if in one step: no signal
\* or broadcast sent after the release misses the waiter, signals wake in the
\* order of the waits, and a free lock is taken while threads want it.
\* The waiters are those on the channel and the one about to join it.
Wanting == {t \in Thread : pc[t] \in {"acquire", "lksleep", "lkwoken", "cvwoken"}}

TheOne(S) == CHOOSE t \in S : TRUE

Waiting == IF At("cv_released") = {} THEN cv_wchan
           ELSE Append(cv_wchan, TheOne(At("cv_released")))

Mesa == INSTANCE MesaMonitor WITH
          holder <- lk_holder, entering <- Wanting, waiters <- Waiting

ImplementsMonitor == Mesa!Spec
=============================================================================
