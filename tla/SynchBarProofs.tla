--------------------------- MODULE SynchBarProofs ---------------------------
(***************************************************************************)
(* kern/thread/synch.c for every set of threads.  The semaphore of         *)
(* Semaphore.tla loses no wakeup and takes the abstract semaphore's steps. *)
(* The lock and condition variable of Monitor.tla exclude, keep exact wait *)
(* channels, forget no sleeper and take the Mesa monitor's steps.          *)
(*                                                                         *)
(* Then the largest of their users, kern/asst1/bar.c, for every set of     *)
(* customers and bartenders, every number of bottles and every menu: when  *)
(* each customer has one drink it gets what it asked for, locks are        *)
(* released by their holders, and the bar closes as clean as it opened.    *)
(***************************************************************************)
EXTENDS Semaphore, Monitor, Bar, WaitChannelFacts, Integers, FiniteSetTheorems

-----------------------------------------------------------------------------
(* The semaphore *)

\* Types, the channel and the wakeups are preserved together: V's wakeup is
\* counted by NoLostWakeup only because the thread it takes off the channel
\* was asleep, which is WchanExact.
SemIInv == SemTypeOK /\ WchanExact /\ NoLostWakeup

\* The set of woken threads is finite, so its cardinality is a number.
LEMMA WokenFinite == SemTypeOK => IsFiniteSet(Woken) /\ Cardinality(Woken) \in Nat
<1>1. IsFiniteSet(Woken)
  BY SemaphoreAssumption, FS_Subset DEF SemaphoreAssumption, Woken
<1>2. Cardinality(Woken) \in Nat
  BY <1>1, FS_CardinalityType
<1>. QED  BY <1>1, <1>2

\* The thread V takes off the channel is one that sleeps in P.
LEMMA HeadSleeps ==
  SemTypeOK /\ WchanExact /\ sem_wchan # <<>> =>
    /\ Woke(sem_wchan) \in Users /\ sem_pc[Woke(sem_wchan)] = "sleep"
    /\ AfterWakeOne(sem_wchan) \in Seq(Users)
    /\ Lists(AfterWakeOne(sem_wchan), Sleeping \ {Woke(sem_wchan)})
<1>. SUFFICES ASSUME sem_wchan \in Seq(Users), Lists(sem_wchan, Sleeping), sem_wchan # <<>>
     PROVE  /\ Woke(sem_wchan) \in Users /\ sem_pc[Woke(sem_wchan)] = "sleep"
            /\ AfterWakeOne(sem_wchan) \in Seq(Users)
            /\ Lists(AfterWakeOne(sem_wchan), Sleeping \ {Woke(sem_wchan)})
  BY DEF SemTypeOK, WchanExact
<1>1. /\ Woke(sem_wchan) \in Users /\ Woke(sem_wchan) \in Sleeping
      /\ AfterWakeOne(sem_wchan) \in Seq(Users)
      /\ Lists(AfterWakeOne(sem_wchan), Sleeping \ {Woke(sem_wchan)})
  BY WakeLists
<1>. QED  BY <1>1 DEF Sleeping

\* Every step of the semaphore keeps the types (all of P and V).
LEMMA SemTypeStep == SemTypeOK /\ WchanExact /\ [SemNext]_semVars => SemTypeOK'
<1>. SUFFICES ASSUME SemTypeOK, WchanExact, [SemNext]_semVars PROVE SemTypeOK'
  OBVIOUS
<1>. USE DEF SemTypeOK
<1>1. CASE V
  BY <1>1, HeadSleeps DEF V, WakeOne
<1>2. ASSUME NEW t \in Users, PCall(t) PROVE SemTypeOK'
  BY <1>2 DEF PCall
<1>3. ASSUME NEW t \in Users, PTake(t) PROVE SemTypeOK'
  BY <1>3 DEF PTake
<1>4. ASSUME NEW t \in Users, PSleep(t) PROVE SemTypeOK'
  BY <1>4 DEF PSleep, Asleep
<1>5. CASE UNCHANGED semVars
  BY <1>5 DEF semVars
<1>. QED  BY <1>1, <1>2, <1>3, <1>4, <1>5 DEF SemNext

\* Every step keeps the channel and the sleepers in agreement (P, V and
\* wchan_wakeone).
LEMMA WchanStep == SemTypeOK /\ WchanExact /\ [SemNext]_semVars => WchanExact'
<1>. SUFFICES ASSUME SemTypeOK, WchanExact, [SemNext]_semVars PROVE Lists(sem_wchan', Sleeping')
  BY DEF WchanExact, Lists, On
<1>. USE DEF SemTypeOK, WchanExact
<1>1. CASE V
  <2>1. CASE sem_wchan = <<>>
    BY <1>1, <2>1 DEF V, WakeOne, Sleeping
  <2>2. CASE sem_wchan # <<>>
    <3>1. Woke(sem_wchan) \in Users /\ Lists(AfterWakeOne(sem_wchan), Sleeping \ {Woke(sem_wchan)})
      BY <2>2, HeadSleeps
    <3>2. sem_wchan' = AfterWakeOne(sem_wchan) /\ sem_pc' = [sem_pc EXCEPT ![Woke(sem_wchan)] = "woken"]
      BY <1>1, <2>2 DEF V, WakeOne
    <3>3. Sleeping' = Sleeping \ {Woke(sem_wchan)}
      BY <3>1, <3>2 DEF Sleeping
    <3>. QED  BY <3>1, <3>2, <3>3
  <2>. QED  BY <2>1, <2>2
<1>2. ASSUME NEW t \in Users, PCall(t) PROVE Lists(sem_wchan', Sleeping')
  <2>1. Sleeping' = Sleeping
    BY <1>2 DEF PCall, Sleeping
  <2>. QED  BY <1>2, <2>1 DEF PCall
<1>3. ASSUME NEW t \in Users, PTake(t) PROVE Lists(sem_wchan', Sleeping')
  <2>1. Sleeping' = Sleeping
    BY <1>3 DEF PTake, Sleeping
  <2>. QED  BY <1>3, <2>1 DEF PTake
<1>4. ASSUME NEW t \in Users, PSleep(t) PROVE Lists(sem_wchan', Sleeping')
  <2>1. t \notin Sleeping /\ Sleeping' = Sleeping \cup {t}
    BY <1>4 DEF PSleep, Sleeping
  <2>. QED  BY <1>4, <2>1, SleepLists DEF PSleep
<1>5. CASE UNCHANGED semVars
  BY <1>5 DEF semVars, Sleeping
<1>. QED  BY <1>1, <1>2, <1>3, <1>4, <1>5 DEF SemNext

\* Every step keeps a woken thread per unit while somebody sleeps: V pays a
\* unit and a wakeup, a woken P consumes one of each, an arriving P only a
\* unit, and a P that goes back to sleep found no unit.
LEMMA WakeupStep == SemIInv /\ [SemNext]_semVars => NoLostWakeup'
<1>. SUFFICES ASSUME SemTypeOK, WchanExact, NoLostWakeup, [SemNext]_semVars PROVE NoLostWakeup'
  BY DEF SemIInv
<1>. USE DEF SemTypeOK
<1>0. /\ IsFiniteSet(Woken) /\ Cardinality(Woken) \in Nat
      /\ IsFiniteSet(Woken)' /\ Cardinality(Woken)' \in Nat
  <2>1. IsFiniteSet(Woken') /\ Cardinality(Woken') \in Nat
    <3>1. IsFiniteSet(Woken')
      BY SemaphoreAssumption, FS_Subset DEF SemaphoreAssumption, Woken
    <3>. QED  BY <3>1, FS_CardinalityType
  <2>. QED  BY <2>1, WokenFinite
<1>1. CASE V
  <2>1. CASE sem_wchan = <<>>
    BY <1>1, <2>1 DEF V, WakeOne, NoLostWakeup
  <2>2. CASE sem_wchan # <<>>
    <3>. DEFINE h == Woke(sem_wchan)
    <3>1. h \in Users /\ sem_pc[h] = "sleep"
      BY <2>2, HeadSleeps
    <3>2. sem_pc' = [sem_pc EXCEPT ![h] = "woken"] /\ sem_count' = sem_count + 1
      BY <1>1, <2>2 DEF V, WakeOne
    <3>3. Woken' = Woken \cup {h} /\ h \notin Woken
      BY <3>1, <3>2 DEF Woken
    <3>4. Cardinality(Woken)' = Cardinality(Woken) + 1
      BY <1>0, <3>3, FS_AddElement
    <3>. QED  BY <1>0, <2>2, <3>2, <3>4 DEF NoLostWakeup
  <2>. QED  BY <2>1, <2>2
<1>2. ASSUME NEW t \in Users, PCall(t) PROVE NoLostWakeup'
  <2>1. Woken' = Woken
    BY <1>2 DEF PCall, Woken
  <2>. QED  BY <1>2, <2>1 DEF PCall, NoLostWakeup
<1>3. ASSUME NEW t \in Users, PTake(t) PROVE NoLostWakeup'
  <2>1. sem_count > 0 /\ sem_count' = sem_count - 1 /\ sem_wchan' = sem_wchan
    BY <1>3 DEF PTake
  <2>2. CASE sem_pc[t] = "woken"
    <3>1. Woken' = Woken \ {t} /\ t \in Woken
      BY <1>3, <2>2 DEF PTake, Woken
    <3>2. Cardinality(Woken)' = Cardinality(Woken) - 1
      BY <1>0, <3>1, FS_RemoveElement
    <3>. QED  BY <1>0, <2>1, <3>2 DEF NoLostWakeup
  <2>3. CASE sem_pc[t] # "woken"
    <3>1. Woken' = Woken
      BY <1>3, <2>3 DEF PTake, Woken
    <3>. QED  BY <1>0, <2>1, <3>1 DEF NoLostWakeup
  <2>. QED  BY <2>2, <2>3
<1>4. ASSUME NEW t \in Users, PSleep(t) PROVE NoLostWakeup'
  BY <1>0, <1>4 DEF PSleep, NoLostWakeup
<1>5. CASE UNCHANGED semVars
  BY <1>5 DEF semVars, NoLostWakeup, Woken
<1>. QED  BY <1>1, <1>2, <1>3, <1>4, <1>5 DEF SemNext

\* The inductive invariant holds of every reachable state.
LEMMA SemInductive == SemSpec => []SemIInv
<1>1. SemInit => SemIInv
  <2>. SUFFICES ASSUME SemInit PROVE SemIInv
    OBVIOUS
  <2>1. SemTypeOK /\ NoLostWakeup
    BY SemaphoreAssumption, EmptyChannel DEF SemaphoreAssumption, SemInit, SemTypeOK, NoLostWakeup
  <2>2. sem_wchan = <<>> /\ Sleeping = {}
    BY DEF SemInit, Sleeping
  <2>. QED  BY <2>1, <2>2, EmptyChannel DEF SemIInv, WchanExact
<1>2. SemIInv /\ [SemNext]_semVars => SemIInv'
  BY SemTypeStep, WchanStep, WakeupStep DEF SemIInv
<1>. QED  BY <1>1, <1>2, PTL DEF SemSpec

\* P and V keep the state of the semaphore well typed: in particular the
\* count never goes below zero, whatever wakes whom.
THEOREM SemTypeCorrect == SemSpec => []SemTypeOK
BY SemInductive, PTL DEF SemIInv

\* V loses no wakeup: as long as threads sleep on the channel, every unit of
\* the count has its own thread that was woken and has not run yet.
THEOREM NoWakeupLost == SemSpec => []NoLostWakeup
BY SemInductive, PTL DEF SemIInv

\* The safety part of "the code is the abstract semaphore".
SafelyAbstract == Abstract!Init /\ [][Abstract!Next]_(Abstract!vars)

\* Every step of P and V is a call, a return or a V of the abstract semaphore,
\* or changes nothing its callers could see (a P that sleeps, a wakeup).
THEOREM SemRefinement == SemSpec => SafelyAbstract
<1>1. SemInit => Abstract!Init
  BY DEF SemInit, Abstract!Init
<1>2. SemTypeOK /\ WchanExact /\ [SemNext]_semVars => [Abstract!Next]_(Abstract!vars)
  <2>. SUFFICES ASSUME SemTypeOK, WchanExact, [SemNext]_semVars PROVE [Abstract!Next]_(Abstract!vars)
    OBVIOUS
  <2>. USE DEF SemTypeOK, Abstract!Next, Abstract!vars
  <2>1. CASE V
    <3>1. {t \in Users : sem_pc[t] # "idle"}' = {t \in Users : sem_pc[t] # "idle"}
      <4>1. CASE sem_wchan = <<>>
        BY <2>1, <4>1 DEF V, WakeOne
      <4>2. CASE sem_wchan # <<>>
        <5>1. Woke(sem_wchan) \in Users /\ sem_pc[Woke(sem_wchan)] = "sleep"
          BY <4>2, HeadSleeps
        <5>. QED  BY <2>1, <4>2, <5>1 DEF V, WakeOne
      <4>. QED  BY <4>1, <4>2
    <3>. QED  BY <2>1, <3>1 DEF V, Abstract!Give
  <2>2. ASSUME NEW t \in Users, PCall(t) PROVE Abstract!Call(t)
    BY <2>2 DEF PCall, Abstract!Call
  <2>3. ASSUME NEW t \in Users, PTake(t) PROVE Abstract!Return(t)
    BY <2>3 DEF PTake, Abstract!Return
  <2>4. ASSUME NEW t \in Users, PSleep(t) PROVE UNCHANGED Abstract!vars
    BY <2>4 DEF PSleep
  <2>5. CASE UNCHANGED semVars
    BY <2>5 DEF semVars
  <2>. QED  BY <2>1, <2>2, <2>3, <2>4, <2>5 DEF SemNext
<1>. QED  BY <1>1, <1>2, SemInductive, PTL DEF SemSpec, SemIInv, SafelyAbstract

-----------------------------------------------------------------------------
(* The lock and the condition variable *)

\* Only a thread between the two spinlock operations of cv_wait holds
\* cv_wchanlock: that is what makes release-and-sleep one step for signallers.
SpinExact == \A t \in Thread : pc[t] \in {"cv_entered", "cv_released"} <=> cv_spin = t

\* The inductive invariant.  Mutual exclusion needs the channels, because a
\* release that woke a thread which is not asleep would move it out of the
\* critical section; the channels need the spinlock.
IInv == TypeOK /\ MutualExclusion /\ SpinExact /\ ChannelsExact /\ LockNotForgotten

\* ChannelsExact in the next state, with the state names spelled out.
LEMMA ChannelsPrime ==
  Lists(lk_wchan', At("lksleep")') /\ Lists(cv_wchan', At("cvsleep")') => ChannelsExact'
BY DEF ChannelsExact, Lists, On

\* The head of the lock's channel sleeps there, and the rest stays listed.
LEMMA LkHead ==
  TypeOK /\ ChannelsExact /\ lk_wchan # <<>> =>
    /\ Woke(lk_wchan) \in Thread /\ pc[Woke(lk_wchan)] = "lksleep"
    /\ AfterWakeOne(lk_wchan) \in Seq(Thread)
    /\ Lists(AfterWakeOne(lk_wchan), At("lksleep") \ {Woke(lk_wchan)})
<1>. SUFFICES ASSUME lk_wchan \in Seq(Thread), Lists(lk_wchan, At("lksleep")), lk_wchan # <<>>
     PROVE  /\ Woke(lk_wchan) \in Thread /\ pc[Woke(lk_wchan)] = "lksleep"
            /\ AfterWakeOne(lk_wchan) \in Seq(Thread)
            /\ Lists(AfterWakeOne(lk_wchan), At("lksleep") \ {Woke(lk_wchan)})
  BY DEF TypeOK, ChannelsExact
<1>1. /\ Woke(lk_wchan) \in Thread /\ Woke(lk_wchan) \in At("lksleep")
      /\ AfterWakeOne(lk_wchan) \in Seq(Thread)
      /\ Lists(AfterWakeOne(lk_wchan), At("lksleep") \ {Woke(lk_wchan)})
  BY WakeLists
<1>. QED  BY <1>1 DEF At

\* The same for the channel of the condition variable.
LEMMA CvHead ==
  TypeOK /\ ChannelsExact /\ cv_wchan # <<>> =>
    /\ Woke(cv_wchan) \in Thread /\ pc[Woke(cv_wchan)] = "cvsleep"
    /\ AfterWakeOne(cv_wchan) \in Seq(Thread)
    /\ Lists(AfterWakeOne(cv_wchan), At("cvsleep") \ {Woke(cv_wchan)})
<1>. SUFFICES ASSUME cv_wchan \in Seq(Thread), Lists(cv_wchan, At("cvsleep")), cv_wchan # <<>>
     PROVE  /\ Woke(cv_wchan) \in Thread /\ pc[Woke(cv_wchan)] = "cvsleep"
            /\ AfterWakeOne(cv_wchan) \in Seq(Thread)
            /\ Lists(AfterWakeOne(cv_wchan), At("cvsleep") \ {Woke(cv_wchan)})
  BY DEF TypeOK, ChannelsExact
<1>1. /\ Woke(cv_wchan) \in Thread /\ Woke(cv_wchan) \in At("cvsleep")
      /\ AfterWakeOne(cv_wchan) \in Seq(Thread)
      /\ Lists(AfterWakeOne(cv_wchan), At("cvsleep") \ {Woke(cv_wchan)})
  BY WakeLists
<1>. QED  BY <1>1 DEF At

\* A step that moves one thread between states that are not on a channel
\* leaves the channels exact.
LEMMA OffChannels ==
  ASSUME TypeOK, ChannelsExact, NEW t \in Thread, NEW s,
         pc' = [pc EXCEPT ![t] = s], UNCHANGED <<lk_wchan, cv_wchan>>,
         pc[t] \notin {"lksleep", "cvsleep"}, s \notin {"lksleep", "cvsleep"}
  PROVE  ChannelsExact'
<1>1. At("lksleep")' = At("lksleep") /\ At("cvsleep")' = At("cvsleep")
  BY DEF TypeOK, At
<1>. QED  BY <1>1, ChannelsPrime DEF ChannelsExact

\* lock_release keeps the invariant, wherever its caller goes on: from
\* lock_release itself ("out") or inside cv_wait ("cv_released").
LEMMA ReleaseStep ==
  ASSUME IInv, NEW t \in Thread, NEW next,
         ReleaseTo(t, next), UNCHANGED cvVars,
         \/ pc[t] = "in" /\ next = "out"
         \/ pc[t] = "cv_entered" /\ next = "cv_released"
  PROVE  IInv'
<1>. USE DEF IInv, TypeOK, cvVars
<1>. DEFINE h == Woke(lk_wchan)
<1>1. CASE lk_wchan = <<>>
  <2>1. /\ pc' = [pc EXCEPT ![t] = next] /\ UNCHANGED <<lk_wchan, cv_wchan, cv_spin>>
        /\ lk_holder = t /\ lk_holder' = Nobody
    BY <1>1 DEF ReleaseTo
  <2>2. TypeOK'
    BY <2>1 DEF Outside, Inside
  <2>3. MutualExclusion'
    BY <2>1, MonitorAssumption DEF MonitorAssumption, MutualExclusion, Inside
  <2>4. SpinExact'
    BY <2>1 DEF SpinExact
  <2>5. ChannelsExact'
    BY <2>1, OffChannels
  <2>6. LockNotForgotten'
    BY <1>1, <2>1 DEF LockNotForgotten
  <2>. QED  BY <2>2, <2>3, <2>4, <2>5, <2>6
<1>2. CASE lk_wchan # <<>>
  <2>1. /\ h \in Thread /\ pc[h] = "lksleep" /\ h # t
        /\ AfterWakeOne(lk_wchan) \in Seq(Thread)
        /\ Lists(AfterWakeOne(lk_wchan), At("lksleep") \ {h})
    BY <1>2, LkHead
  <2>2. /\ pc' = [pc EXCEPT ![t] = next, ![h] = "lkwoken"]
        /\ UNCHANGED <<cv_wchan, cv_spin>> /\ lk_wchan' = AfterWakeOne(lk_wchan)
        /\ lk_holder = t /\ lk_holder' = Nobody
    BY <1>2 DEF ReleaseTo
  <2>3. TypeOK'
    BY <2>1, <2>2 DEF Outside, Inside
  <2>4. MutualExclusion'
    BY <2>1, <2>2, MonitorAssumption DEF MonitorAssumption, MutualExclusion, Inside
  <2>5. SpinExact'
    BY <2>1, <2>2 DEF SpinExact
  <2>6. ChannelsExact'
    <3>1. At("lksleep")' = At("lksleep") \ {h} /\ At("cvsleep")' = At("cvsleep")
      BY <2>1, <2>2 DEF At
    <3>. QED  BY <2>1, <2>2, <3>1, ChannelsPrime DEF ChannelsExact
  <2>7. LockNotForgotten'
    BY <2>1, <2>2 DEF LockNotForgotten, At
  <2>. QED  BY <2>3, <2>4, <2>5, <2>6, <2>7
<1>. QED  BY <1>1, <1>2

\* The steps of lock_acquire keep the invariant.
LEMMA AcquireStep ==
  ASSUME IInv, NEW t \in Thread, LockCall(t) \/ LockTake(t) \/ LockSleep(t)
  PROVE  IInv'
<1>. USE DEF IInv, TypeOK, lockVars, cvVars
<1>1. CASE LockCall(t)
  <2>. USE <1>1 DEF LockCall
  <2>1. TypeOK'
    BY DEF Outside
  <2>2. MutualExclusion' /\ SpinExact'
    BY DEF MutualExclusion, SpinExact, Inside
  <2>3. ChannelsExact'
    BY OffChannels
  <2>4. LockNotForgotten'
    BY DEF LockNotForgotten, At
  <2>. QED  BY <2>1, <2>2, <2>3, <2>4
<1>2. CASE LockTake(t)
  <2>. USE <1>2 DEF LockTake
  <2>1. TypeOK'
    BY DEF Inside
  <2>2. MutualExclusion' /\ SpinExact'
    BY MonitorAssumption DEF MonitorAssumption, MutualExclusion, SpinExact, Inside
  <2>3. ChannelsExact'
    BY OffChannels
  <2>4. LockNotForgotten'
    BY MonitorAssumption DEF MonitorAssumption, LockNotForgotten
  <2>. QED  BY <2>1, <2>2, <2>3, <2>4
<1>3. CASE LockSleep(t)
  <2>. USE <1>3 DEF LockSleep
  <2>1. TypeOK'
    BY DEF Outside, Asleep
  <2>2. MutualExclusion' /\ SpinExact'
    BY DEF MutualExclusion, SpinExact, Inside
  <2>3. ChannelsExact'
    <3>1. t \notin At("lksleep") /\ At("lksleep")' = At("lksleep") \cup {t}
          /\ At("cvsleep")' = At("cvsleep")
      BY DEF At
    <3>2. Lists(Asleep(lk_wchan, t), At("lksleep") \cup {t})
      BY <3>1, SleepLists DEF ChannelsExact
    <3>. QED  BY <3>1, <3>2, ChannelsPrime DEF ChannelsExact
  <2>4. LockNotForgotten'
    BY DEF LockNotForgotten
  <2>. QED  BY <2>1, <2>2, <2>3, <2>4
<1>. QED  BY <1>1, <1>2, <1>3

\* The steps of cv_wait other than its lock_release keep the invariant.
LEMMA WaitStep ==
  ASSUME IInv, NEW t \in Thread, CvWaitEnter(t) \/ CvWaitSleep(t) \/ CvWaitWoken(t)
  PROVE  IInv'
<1>. USE DEF IInv, TypeOK, lockVars, cvVars
<1>1. CASE CvWaitEnter(t)
  <2>. USE <1>1 DEF CvWaitEnter
  <2>1. TypeOK'
    BY DEF Inside
  <2>2. MutualExclusion' /\ SpinExact'
    BY MonitorAssumption DEF MonitorAssumption, MutualExclusion, SpinExact, Inside
  <2>3. ChannelsExact'
    BY OffChannels
  <2>4. LockNotForgotten'
    BY DEF LockNotForgotten, At
  <2>. QED  BY <2>1, <2>2, <2>3, <2>4
<1>2. CASE CvWaitSleep(t)
  <2>. USE <1>2 DEF CvWaitSleep
  <2>1. TypeOK'
    BY DEF Outside, Asleep
  <2>2. MutualExclusion' /\ SpinExact'
    BY MonitorAssumption DEF MonitorAssumption, MutualExclusion, SpinExact, Inside
  <2>3. ChannelsExact'
    <3>1. t \notin At("cvsleep") /\ At("cvsleep")' = At("cvsleep") \cup {t}
          /\ At("lksleep")' = At("lksleep")
      BY DEF At
    <3>2. Lists(Asleep(cv_wchan, t), At("cvsleep") \cup {t})
      BY <3>1, SleepLists DEF ChannelsExact
    <3>. QED  BY <3>1, <3>2, ChannelsPrime DEF ChannelsExact
  <2>4. LockNotForgotten'
    BY DEF LockNotForgotten, At
  <2>. QED  BY <2>1, <2>2, <2>3, <2>4
<1>3. CASE CvWaitWoken(t)
  <2>. USE <1>3 DEF CvWaitWoken
  <2>1. TypeOK'
    BY DEF Outside
  <2>2. MutualExclusion' /\ SpinExact'
    BY DEF MutualExclusion, SpinExact, Inside
  <2>3. ChannelsExact'
    BY OffChannels
  <2>4. LockNotForgotten'
    BY DEF LockNotForgotten, At
  <2>. QED  BY <2>1, <2>2, <2>3, <2>4
<1>. QED  BY <1>1, <1>2, <1>3

\* cv_signal and cv_broadcast keep the invariant.
LEMMA SignalStep ==
  ASSUME IInv, NEW t \in Thread, CvSignal(t) \/ CvBroadcast(t)
  PROVE  IInv'
<1>. USE DEF IInv, TypeOK, lockVars
<1>1. CASE CvSignal(t)
  <2>. DEFINE h == Woke(cv_wchan)
  <2>1. /\ h \in Thread /\ pc[h] = "cvsleep"
        /\ AfterWakeOne(cv_wchan) \in Seq(Thread)
        /\ Lists(AfterWakeOne(cv_wchan), At("cvsleep") \ {h})
    BY <1>1, CvHead DEF CvSignal
  <2>2. /\ pc' = [pc EXCEPT ![h] = "cvwoken"] /\ cv_wchan' = AfterWakeOne(cv_wchan)
        /\ UNCHANGED <<lk_holder, lk_wchan, cv_spin>>
    BY <1>1 DEF CvSignal
  <2>3. TypeOK'
    BY <2>1, <2>2 DEF Outside
  <2>4. MutualExclusion' /\ SpinExact'
    BY <2>1, <2>2 DEF MutualExclusion, SpinExact, Inside
  <2>5. ChannelsExact'
    <3>1. At("cvsleep")' = At("cvsleep") \ {h} /\ At("lksleep")' = At("lksleep")
      BY <2>1, <2>2 DEF At
    <3>. QED  BY <2>1, <2>2, <3>1, ChannelsPrime DEF ChannelsExact
  <2>6. LockNotForgotten'
    BY <2>1, <2>2 DEF LockNotForgotten, At
  <2>. QED  BY <2>3, <2>4, <2>5, <2>6
<1>2. CASE CvBroadcast(t)
  <2>1. /\ On(cv_wchan) = At("cvsleep") /\ cv_wchan' = <<>>
        /\ pc' = [u \in Thread |-> IF u \in On(cv_wchan) THEN "cvwoken" ELSE pc[u]]
        /\ UNCHANGED <<lk_holder, lk_wchan, cv_spin>>
    BY <1>2 DEF CvBroadcast, ChannelsExact, Lists
  <2>2. pc' = [u \in Thread |-> IF pc[u] = "cvsleep" THEN "cvwoken" ELSE pc[u]]
    BY <2>1 DEF At
  <2>3. TypeOK'
    BY <2>1, <2>2 DEF Outside
  <2>4. MutualExclusion' /\ SpinExact'
    BY <2>1, <2>2 DEF MutualExclusion, SpinExact, Inside
  <2>5. ChannelsExact'
    <3>1. At("cvsleep")' = {} /\ At("lksleep")' = At("lksleep")
      BY <2>2 DEF At
    <3>. QED  BY <2>1, <3>1, EmptyChannel, ChannelsPrime DEF ChannelsExact
  <2>6. LockNotForgotten'
    BY <2>1, <2>2 DEF LockNotForgotten, At
  <2>. QED  BY <2>3, <2>4, <2>5, <2>6
<1>. QED  BY <1>1, <1>2

\* Every reachable state satisfies the inductive invariant.
LEMMA Inductive == Spec => []IInv
<1>1. Init => IInv
  <2>. SUFFICES ASSUME Init PROVE IInv
    OBVIOUS
  <2>1. TypeOK
    BY EmptyChannel DEF Init, TypeOK, Outside
  <2>2. MutualExclusion /\ SpinExact /\ LockNotForgotten
    BY MonitorAssumption DEF MonitorAssumption, Init, MutualExclusion, SpinExact, LockNotForgotten, Inside
  <2>3. ChannelsExact
    <3>1. lk_wchan = <<>> /\ cv_wchan = <<>> /\ At("lksleep") = {} /\ At("cvsleep") = {}
      BY DEF Init, At
    <3>. QED  BY <3>1, EmptyChannel DEF ChannelsExact
  <2>. QED  BY <2>1, <2>2, <2>3 DEF IInv
<1>2. IInv /\ [Next]_vars => IInv'
  <2>. SUFFICES ASSUME IInv, [Next]_vars PROVE IInv'
    OBVIOUS
  <2>1. ASSUME NEW t \in Thread, LockRelease(t) PROVE IInv'
    BY <2>1, ReleaseStep DEF LockRelease
  <2>2. ASSUME NEW t \in Thread, CvWaitRelease(t) PROVE IInv'
    BY <2>2, ReleaseStep DEF CvWaitRelease
  <2>3. CASE UNCHANGED vars
    BY <2>3 DEF vars, IInv, TypeOK, MutualExclusion, SpinExact, ChannelsExact, LockNotForgotten,
                Lists, On, At
  <2>. QED  BY <2>1, <2>2, <2>3, AcquireStep, WaitStep, SignalStep DEF Next, Continue
<1>. QED  BY <1>1, <1>2, PTL DEF Spec

\* The lock is a lock: whatever the wakeups and the cv_waits in between, the
\* threads inside are exactly the recorded holder.
THEOREM MutexHolds == Spec => []MutualExclusion
BY Inductive, PTL DEF IInv

\* The lock and the condition variable wake only threads that sleep, and no
\* thread sleeps off its channel.
THEOREM ChannelsHold == Spec => []ChannelsExact
BY Inductive, PTL DEF IInv

\* A release never leaves a free lock with sleepers and nobody on the way.
THEOREM LockIsNotForgotten == Spec => []LockNotForgotten
BY Inductive, PTL DEF IInv

\* The safety part of "the code is the Mesa monitor".
SafelyMesa == Mesa!Init /\ [][Mesa!Next]_(Mesa!vars)

\* Who the abstract waiters are: the channel while nobody is between
\* lock_release and wchan_sleep, else the channel and the holder of
\* cv_wchanlock.
LEMMA WaitingIs ==
  ASSUME TypeOK, SpinExact
  PROVE  /\ At("cv_released") = {} => Waiting = cv_wchan
         /\ \A t \in Thread : pc[t] = "cv_released" => Waiting = Append(cv_wchan, t)
         /\ cv_spin = Nobody => At("cv_released") = {}
         /\ \A t \in Thread : pc[t] = "cv_entered" => At("cv_released") = {}
<1>1. \A t, u \in Thread : pc[t] \in {"cv_entered", "cv_released"}
                         /\ pc[u] \in {"cv_entered", "cv_released"} => t = u
  BY DEF SpinExact
<1>2. ASSUME NEW t \in Thread, pc[t] = "cv_released" PROVE Waiting = Append(cv_wchan, t)
  <2>1. At("cv_released") = {t}
    BY <1>1, <1>2 DEF At
  <2>2. TheOne({t}) = t
    BY DEF TheOne
  <2>. QED  BY <2>1, <2>2 DEF Waiting
<1>3. cv_spin = Nobody => At("cv_released") = {}
  BY MonitorAssumption DEF MonitorAssumption, SpinExact, At
<1>4. \A t \in Thread : pc[t] = "cv_entered" => At("cv_released") = {}
  BY <1>1 DEF At
<1>. QED  BY <1>2, <1>3, <1>4 DEF Waiting

\* A step that leaves cv_wchan and cv_released alone leaves the waiters alone.
LEMMA WaitingSame ==
  ASSUME At("cv_released")' = At("cv_released"), cv_wchan' = cv_wchan
  PROVE  Waiting' = Waiting
BY DEF Waiting

\* lock_release changes neither who wants to enter nor, on its own, the
\* waiters: the sleeper it wakes wanted to enter before.
LEMMA ReleaseKeepsWanting ==
  ASSUME IInv, NEW t \in Thread, NEW next, ReleaseTo(t, next),
         pc[t] \in Inside, next \in {"out", "cv_released"}
  PROVE  /\ Wanting' = Wanting
         /\ lk_holder = t /\ lk_holder' = Nobody
         /\ At("cv_released")' = IF next = "out" THEN At("cv_released")
                                ELSE At("cv_released") \cup {t}
<1>. USE DEF IInv, TypeOK, Inside, ReleaseTo
<1>1. CASE lk_wchan = <<>>
  BY <1>1 DEF Wanting, At
<1>2. CASE lk_wchan # <<>>
  <2>1. Woke(lk_wchan) \in Thread /\ pc[Woke(lk_wchan)] = "lksleep"
    BY <1>2, LkHead
  <2>. QED  BY <1>2, <2>1 DEF Wanting, At
<1>. QED  BY <1>1, <1>2

\* Every step of the code is a step of the Mesa monitor or invisible to it.
LEMMA MesaStep ==
  ASSUME IInv, NEW t \in Thread,
         Continue(t) \/ LockCall(t) \/ LockRelease(t) \/ CvWaitEnter(t)
           \/ CvSignal(t) \/ CvBroadcast(t)
  PROVE  Mesa!Next \/ UNCHANGED Mesa!vars
<1>. USE DEF IInv, TypeOK, lockVars, cvVars
<1>1. CASE LockCall(t)
  <2>1. At("cv_released")' = At("cv_released") /\ cv_wchan' = cv_wchan /\ lk_holder' = lk_holder
    BY <1>1 DEF LockCall, At
  <2>2. Wanting' = Wanting \cup {t} /\ t \notin Wanting
    BY <1>1 DEF LockCall, Wanting
  <2>3. lk_holder # t
    BY <1>1 DEF LockCall, MutualExclusion, Inside
  <2>4. t \notin Mesa!Range(Waiting)
    <3>1. t \notin On(cv_wchan)
      BY <1>1 DEF LockCall, ChannelsExact, Lists, At
    <3>2. CASE At("cv_released") = {}
      <4>1. Waiting = cv_wchan
        BY <3>2, WaitingIs
      <4>2. DOMAIN cv_wchan = 1..Len(cv_wchan)
        OBVIOUS
      <4>3. \A i \in DOMAIN Waiting : Waiting[i] # t
        BY <3>1, <4>1, <4>2 DEF On
      <4>. QED  BY <4>3 DEF Mesa!Range
    <3>3. CASE At("cv_released") # {}
      <4>1. PICK u \in Thread : pc[u] = "cv_released"
        BY <3>3 DEF At
      <4>2. Waiting = Append(cv_wchan, u) /\ u # t
        BY <1>1, <4>1, WaitingIs DEF LockCall
      <4>3. \A i \in DOMAIN Waiting : Waiting[i] # t
        BY <3>1, <4>2 DEF On
      <4>. QED  BY <4>3 DEF Mesa!Range
    <3>. QED  BY <3>2, <3>3
  <2>5. Mesa!Call(t)
    BY <2>1, <2>2, <2>3, <2>4, WaitingSame DEF Mesa!Call
  <2>. QED  BY <2>5 DEF Mesa!Next
<1>2. CASE LockTake(t)
  <2>1. At("cv_released")' = At("cv_released") /\ cv_wchan' = cv_wchan
    BY <1>2 DEF LockTake, At
  <2>2. Wanting' = Wanting \ {t} /\ t \in Wanting
    BY <1>2 DEF LockTake, Wanting
  <2>3. Mesa!Enter(t)
    BY <1>2, <2>1, <2>2, WaitingSame DEF LockTake, Mesa!Enter
  <2>. QED  BY <2>3 DEF Mesa!Next
<1>3. CASE LockSleep(t)
  <2>1. /\ At("cv_released")' = At("cv_released") /\ cv_wchan' = cv_wchan
        /\ Wanting' = Wanting /\ lk_holder' = lk_holder
    BY <1>3 DEF LockSleep, At, Wanting
  <2>. QED  BY <2>1, WaitingSame DEF Mesa!vars
<1>4. CASE LockRelease(t)
  <2>1. /\ Wanting' = Wanting /\ lk_holder = t /\ lk_holder' = Nobody
        /\ At("cv_released")' = At("cv_released") /\ cv_wchan' = cv_wchan
    BY <1>4, ReleaseKeepsWanting DEF LockRelease, Inside
  <2>2. Mesa!Leave(t)
    BY <2>1, WaitingSame DEF Mesa!Leave
  <2>. QED  BY <2>2 DEF Mesa!Next
<1>5. CASE CvWaitEnter(t)
  <2>1. /\ At("cv_released")' = At("cv_released") /\ cv_wchan' = cv_wchan
        /\ Wanting' = Wanting /\ lk_holder' = lk_holder
    BY <1>5 DEF CvWaitEnter, At, Wanting
  <2>. QED  BY <2>1, WaitingSame DEF Mesa!vars
<1>6. CASE CvWaitRelease(t)
  <2>1. /\ Wanting' = Wanting /\ lk_holder = t /\ lk_holder' = Nobody
        /\ At("cv_released")' = At("cv_released") \cup {t} /\ cv_wchan' = cv_wchan
    BY <1>6, ReleaseKeepsWanting DEF CvWaitRelease, Inside
  <2>2. At("cv_released") = {} /\ Waiting = cv_wchan
    BY <1>6, WaitingIs DEF CvWaitRelease
  <2>3. Waiting' = Append(cv_wchan, t)
    <3>1. At("cv_released")' = {t}
      BY <2>1, <2>2
    <3>2. TheOne({t}) = t
      BY DEF TheOne
    <3>. QED  BY <2>1, <3>1, <3>2 DEF Waiting
  <2>4. Mesa!Wait(t)
    BY <2>1, <2>2, <2>3 DEF Mesa!Wait
  <2>. QED  BY <2>4 DEF Mesa!Next
<1>7. CASE CvWaitSleep(t)
  <2>1. Waiting = Append(cv_wchan, t) /\ cv_wchan' = Append(cv_wchan, t)
    BY <1>7, WaitingIs DEF CvWaitSleep, Asleep
  <2>2. At("cv_released")' = {} /\ Wanting' = Wanting /\ lk_holder' = lk_holder
    BY <1>7 DEF CvWaitSleep, At, Wanting, SpinExact
  <2>3. Waiting' = Waiting
    BY <2>1, <2>2 DEF Waiting
  <2>. QED  BY <2>2, <2>3 DEF Mesa!vars
<1>8. CASE CvWaitWoken(t)
  <2>1. /\ At("cv_released")' = At("cv_released") /\ cv_wchan' = cv_wchan
        /\ Wanting' = Wanting /\ lk_holder' = lk_holder
    BY <1>8 DEF CvWaitWoken, At, Wanting
  <2>. QED  BY <2>1, WaitingSame DEF Mesa!vars
<1>9. CASE CvSignal(t)
  <2>1. /\ Woke(cv_wchan) \in Thread /\ pc[Woke(cv_wchan)] = "cvsleep"
        /\ At("cv_released") = {} /\ Waiting = cv_wchan /\ cv_wchan # <<>>
    BY <1>9, CvHead, WaitingIs DEF CvSignal
  <2>2. /\ At("cv_released")' = {} /\ Wanting' = Wanting \cup {Woke(cv_wchan)}
        /\ lk_holder' = lk_holder /\ cv_wchan' = AfterWakeOne(cv_wchan)
    BY <1>9, <2>1 DEF CvSignal, At, Wanting
  <2>3. Waiting' = AfterWakeOne(cv_wchan)
    BY <2>2 DEF Waiting
  <2>4. lk_holder = t
    BY <1>9 DEF CvSignal, MutualExclusion, Inside
  <2>5. Mesa!Signal(t)
    BY <2>1, <2>2, <2>3, <2>4 DEF Mesa!Signal, Woke, AfterWakeOne
  <2>. QED  BY <2>5 DEF Mesa!Next
<1>10. CASE CvBroadcast(t)
  <2>1. /\ On(cv_wchan) = At("cvsleep")
        /\ At("cv_released") = {} /\ Waiting = cv_wchan
    BY <1>10, WaitingIs DEF CvBroadcast, ChannelsExact, Lists
  <2>2. pc' = [u \in Thread |-> IF pc[u] = "cvsleep" THEN "cvwoken" ELSE pc[u]]
    BY <1>10, <2>1 DEF CvBroadcast, At
  <2>3. /\ At("cv_released")' = {} /\ Wanting' = Wanting \cup At("cvsleep")
        /\ lk_holder' = lk_holder /\ cv_wchan' = <<>>
    <3>1. At("cv_released")' = {}
      BY <2>1, <2>2 DEF At
    <3>2. Wanting' = Wanting \cup At("cvsleep")
      BY <2>2 DEF At, Wanting
    <3>. QED  BY <1>10, <3>1, <3>2 DEF CvBroadcast
  <2>4. Waiting' = <<>>
    BY <2>3 DEF Waiting
  <2>5. Mesa!Range(Waiting) = At("cvsleep")
    <3>1. DOMAIN cv_wchan = 1..Len(cv_wchan)
      OBVIOUS
    <3>. QED  BY <2>1, <3>1 DEF Mesa!Range, On
  <2>6. lk_holder = t
    BY <1>10 DEF CvBroadcast, MutualExclusion, Inside
  <2>7. Mesa!Broadcast(t)
    BY <2>3, <2>4, <2>5, <2>6 DEF Mesa!Broadcast
  <2>. QED  BY <2>7 DEF Mesa!Next
<1>. QED
  BY <1>1, <1>2, <1>3, <1>4, <1>5, <1>6, <1>7, <1>8, <1>9, <1>10 DEF Continue

\* cv_wait releases the lock and joins the waiters as if in one step, and
\* cv_signal and cv_broadcast take the waiters in order: every step of the
\* code is one of the Mesa monitor's, or changes nothing of it.
THEOREM MesaRefinement == Spec => SafelyMesa
<1>1. Init => Mesa!Init
  BY DEF Init, Mesa!Init, Wanting, Waiting, At
<1>2. IInv /\ [Next]_vars => [Mesa!Next]_(Mesa!vars)
  <2>. SUFFICES ASSUME IInv, [Next]_vars PROVE Mesa!Next \/ UNCHANGED Mesa!vars
    OBVIOUS
  <2>1. CASE UNCHANGED vars
    <3>1. At("cv_released")' = At("cv_released") /\ Wanting' = Wanting
      BY <2>1 DEF vars, At, Wanting
    <3>. QED  BY <2>1, <3>1, WaitingSame DEF vars, Mesa!vars
  <2>. QED  BY <2>1, MesaStep DEF Next
<1>. QED  BY <1>1, <1>2, Inductive, PTL DEF Spec, SafelyMesa

\* What is swapped stays a request.
LEMMA SwapTyped ==
  ASSUME NEW s \in [Slots -> 0..NBottles], NEW i \in 1..2
  PROVE  Swap(s, i) \in [Slots -> 0..NBottles]
<1>1. i \in Slots /\ i + 1 \in Slots
  BY DEF Slots, DRINK_COMPLEXITY
<1>. QED  BY <1>1 DEF Swap

\* What one pass of the sort makes of a request is a request.
LEMMA PassTyped ==
  ASSUME NEW s \in [Slots -> 0..NBottles]
  PROVE  Pass(s) \in [Slots -> 0..NBottles]
<1>. DEFINE F(f) == f = [i \in 0..DRINK_COMPLEXITY-1 |-> IF i = 0 THEN s ELSE Swap(f[i - 1], i)]
            after == CHOOSE f : F(f)
            g == [i \in 0..2 |-> IF i = 0 THEN s ELSE IF i = 1 THEN Swap(s, 1) ELSE Swap(Swap(s, 1), 2)]
<1>1. Pass(s) = after[DRINK_COMPLEXITY - 1]
  BY DEF Pass
<1>2. F(g)
  BY DEF DRINK_COMPLEXITY
<1>3. F(after)
  BY <1>2
<1>4. PICK f : f = after /\ F(f)
  BY <1>3
<1>5. f[0] = s /\ f[1] = Swap(f[0], 1) /\ f[2] = Swap(f[1], 2)
  <2>1. f = [i \in 0..2 |-> IF i = 0 THEN s ELSE Swap(f[i - 1], i)]
    BY <1>4 DEF DRINK_COMPLEXITY
  <2>. QED  BY <2>1
<1>6. f[1] \in [Slots -> 0..NBottles]
  BY <1>5, SwapTyped
<1>7. f[2] \in [Slots -> 0..NBottles]
  BY <1>5, <1>6, SwapTyped
<1>. QED  BY <1>1, <1>4, <1>7 DEF DRINK_COMPLEXITY

\* The sort leaves a request (sort_requested_bottles).
LEMMA SortedTyped ==
  ASSUME NEW s \in [Slots -> 0..NBottles]
  PROVE  Sorted(s) \in [Slots -> 0..NBottles]
<1>. DEFINE F(f) == f = [k \in 0..DRINK_COMPLEXITY |-> IF k = 0 THEN s ELSE Pass(f[k - 1])]
            after == CHOOSE f : F(f)
            g == [k \in 0..3 |-> IF k = 0 THEN s ELSE IF k = 1 THEN Pass(s)
                                 ELSE IF k = 2 THEN Pass(Pass(s)) ELSE Pass(Pass(Pass(s)))]
<1>1. Sorted(s) = after[DRINK_COMPLEXITY]
  BY DEF Sorted
<1>2. F(g)
  BY DEF DRINK_COMPLEXITY
<1>3. F(after)
  BY <1>2
<1>4. PICK f : f = after /\ F(f)
  BY <1>3
<1>5. f[0] = s /\ f[1] = Pass(f[0]) /\ f[2] = Pass(f[1]) /\ f[3] = Pass(f[2])
  <2>1. f = [k \in 0..3 |-> IF k = 0 THEN s ELSE Pass(f[k - 1])]
    BY <1>4 DEF DRINK_COMPLEXITY
  <2>. QED  BY <2>1
<1>6. f[1] \in [Slots -> 0..NBottles]
  BY <1>5, PassTyped
<1>7. f[2] \in [Slots -> 0..NBottles]
  BY <1>5, <1>6, PassTyped
<1>8. f[3] \in [Slots -> 0..NBottles]
  BY <1>5, <1>7, PassTyped
<1>. QED  BY <1>1, <1>4, <1>8 DEF DRINK_COMPLEXITY

Where(places) == {t \in Customers \cup Bartenders : bar_pc[t] \in places}

CustomerPlaces == {"choose", "order", "enqueue", "announce", "wait", "drink", "home", "leave", "gone"}
Busy == {"free", "sort", "bottles", "mix", "pour", "return", "serve"}

Places == /\ \A c \in Customers : bar_pc[c] \in CustomerPlaces
          /\ \A b \in Bartenders : bar_pc[b] \in Busy \cup {"take", "dequeue", "leave", "gone"}

\* The bartenders that have an order in hand; the orders are different, and the one
\* to go home is not filled.
Hands == Where(Busy)

Tasks ==
  \A b \in Hands :
    /\ \A a \in Hands : job[a].order = job[b].order => a = b
    /\ job[b].order = GoHome => bar_pc[b] \in {"free", "serve"}

\* The bottles a bartender has locked are the first so many its order notes, and those
\* requested are among them as far as take_bottles has come.
Noted(b) == IF bar_pc[b] = "bottles" THEN job[b].j - 1
            ELSE IF bar_pc[b] \in {"mix", "pour"} THEN DRINK_COMPLEXITY
            ELSE IF bar_pc[b] = "return" THEN job[b].i ELSE 0

Taken(b) == IF bar_pc[b] = "bottles" THEN job[b].i - 1
            ELSE IF bar_pc[b] \in {"mix", "pour"} THEN DRINK_COMPLEXITY ELSE 0

BottlesOf(b) ==
  /\ bar_pc[b] \in {"bottles", "mix", "pour", "return"} => job[b].i \in Slots
  /\ bar_pc[b] = "bottles" => /\ job[b].j \in 1..job[b].i
                              /\ \A x \in job[b].j..job[b].i-1 : order[job[b].order].hold[x] = 0
  /\ \A k \in Bottle : bottle_lock[k] = b <=> \E x \in 1..Noted(b) : order[job[b].order].hold[x] = k
  /\ \A x, y \in 1..Noted(b) :
       order[job[b].order].hold[x] = order[job[b].order].hold[y] /\ order[job[b].order].hold[x] # 0 => x = y
  /\ \A x \in 1..Taken(b) :
       order[job[b].order].requested[x] # 0 => bottle_lock[order[job[b].order].requested[x]] = b

\* The glass is filled as far as mix has come; the doses read are those of the bottle.
Filled(b) == IF bar_pc[b] = "mix" THEN job[b].i - 1
             ELSE IF bar_pc[b] = "pour" THEN job[b].i
             ELSE IF bar_pc[b] \in {"return", "serve"} THEN DRINK_COMPLEXITY ELSE 0

GlassOf(b) ==
  /\ job[b].order # GoHome =>
       \A x \in 1..Filled(b) : order[job[b].order].glass[x] = order[job[b].order].requested[x]
  /\ bar_pc[b] = "pour" => /\ job[b].bottle = order[job[b].order].requested[job[b].i]
                           /\ job[b].bottle # 0 /\ job[b].read = doses[job[b].bottle]

Work == Tasks /\ \A b \in Bartenders : BottlesOf(b) /\ GlassOf(b)

\* A customer's order has been lent a semaphore; the customer waits for its drink.
Lent     == {c \in Customers : asks[c] = GoHome \/ bar_pc[c] \notin {"choose", "order", "enqueue"}}
Waits(c) == bar_pc[c] \in {"announce", "wait"}

\* Of d orders taken from the queue, those that are in no bartender's hands are served.
Served(c, d) == /\ c \in Lent /\ order[c].wait < d
                /\ \A b \in Hands : job[b].order # c

Wrap(i) == IF i = NC THEN 0 ELSE i

\* While drinks are ordered: e orders have been queued, d of them taken out and s of
\* those served; the i-th order has the i-th slot and the i-th semaphore.
Rings(e, d, s) ==
  /\ s <= d /\ d <= e
  /\ e + Cardinality(Where({"choose", "order", "enqueue"})) = NC /\ d = s + Cardinality(Hands)
  /\ order_hi = Wrap(e) /\ drink_lo = Wrap(e) /\ order_lo = Wrap(d) /\ drink_hi = Wrap(s)

Orders(e, d) ==
  /\ \A c \in Customers : asks[c] = c
  /\ \A i \in e..NC-1 : drink_sem[i] = i /\ drink_count[i] = 0
  /\ \A c \in Lent : order[c].wait \in 0..e-1 /\ order_queue[order[c].wait] = c
  /\ \A i \in 0..e-1 : order_queue[i] \in Lent /\ order[order_queue[i]].wait = i
  /\ \A b \in Hands : job[b].order \in Lent /\ order[job[b].order].wait < d

Signals(d) ==
  \A c \in Lent :
    /\ drink_count[order[c].wait] = IF Served(c, d) /\ Waits(c) THEN 1 ELSE 0
    /\ ~Served(c, d) => Waits(c)
    /\ Served(c, d) /\ bar_pc[c] \in {"announce", "wait", "drink"} => order[c].glass = order[c].requested

Returned(d, s) ==
  {drink_sem[i] : i \in 0..s-1} = {order[c].wait : c \in {x \in Customers : Served(x, d)}}

Conserved(e, d) ==
  /\ e = d + empty_sem + Cardinality(Where({"announce"})) + Cardinality(Where({"dequeue"}))
  /\ NC = full_sem + Cardinality(Where({"enqueue"})) + (e - d) + Cardinality(Where({"free"}))

Thirsty == /\ customers = Cardinality(Where(CustomerPlaces \ {"leave", "gone"}))
           /\ customers # 0

Drinking(e, d, s) == Rings(e, d, s) /\ Orders(e, d) /\ Signals(d) /\ Returned(d, s) /\ Conserved(e, d) /\ Thirsty

\* When the last customer sends the bartenders home, there is one order at a time.
Quiet       == Hands = {} /\ Where({"dequeue"}) = {} /\ empty_sem = 0
Unsignalled == \A i \in 0..NC-1 : drink_count[i] = 0
Pending     == /\ order_hi = Wrap(drink_hi + 1)
               /\ order[GoHome].wait = drink_sem[drink_hi]
               /\ Unsignalled
Queued      == /\ order_lo = drink_hi /\ order_queue[order_lo] = GoHome
               /\ Hands = {} /\ full_sem = NC - 1

Between(z)  == /\ bar_pc[z] \in {"order", "enqueue", "leave", "gone"}
               /\ Quiet /\ Unsignalled /\ order_lo = order_hi /\ drink_hi = drink_lo
               /\ full_sem = IF bar_pc[z] = "enqueue" THEN NC - 1 ELSE NC
Put(z)      == bar_pc[z] = "announce" /\ Pending /\ Queued /\ Quiet
Announced(z) == /\ bar_pc[z] = "wait" /\ Pending /\ Queued
                /\ empty_sem + Cardinality(Where({"dequeue"})) = 1
InHand(z)   == /\ bar_pc[z] = "wait" /\ Pending /\ order_lo = order_hi
               /\ empty_sem = 0 /\ Where({"dequeue"}) = {}
               /\ \E b \in Bartenders :
                    /\ Hands = {b} /\ job[b].order = GoHome
                    /\ full_sem = IF bar_pc[b] = "free" THEN NC - 1 ELSE NC
Signalled(z) == /\ bar_pc[z] = "wait" /\ Quiet /\ order_lo = order_hi /\ drink_hi = drink_lo /\ full_sem = NC
                /\ \A i \in 0..NC-1 : drink_count[i] = IF i = order[GoHome].wait THEN 1 ELSE 0

GoingHome(z) ==
  /\ asks[z] = GoHome /\ customers = 0
  /\ \A c \in Customers \ {z} : asks[c] = c /\ bar_pc[c] \in {"leave", "gone"}
  /\ order_hi = drink_lo /\ {drink_sem[i] : i \in 0..NC-1} = 0..NC-1
  /\ Between(z) \/ Put(z) \/ Announced(z) \/ InHand(z) \/ Signalled(z)

\* The doses on a bottle's count are the slots poured from it.
Past(b, i) == bar_pc[b] \in {"return", "serve"} \/ (bar_pc[b] \in {"mix", "pour"} /\ i < job[b].i)

Poured(c, i, d) == /\ c \in Lent /\ order[c].wait < d
                   /\ \A b \in Hands : job[b].order = c => Past(b, i)

Counts(d) ==
  \A k \in Bottle :
    doses[k] = Cardinality({x \in Customers \X Slots : Poured(x[1], x[2], d) /\ order[x[1]].requested[x[2]] = k})

Gone == alldone = Cardinality(Where({"gone"}))

Phase(d) == (\E e, s \in 0..NC : Drinking(e, d, s)) \/ (d = NC /\ \E z \in Customers : GoingHome(z))

BarIInv == /\ BarTypeOK /\ Places /\ Work /\ Gone
           /\ \E d \in 0..NC : Phase(d) /\ Counts(d)

-----------------------------------------------------------------------------
(* Threads and slots *)

\* A set of threads is finite, and so is the number of its members.
LEMMA Countable ==
  ASSUME NEW places
  PROVE  IsFiniteSet(Where(places)) /\ Cardinality(Where(places)) \in Nat
<1>1. IsFiniteSet(Customers \cup Bartenders)
  BY BarAssumption, FS_Union DEF BarAssumption
<1>2. IsFiniteSet(Where(places))
  BY <1>1, FS_Subset DEF Where
<1>. QED  BY <1>2, FS_CardinalityType

\* There is somebody at places if and only if their number is not 0.
LEMMA NobodyThere ==
  ASSUME NEW places
  PROVE  Cardinality(Where(places)) = 0 <=> Where(places) = {}
BY Countable, FS_EmptySet

\* Who is the only one at places leaves nobody there.
LEMMA OnlyOne ==
  ASSUME NEW places, NEW t \in Where(places), Cardinality(Where(places)) = 1
  PROVE  Where(places) = {t}
<1>1. IsFiniteSet(Where(places)) /\ Cardinality(Where(places) \ {t}) = 0
  BY Countable, FS_RemoveElement
<1>2. Where(places) \ {t} = {}
  BY <1>1, FS_RemoveElement, FS_EmptySet
<1>. QED  BY <1>2

Bit(P) == IF P THEN 1 ELSE 0

\* A step of one thread counts it out of the place it leaves and into the one it goes to.
LEMMA StepCounts ==
  ASSUME BarTypeOK, NEW t \in Customers \cup Bartenders, NEW q, Proceed(t, q), NEW places
  PROVE  /\ Cardinality(Where(places))' \in Nat
         /\ Cardinality(Where(places))' = Cardinality(Where(places)) - Bit(bar_pc[t] \in places) + Bit(q \in places)
<1>. DEFINE A == Where(places)
            Z == {u \in Customers \cup Bartenders : bar_pc'[u] \in places}
<1>1. /\ bar_pc'[t] = q /\ \A u \in Customers \cup Bartenders : u # t => bar_pc'[u] = bar_pc[u]
  BY DEF BarTypeOK, Proceed
<1>2. IsFiniteSet(A) /\ Cardinality(A) \in Nat
  BY Countable
<1>3. Cardinality(Where(places))' = Cardinality(Z)
  <2>1. Where(places)' = Z
    BY DEF Where
  <2>. QED  BY <2>1
<1>4. CASE bar_pc[t] \in places /\ q \in places
  <2>1. Z = A
    BY <1>1, <1>4 DEF Where
  <2>2. Cardinality(Z) = Cardinality(A)
    BY <2>1
  <2>. HIDE DEF A, Z
  <2>3. /\ Cardinality(Z) \in Nat
        /\ Cardinality(Z) = Cardinality(A) - Bit(bar_pc[t] \in places) + Bit(q \in places)
    BY <1>2, <1>4, <2>2 DEF Bit
  <2>. QED  BY <1>3, <2>3 DEF A
<1>5. CASE bar_pc[t] \in places /\ q \notin places
  <2>1. Z = A \ {t} /\ t \in A
    BY <1>1, <1>5 DEF Where
  <2>2. Cardinality(Z) = Cardinality(A) - 1 /\ IsFiniteSet(Z)
    BY <1>2, <2>1, FS_RemoveElement
  <2>. HIDE DEF A, Z
  <2>3. Cardinality(Z) \in Nat
    BY <2>2, FS_CardinalityType
  <2>4. Cardinality(Z) = Cardinality(A) - Bit(bar_pc[t] \in places) + Bit(q \in places)
    BY <1>2, <1>5, <2>2 DEF Bit
  <2>. QED  BY <1>3, <2>3, <2>4 DEF A
<1>6. CASE bar_pc[t] \notin places /\ q \in places
  <2>1. Z = A \cup {t} /\ t \notin A
    BY <1>1, <1>6 DEF Where
  <2>2. Cardinality(Z) = Cardinality(A) + 1
    BY <1>2, <2>1, FS_AddElement
  <2>. HIDE DEF A, Z
  <2>3. /\ Cardinality(Z) \in Nat
        /\ Cardinality(Z) = Cardinality(A) - Bit(bar_pc[t] \in places) + Bit(q \in places)
    BY <1>2, <1>6, <2>2 DEF Bit
  <2>. QED  BY <1>3, <2>3 DEF A
<1>7. CASE bar_pc[t] \notin places /\ q \notin places
  <2>1. Z = A
    BY <1>1, <1>7 DEF Where
  <2>2. Cardinality(Z) = Cardinality(A)
    BY <2>1
  <2>. HIDE DEF A, Z
  <2>3. /\ Cardinality(Z) \in Nat
        /\ Cardinality(Z) = Cardinality(A) - Bit(bar_pc[t] \in places) + Bit(q \in places)
    BY <1>2, <1>7, <2>2 DEF Bit
  <2>. QED  BY <1>3, <2>3 DEF A
<1>. QED  BY <1>4, <1>5, <1>6, <1>7

\* There is a customer, so there is a slot.
LEMMA SomeSlots == NC \in Nat /\ NC > 0
<1>1. Cardinality(Customers) \in Nat /\ Cardinality(Customers) # 0
  BY BarAssumption, FS_CardinalityType, FS_EmptySet DEF BarAssumption
<1>. QED  BY <1>1 DEF NC

\* The slot after the last is the first.
LEMMA NextSlot ==
  ASSUME NEW i \in 0..NC-1
  PROVE  (i + 1) % NC = Wrap(i + 1) /\ Wrap(i + 1) \in 0..NC-1
<1>. NC \in Nat /\ NC > 0
  BY SomeSlots
<1>1. CASE i + 1 = NC
  BY <1>1 DEF Wrap
<1>2. CASE i + 1 # NC
  BY <1>2 DEF Wrap
<1>. QED  BY <1>1, <1>2

\* The customers and the go-home order are different, and bartenders are neither.
LEMMA Roles ==
  /\ GoHome \notin Customers /\ NoThread \notin Bartenders /\ Customers \cap Bartenders = {}
  /\ \A b \in Bartenders : b # NoThread
BY BarAssumption DEF BarAssumption

-----------------------------------------------------------------------------
(* What the invariant says, and that it holds at first *)

\* Once everybody is counted out, everybody is gone, and the last customer has
\* nothing under way.
LEMMA AllGone ==
  ASSUME BarTypeOK, Places, Gone, NEW d, Phase(d), Closed
  PROVE  /\ \A t \in Customers \cup Bartenders : bar_pc[t] = "gone"
         /\ d = NC /\ \E z \in Customers : GoingHome(z) /\ Between(z)
<1>. DEFINE T == Customers \cup Bartenders
<1>1. /\ IsFiniteSet(T) /\ Cardinality(T) = Cardinality(Customers) + Cardinality(Bartenders)
  <2>1. IsFiniteSet(Customers) /\ IsFiniteSet(Bartenders) /\ Customers \cap Bartenders = {}
    BY BarAssumption DEF BarAssumption
  <2>2. /\ IsFiniteSet(T)
        /\ Cardinality(T) = Cardinality(Customers) + Cardinality(Bartenders) - Cardinality(Customers \cap Bartenders)
    BY <2>1, FS_Union
  <2>3. /\ Cardinality(Customers \cap Bartenders) = 0
        /\ Cardinality(Customers) \in Nat /\ Cardinality(Bartenders) \in Nat
    BY <2>1, FS_EmptySet, FS_CardinalityType
  <2>. QED  BY <2>2, <2>3
<1>2. Cardinality(Where({"gone"})) = Cardinality(T) /\ Where({"gone"}) \subseteq T
  BY <1>1 DEF Gone, Closed, Where
<1>3. Where({"gone"}) = T
  BY <1>1, <1>2, FS_Subset
<1>4. \A t \in T : bar_pc[t] = "gone"
  BY <1>3 DEF Where
<1>5. ~\E e, s \in 0..NC : Drinking(e, d, s)
  <2>. SUFFICES ASSUME NEW e, NEW s, Drinking(e, d, s) PROVE FALSE
    OBVIOUS
  <2>1. Where(CustomerPlaces \ {"leave", "gone"}) = {}
    BY <1>4 DEF Where
  <2>. QED  BY <2>1, NobodyThere DEF Drinking, Thirsty
<1>6. d = NC /\ \E z \in Customers : GoingHome(z)
  BY <1>5 DEF Phase
<1>7. PICK z \in Customers : GoingHome(z)
  BY <1>6
<1>8. Between(z)
  BY <1>4, <1>7 DEF GoingHome, Put, Announced, InHand, Signalled
<1>. QED  BY <1>4, <1>6, <1>7, <1>8

\* The invariant gives the properties of the bar.
LEMMA BarInvariantSuffices == BarIInv => GlassFilled /\ ReleasesItsOwn /\ ClosesClean /\ DosesAddUp
<1>. SUFFICES ASSUME BarIInv PROVE GlassFilled /\ ReleasesItsOwn /\ ClosesClean /\ DosesAddUp
  OBVIOUS
<1>. USE DEF BarIInv
<1>1. PICK d \in 0..NC : Phase(d) /\ Counts(d)
  OBVIOUS
<1>2. GlassFilled
  <2>. SUFFICES ASSUME NEW c \in Customers, bar_pc[c] = "drink" PROVE order[c].glass = order[c].requested
    BY DEF GlassFilled
  <2>1. CASE \E e, s \in 0..NC : Drinking(e, d, s)
    BY <2>1 DEF Drinking, Signals, Lent, Waits
  <2>2. CASE \E z \in Customers : GoingHome(z)
    BY <2>2 DEF GoingHome, Between, Put, Announced, InHand, Signalled
  <2>. QED  BY <1>1, <2>1, <2>2 DEF Phase
<1>3. ReleasesItsOwn
  <2>. SUFFICES ASSUME NEW b \in Bartenders
       PROVE /\ bar_pc[b] = "return" => LET k == order[job[b].order].hold[job[b].i]
                                        IN  k # 0 => bottle_lock[k] = b
             /\ bar_pc[b] \in {"serve", "take", "leave"} => \A k \in Bottle : bottle_lock[k] # b
    BY DEF ReleasesItsOwn
  <2>1. BottlesOf(b)
    BY DEF Work
  <2>2. CASE bar_pc[b] = "return"
    <3>1. job[b].i \in Slots /\ Noted(b) = job[b].i /\ job[b].i \in 1..Noted(b)
      BY <2>1, <2>2 DEF BottlesOf, Noted, Slots, DRINK_COMPLEXITY
    <3>2. order[job[b].order].hold[job[b].i] \in 0..NBottles
      <4>1. job[b].order \in Order
        BY DEF BarTypeOK
      <4>2. order[job[b].order].hold \in [Slots -> 0..NBottles]
        BY <4>1 DEF BarTypeOK
      <4>. QED  BY <3>1, <4>2
    <3>3. NBottles \in Nat
      BY BarAssumption DEF BarAssumption
    <3>. QED  BY <2>1, <2>2, <3>1, <3>2, <3>3 DEF BottlesOf, Bottle
  <2>3. CASE bar_pc[b] \in {"serve", "take", "leave"}
    <3>1. 1..Noted(b) = {}
      BY <2>3 DEF Noted
    <3>. QED  BY <2>1, <2>3, <3>1 DEF BottlesOf
  <2>. QED  BY <2>2, <2>3
<1>4. ASSUME Closed
      PROVE  /\ \A t \in Customers \cup Bartenders : bar_pc[t] = "gone"
             /\ d = NC /\ \E z \in Customers : GoingHome(z) /\ Between(z)
  BY <1>1, <1>4, AllGone
<1>5. ClosesClean
  <2>. SUFFICES ASSUME Closed
       PROVE  /\ \A k \in Bottle : bottle_lock[k] = NoThread
              /\ full_sem = NC /\ empty_sem = 0 /\ order_hi = order_lo /\ drink_hi = drink_lo
              /\ \A i \in 0..NC-1 : drink_count[i] = 0
              /\ {drink_sem[i] : i \in 0..NC-1} = 0..NC-1
    BY DEF ClosesClean
  <2>1. PICK z \in Customers : GoingHome(z) /\ Between(z)
    BY <1>4
  <2>2. ASSUME NEW k \in Bottle PROVE bottle_lock[k] = NoThread
    <3>1. ASSUME NEW b \in Bartenders PROVE bottle_lock[k] # b
      <4>1. 1..Noted(b) = {} /\ BottlesOf(b)
        BY <1>4 DEF Noted, Work
      <4>. QED  BY <4>1 DEF BottlesOf
    <3>. QED  BY <3>1 DEF BarTypeOK
  <2>3. bar_pc[z] = "gone"
    BY <1>4
  <2>. QED  BY <2>1, <2>2, <2>3 DEF GoingHome, Between, Quiet, Unsignalled
<1>6. DosesAddUp
  <2>. SUFFICES ASSUME Closed, NEW k \in Bottle
       PROVE  doses[k] = Cardinality({x \in Customers \X Slots : order[x[1]].requested[x[2]] = k})
    BY DEF DosesAddUp
  <2>1. PICK z \in Customers : GoingHome(z) /\ Between(z)
    BY <1>4
  <2>2. ASSUME NEW c \in Customers, NEW i \in Slots PROVE Poured(c, i, d)
    <3>1. c \in Lent
      BY <1>4 DEF Lent
    <3>2. order[c].wait < d
      BY <1>4, SomeSlots DEF BarTypeOK, Order
    <3>3. Hands = {}
      BY <2>1 DEF Between, Quiet
    <3>. QED  BY <3>1, <3>2, <3>3 DEF Poured
  <2>3. {x \in Customers \X Slots : Poured(x[1], x[2], d) /\ order[x[1]].requested[x[2]] = k}
          = {x \in Customers \X Slots : order[x[1]].requested[x[2]] = k}
    BY <2>2
  <2>. QED  BY <1>1, <2>3 DEF Counts
<1>. QED  BY <1>2, <1>3, <1>5, <1>6

\* run_bar begins with the invariant.
LEMMA BarInitInvariant == BarInit => BarIInv
<1>. SUFFICES ASSUME BarInit PROVE BarIInv
  OBVIOUS
<1>. USE DEF BarInit
<1>0. NC \in Nat /\ NC > 0 /\ NBottles \in Nat
  BY SomeSlots, BarAssumption DEF BarAssumption
<1>1. BarTypeOK
  <2>1. PICK old \in 0..NBottles :
          order = [o \in Order |-> [requested |-> Empty, glass |-> Empty,
                                    hold |-> [i \in Slots |-> old], wait |-> 0]]
    OBVIOUS
  <2>2. Empty \in [Slots -> 0..NBottles] /\ [i \in Slots |-> old] \in [Slots -> 0..NBottles]
    BY <1>0 DEF Empty
  <2>3. order \in [Order -> [requested : [Slots -> 0..NBottles], glass : [Slots -> 0..NBottles],
                             hold : [Slots -> 0..NBottles], wait : 0..NC-1]]
    BY <1>0, <2>1, <2>2
  <2>4. job \in [Bartenders -> [order : Order, i : 0..DRINK_COMPLEXITY, j : 1..DRINK_COMPLEXITY+1,
                                bottle : 0..NBottles, read : Nat]]
    BY <1>0 DEF Order, DRINK_COMPLEXITY
  <2>. QED  BY <1>0, <2>3, <2>4, Roles DEF BarTypeOK, Order
<1>2. /\ \A c \in Customers : bar_pc[c] = "choose"
      /\ \A b \in Bartenders : bar_pc[b] = "take"
  BY Roles
<1>3. Places /\ Where({"gone"}) = {} /\ Hands = {} /\ Lent = {}
  BY <1>2, Roles DEF Places, CustomerPlaces, Where, Hands, Busy, Lent
<1>4. Gone
  BY <1>3, NobodyThere DEF Gone
<1>5. Work
  <2>1. ASSUME NEW b \in Bartenders PROVE BottlesOf(b) /\ GlassOf(b)
    <3>1. 1..Noted(b) = {} /\ 1..Taken(b) = {} /\ 1..Filled(b) = {}
      BY <1>2 DEF Noted, Taken, Filled
    <3>2. \A k \in Bottle : bottle_lock[k] # b
      BY Roles
    <3>. QED  BY <1>2, <3>1, <3>2 DEF BottlesOf, GlassOf
  <2>. QED  BY <1>3, <2>1 DEF Work, Tasks
<1>6. Counts(0)
  <2>1. \A c, i : ~Poured(c, i, 0)
    BY <1>3 DEF Poured
  <2>2. \A k \in Bottle : {x \in Customers \X Slots : Poured(x[1], x[2], 0) /\ order[x[1]].requested[x[2]] = k} = {}
    BY <2>1
  <2>. QED  BY <2>2, FS_EmptySet DEF Counts
<1>7. Drinking(0, 0, 0)
  <2>1. Where({"choose", "order", "enqueue"}) = Customers /\ Where(CustomerPlaces \ {"leave", "gone"}) = Customers
    BY <1>2 DEF Where, CustomerPlaces
  <2>2. Where({"announce"}) = {} /\ Where({"dequeue"}) = {} /\ Where({"enqueue"}) = {} /\ Where({"free"}) = {}
    BY <1>2 DEF Where
  <2>3. Cardinality({}) = 0
    BY FS_EmptySet
  <2>4. Rings(0, 0, 0)
    BY <1>0, <1>3, <2>1, <2>3 DEF Rings, Wrap, NC
  <2>5. Orders(0, 0)
    BY <1>0, <1>3 DEF Orders
  <2>6. Signals(0) /\ Returned(0, 0)
    BY <1>0, <1>3 DEF Signals, Returned, Served
  <2>7. Conserved(0, 0)
    <3>1. /\ Cardinality(Where({"announce"})) = 0 /\ Cardinality(Where({"dequeue"})) = 0
          /\ Cardinality(Where({"enqueue"})) = 0 /\ Cardinality(Where({"free"})) = 0
      BY <2>2, <2>3
    <3>2. full_sem = NC /\ empty_sem = 0
      OBVIOUS
    <3>. QED  BY <1>0, <3>1, <3>2 DEF Conserved
  <2>8. Thirsty
    BY <1>0, <2>1 DEF Thirsty, NC
  <2>. QED  BY <2>4, <2>5, <2>6, <2>7, <2>8 DEF Drinking
<1>8. Phase(0) /\ 0 \in 0..NC
  BY <1>0, <1>7 DEF Phase
<1>. QED  BY <1>1, <1>3, <1>4, <1>5, <1>6, <1>8 DEF BarIInv

-----------------------------------------------------------------------------
(* What one thread's step leaves alone *)

\* One thread moves and the others stay.
LEMMA Moves ==
  ASSUME BarTypeOK, NEW t \in Customers \cup Bartenders, NEW q, Proceed(t, q)
  PROVE  /\ bar_pc'[t] = q
         /\ \A u \in Customers \cup Bartenders : u # t => bar_pc'[u] = bar_pc[u]
BY DEF BarTypeOK, Proceed

\* Orders are in the hands of bartenders.
LEMMA HandsAre == Places => Hands = {b \in Bartenders : bar_pc[b] \in Busy}
BY DEF Places, Hands, Where, Busy, CustomerPlaces

\* What a bartender works on stays as it is if neither its order nor its locks change.
LEMMA WorkKept ==
  ASSUME BarTypeOK, NEW a \in Bartenders, BottlesOf(a), GlassOf(a),
         bar_pc'[a] = bar_pc[a], job'[a] = job[a],
         bar_pc[a] \in Busy =>
           /\ order'[job[a].order].hold = order[job[a].order].hold
           /\ order'[job[a].order].requested = order[job[a].order].requested
           /\ order'[job[a].order].glass = order[job[a].order].glass,
         \A k \in Bottle : bottle_lock'[k] = a <=> bottle_lock[k] = a,
         bar_pc[a] = "pour" => doses'[job[a].bottle] = doses[job[a].bottle]
  PROVE  BottlesOf(a)' /\ GlassOf(a)'
<1>1. Noted(a)' = Noted(a) /\ Taken(a)' = Taken(a) /\ Filled(a)' = Filled(a)
  BY DEF Noted, Taken, Filled
<1>2. /\ bar_pc[a] \notin Busy => 1..Noted(a) = {} /\ 1..Taken(a) = {} /\ 1..Filled(a) = {}
      /\ 1..Noted(a) \subseteq Slots \/ bar_pc[a] \in {"bottles", "return"}
      /\ bar_pc[a] \in {"bottles", "mix", "pour", "return"} => bar_pc[a] \in Busy
  BY DEF Noted, Taken, Filled, Busy, Slots, DRINK_COMPLEXITY
<1>3. 1..Taken(a) \subseteq Slots
  BY DEF BottlesOf, Taken, Slots, DRINK_COMPLEXITY
<1>4. ASSUME NEW x \in 1..Taken(a)
      PROVE  order[job[a].order].requested[x] # 0 => order[job[a].order].requested[x] \in Bottle
  <2>1. order[job[a].order].requested \in [Slots -> 0..NBottles]
    BY DEF BarTypeOK
  <2>2. order[job[a].order].requested[x] \in 0..NBottles
    BY <1>3, <2>1
  <2>. QED  BY <2>2, BarAssumption DEF Bottle, BarAssumption
<1>5. BottlesOf(a)'
  <2>1. CASE bar_pc[a] \in Busy
    <3>1. \A k \in Bottle : bottle_lock'[k] = a <=> \E x \in 1..Noted(a) : order[job[a].order].hold[x] = k
      BY DEF BottlesOf
    <3>2. \A x \in 1..Taken(a) :
             order[job[a].order].requested[x] # 0 => bottle_lock'[order[job[a].order].requested[x]] = a
      BY <1>4 DEF BottlesOf
    <3>. QED  BY <1>1, <2>1, <3>1, <3>2 DEF BottlesOf
  <2>2. CASE bar_pc[a] \notin Busy
    BY <1>1, <1>2, <2>2 DEF BottlesOf
  <2>. QED  BY <2>1, <2>2
<1>6. GlassOf(a)'
  BY <1>1, <1>2 DEF GlassOf, Busy
<1>. QED  BY <1>5, <1>6

\* A customer's step leaves the bartenders' work alone if it does not touch the orders
\* in their hands.
LEMMA CustomerWork ==
  ASSUME BarTypeOK, Places, Work,
         NEW c \in Customers, NEW q \in CustomerPlaces, Proceed(c, q),
         job' = job, bottle_lock' = bottle_lock, doses' = doses,
         \A b \in Hands : /\ order'[job[b].order].hold = order[job[b].order].hold
                          /\ order'[job[b].order].requested = order[job[b].order].requested
                          /\ order'[job[b].order].glass = order[job[b].order].glass
  PROVE  Places' /\ Hands' = Hands /\ Work' /\ \A b \in Bartenders : bar_pc'[b] = bar_pc[b]
<1>1. /\ bar_pc'[c] = q
      /\ \A u \in Customers : u # c => bar_pc'[u] = bar_pc[u]
      /\ \A b \in Bartenders : bar_pc'[b] = bar_pc[b]
  BY Moves, Roles
<1>2. Places'
  BY <1>1 DEF Places
<1>3. Hands' = Hands /\ Hands = {b \in Bartenders : bar_pc[b] \in Busy}
  <2>1. Hands' = {b \in Bartenders : bar_pc'[b] \in Busy}
    BY <1>2 DEF Places, Hands, Where, Busy, CustomerPlaces
  <2>. QED  BY <1>1, <2>1, HandsAre
<1>4. Tasks'
  BY <1>1, <1>3 DEF Work, Tasks
<1>5. ASSUME NEW b \in Bartenders PROVE BottlesOf(b)' /\ GlassOf(b)'
  BY <1>1, <1>3, WorkKept DEF Work
<1>. QED  BY <1>1, <1>2, <1>3, <1>4, <1>5 DEF Work

\* A bartender's step leaves the others' work alone if it does not touch their orders,
\* takes and leaves only bottles that are free or its own, and ...
LEMMA BartenderWork ==
  ASSUME BarTypeOK, Places, Work,
         NEW b \in Bartenders, NEW q \in Busy \cup {"take", "dequeue", "leave", "gone"}, Proceed(b, q),
         \A a \in Bartenders : a # b => job'[a] = job[a],
         \A a \in Hands : a # b =>
            /\ order'[job[a].order].hold = order[job[a].order].hold
            /\ order'[job[a].order].requested = order[job[a].order].requested
            /\ order'[job[a].order].glass = order[job[a].order].glass,
         \A a \in Bartenders : a # b => \A k \in Bottle : bottle_lock'[k] = a <=> bottle_lock[k] = a,
         \A a \in Bartenders : a # b /\ bar_pc[a] = "pour" => doses'[job[a].bottle] = doses[job[a].bottle],
         BottlesOf(b)', GlassOf(b)',
         q \in Busy => \/ bar_pc[b] \in Busy /\ job'[b].order = job[b].order
                       \/ \A a \in Hands : job[a].order # job'[b].order,
         q \in Busy /\ job'[b].order = GoHome => q \in {"free", "serve"}
  PROVE  /\ Places' /\ Work'
         /\ Hands' = IF q \in Busy THEN Hands \cup {b} ELSE Hands \ {b}
         /\ \A c \in Customers : bar_pc'[c] = bar_pc[c]
<1>1. /\ bar_pc'[b] = q
      /\ \A a \in Bartenders : a # b => bar_pc'[a] = bar_pc[a]
      /\ \A c \in Customers : bar_pc'[c] = bar_pc[c]
  BY Moves, Roles
<1>2. Places'
  BY <1>1 DEF Places
<1>3. Hands = {a \in Bartenders : bar_pc[a] \in Busy} /\ Hands' = {a \in Bartenders : bar_pc'[a] \in Busy}
  BY <1>2, HandsAre DEF Places, Hands, Where, Busy, CustomerPlaces
<1>4. Hands' = IF q \in Busy THEN Hands \cup {b} ELSE Hands \ {b}
  BY <1>1, <1>3
<1>5. Tasks'
  <2>. SUFFICES ASSUME NEW x \in Hands'
       PROVE /\ \A y \in Hands' : job'[y].order = job'[x].order => y = x
             /\ job'[x].order = GoHome => bar_pc'[x] \in {"free", "serve"}
    BY DEF Tasks
  <2>1. \A y \in Hands' : y # b => y \in Hands /\ job'[y] = job[y] /\ bar_pc'[y] = bar_pc[y]
    BY <1>1, <1>3
  <2>2. b \in Hands' => q \in Busy
    BY <1>1, <1>3
  <2>3. b \in Hands' => \A y \in Hands' : y # b => job'[y].order # job'[b].order
    <3>. SUFFICES ASSUME b \in Hands', NEW y \in Hands', y # b PROVE job[y].order # job'[b].order
      BY <2>1
    <3>1. CASE bar_pc[b] \in Busy /\ job'[b].order = job[b].order
      <4>1. b \in Hands /\ y \in Hands
        BY <1>3, <2>1, <3>1
      <4>. QED  BY <3>1, <4>1 DEF Work, Tasks
    <3>2. CASE \A a \in Hands : job[a].order # job'[b].order
      BY <2>1, <3>2
    <3>. QED  BY <2>2, <3>1, <3>2
  <2>4. \A y \in Hands' : job'[y].order = job'[x].order => y = x
    <3>. SUFFICES ASSUME NEW y \in Hands', job'[y].order = job'[x].order PROVE y = x
      OBVIOUS
    <3>1. CASE x = b \/ y = b
      BY <2>3, <3>1
    <3>2. CASE x # b /\ y # b
      BY <2>1, <3>2 DEF Work, Tasks
    <3>. QED  BY <3>1, <3>2
  <2>5. job'[x].order = GoHome => bar_pc'[x] \in {"free", "serve"}
    BY <1>1, <2>1, <2>2 DEF Work, Tasks
  <2>. QED  BY <2>4, <2>5
<1>6. ASSUME NEW a \in Bartenders PROVE BottlesOf(a)' /\ GlassOf(a)'
  <2>1. CASE a # b
    BY <1>1, <1>3, <2>1, WorkKept DEF Work
  <2>. QED  BY <2>1
<1>. QED  BY <1>1, <1>2, <1>4, <1>5, <1>6 DEF Work

-----------------------------------------------------------------------------
(* Counting what was poured *)

\* The counts are right for as long as no slot becomes poured or is refilled.
LEMMA CountsSame ==
  ASSUME NEW d, NEW g, Counts(d), doses' = doses,
         \A c \in Customers, i \in Slots, k \in Bottle :
           (Poured(c, i, g)' /\ order'[c].requested[i] = k) <=> (Poured(c, i, d) /\ order[c].requested[i] = k)
  PROVE  Counts(g)'
<1>. SUFFICES ASSUME NEW k \in Bottle
     PROVE  doses'[k] = Cardinality({x \in Customers \X Slots : Poured(x[1], x[2], g) /\ order[x[1]].requested[x[2]] = k})'
  BY DEF Counts
<1>1. ASSUME NEW x \in Customers \X Slots
      PROVE  (Poured(x[1], x[2], g)' /\ order'[x[1]].requested[x[2]] = k)
               <=> (Poured(x[1], x[2], d) /\ order[x[1]].requested[x[2]] = k)
  OBVIOUS
<1>2. {x \in Customers \X Slots : Poured(x[1], x[2], g) /\ order[x[1]].requested[x[2]] = k}'
        = {x \in Customers \X Slots : Poured(x[1], x[2], d) /\ order[x[1]].requested[x[2]] = k}
  BY <1>1
<1>. QED  BY <1>2 DEF Counts

\* One slot more is poured, and counted.
LEMMA CountsUp ==
  ASSUME NEW d, Counts(d), NEW o \in Customers, NEW j \in Slots, NEW m \in Bottle,
         \A k \in Bottle : doses'[k] = IF k = m THEN doses[k] + 1 ELSE doses[k],
         ~Poured(o, j, d), Poured(o, j, d)', order'[o].requested[j] = m,
         \A c \in Customers, i \in Slots, k \in Bottle : ~(c = o /\ i = j) =>
           ((Poured(c, i, d)' /\ order'[c].requested[i] = k) <=> (Poured(c, i, d) /\ order[c].requested[i] = k))
  PROVE  Counts(d)'
<1>. SUFFICES ASSUME NEW k \in Bottle
     PROVE  doses'[k] = Cardinality({x \in Customers \X Slots : Poured(x[1], x[2], d) /\ order[x[1]].requested[x[2]] = k})'
  BY DEF Counts
<1>. DEFINE A == {x \in Customers \X Slots : Poured(x[1], x[2], d) /\ order[x[1]].requested[x[2]] = k}
<1>1. ASSUME NEW x \in Customers \X Slots, x # <<o, j>>
      PROVE  (Poured(x[1], x[2], d)' /\ order'[x[1]].requested[x[2]] = k)
               <=> (Poured(x[1], x[2], d) /\ order[x[1]].requested[x[2]] = k)
  <2>1. ~(x[1] = o /\ x[2] = j)
    BY <1>1
  <2>. QED  BY <2>1
<1>2. /\ <<o, j>> \in Customers \X Slots /\ <<o, j>> \notin A
      /\ \A x \in A' : x = <<o, j>> => k = m
      /\ k = m => <<o, j>> \in A'
  OBVIOUS
<1>3. A' = IF k = m THEN A \cup {<<o, j>>} ELSE A
  BY <1>1, <1>2
<1>4. IsFiniteSet(A)
  <2>1. IsFiniteSet(Customers) /\ IsFiniteSet(Slots)
    <3>1. 1 \in Int /\ 3 \in Int
      OBVIOUS
    <3>2. IsFiniteSet(1..3)
      BY <3>1, FS_Interval, Zenon
    <3>. QED  BY <3>2, BarAssumption DEF BarAssumption, Slots, DRINK_COMPLEXITY
  <2>2. IsFiniteSet(Customers \X Slots)
    BY <2>1, FS_Product
  <2>. QED  BY <2>2, FS_Subset
<1>5. doses[k] = Cardinality(A)
  BY DEF Counts
<1>. DEFINE Z == {x \in Customers \X Slots : Poured(x[1], x[2], d)' /\ order'[x[1]].requested[x[2]] = k}
<1>8. Cardinality(A)' = Cardinality(Z) /\ Z = A'
  OBVIOUS
<1>6. CASE k = m
  <2>1. Z = A \cup {<<o, j>>}
    BY <1>3, <1>6, <1>8
  <2>2. <<o, j>> \notin A
    BY <1>2
  <2>. HIDE DEF A, Z
  <2>3. Cardinality(Z) = Cardinality(A) + 1
    BY <1>4, <2>1, <2>2, FS_AddElement
  <2>. QED  BY <1>5, <1>6, <1>8, <2>3 DEF A
<1>7. CASE k # m
  <2>1. Z = A
    BY <1>3, <1>7, <1>8
  <2>2. Cardinality(Z) = Cardinality(A)
    BY <2>1
  <2>. HIDE DEF A, Z
  <2>. QED  BY <1>5, <1>7, <1>8, <2>2 DEF A
<1>. QED  BY <1>6, <1>7

-----------------------------------------------------------------------------
(* Steps that leave the rings alone while drinks are ordered *)

\* A customer who has not gone home is at the bar while drinks are ordered.
LEMMA StillDrinking ==
  ASSUME NEW c \in Customers, bar_pc[c] \in {"choose", "drink", "home"}, NEW d, Phase(d)
  PROVE  \E e, s \in 0..NC : Drinking(e, d, s)
BY DEF Phase, GoingHome, Between, Put, Announced, InHand, Signalled

\* When bartenders are sent home, it is the last customer who orders.
LEMMA LastOne ==
  ASSUME NEW z \in Customers, GoingHome(z),
         NEW c \in Customers, bar_pc[c] \in {"order", "enqueue", "announce", "wait"}
  PROVE  c = z
BY DEF GoingHome

\* An order is served or not as before if orders lent and in hands are the same.
LEMMA ServedSame ==
  ASSUME Lent' = Lent, Hands' = Hands, \A b \in Hands : job'[b].order = job[b].order,
         NEW d, NEW c, order'[c].wait = order[c].wait
  PROVE  Served(c, d)' <=> Served(c, d)
BY DEF Served

\* Signals stay if no customer begins or ends waiting.
LEMMA SignalsStay ==
  ASSUME Lent' = Lent, Hands' = Hands, \A b \in Hands : job'[b].order = job[b].order,
         drink_count' = drink_count, \A o \in Order : order'[o].wait = order[o].wait,
         NEW d, Signals(d),
         \A c \in Lent :
           /\ bar_pc'[c] \in {"announce", "wait"} <=> bar_pc[c] \in {"announce", "wait"}
           /\ Served(c, d) /\ bar_pc'[c] \in {"announce", "wait", "drink"} =>
                /\ bar_pc[c] \in {"announce", "wait", "drink"}
                /\ order'[c].glass = order[c].glass /\ order'[c].requested = order[c].requested
  PROVE  Signals(d)'
<1>. SUFFICES ASSUME NEW c \in Lent
     PROVE  /\ drink_count'[order'[c].wait] = IF Served(c, d)' /\ Waits(c)' THEN 1 ELSE 0
            /\ ~Served(c, d)' => Waits(c)'
            /\ Served(c, d)' /\ bar_pc'[c] \in {"announce", "wait", "drink"} =>
                 order'[c].glass = order'[c].requested
  BY DEF Signals
<1>1. order'[c].wait = order[c].wait
  BY DEF Lent, Order
<1>2. Served(c, d)' <=> Served(c, d)
  BY <1>1, ServedSame
<1>3. Waits(c)' <=> Waits(c)
  BY DEF Waits
<1>4. /\ drink_count[order[c].wait] = IF Served(c, d) /\ Waits(c) THEN 1 ELSE 0
      /\ ~Served(c, d) => Waits(c)
      /\ Served(c, d) /\ bar_pc[c] \in {"announce", "wait", "drink"} => order[c].glass = order[c].requested
  BY DEF Signals
<1>5. Served(c, d) \in BOOLEAN /\ Waits(c) \in BOOLEAN /\ Served(c, d)' \in BOOLEAN /\ Waits(c)' \in BOOLEAN
  BY DEF Served, Waits
<1>. QED  BY <1>1, <1>2, <1>3, <1>4, <1>5

\* The rings, the orders and the pool stay if only signals, counts and places change.
LEMMA DrinkingStays ==
  ASSUME NEW e, NEW d, NEW s, Drinking(e, d, s),
         UNCHANGED <<order_queue, order_hi, order_lo, drink_sem, drink_hi, drink_lo, asks>>,
         Lent' = Lent, Hands' = Hands, \A b \in Hands : job'[b].order = job[b].order,
         \A o \in Order : order'[o].wait = order[o].wait,
         Cardinality(Where({"choose", "order", "enqueue"}))' = Cardinality(Where({"choose", "order", "enqueue"})),
         \A i \in e..NC-1 : drink_count'[i] = drink_count[i],
         Signals(d)', Conserved(e, d)', Thirsty'
  PROVE  Drinking(e, d, s)'
<1>. USE DEF Drinking
<1>1. Cardinality(Hands)' = Cardinality(Hands)
  OBVIOUS
<1>2. Rings(e, d, s)'
  BY <1>1 DEF Rings
<1>3. Lent \subseteq Order
  BY DEF Lent, Order
<1>4. Orders(e, d)'
  <2>1. /\ \A c \in Lent : order'[c].wait \in 0..e-1 /\ order_queue'[order'[c].wait] = c
        /\ \A i \in 0..e-1 : order_queue'[i] \in Lent /\ order'[order_queue[i]].wait = i
    BY <1>3 DEF Orders
  <2>2. /\ \A c \in Customers : asks'[c] = c
        /\ \A i \in e..NC-1 : drink_sem'[i] = i /\ drink_count'[i] = 0
    BY DEF Orders
  <2>3. \A b \in Hands : job'[b].order \in Lent /\ order'[job'[b].order].wait < d
    BY <1>3 DEF Orders
  <2>. QED  BY <2>1, <2>2, <2>3 DEF Orders
<1>5. Returned(d, s)'
  <2>1. \A c \in Customers : order'[c].wait = order[c].wait
    BY DEF Order
  <2>2. {x \in Customers : Served(x, d)}' = {x \in Customers : Served(x, d)}
    BY <2>1, ServedSame
  <2>3. {order[c].wait : c \in {x \in Customers : Served(x, d)}}' = {order[c].wait : c \in {x \in Customers : Served(x, d)}}
    BY <2>1, <2>2
  <2>. QED  BY <2>3 DEF Returned
<1>. QED  BY <1>2, <1>4, <1>5

-----------------------------------------------------------------------------
(* Customers *)

\* Who moves from gone to gone is nobody: the others leave alldone as it is.
LEMMA GoneStays ==
  ASSUME BarTypeOK, Gone, NEW t \in Customers \cup Bartenders, NEW q, Proceed(t, q),
         bar_pc[t] # "gone", q # "gone", alldone' = alldone
  PROVE  Gone'
<1>1. Where({"gone"})' = Where({"gone"})
  BY Moves DEF Where
<1>. QED  BY <1>1 DEF Gone

\* A step between two places of a set, or two others, leaves its threads the same.
LEMMA CountKept ==
  ASSUME BarTypeOK, NEW t \in Customers \cup Bartenders, NEW q, Proceed(t, q),
         NEW places, bar_pc[t] \in places <=> q \in places
  PROVE  /\ Where(places)' = Where(places)
         /\ Cardinality(Where(places))' = Cardinality(Where(places))
<1>1. Where(places)' = Where(places)
  BY Moves DEF Where
<1>. QED  BY <1>1

\* Orders keep their type when one field of one of them is assigned.
Contents == [Slots -> 0..NBottles]
OrderInfo == [requested : Contents, glass : Contents, hold : Contents, wait : 0..NC-1]

LEMMA OrderTyped ==
  ASSUME BarTypeOK, NEW o \in Order
  PROVE  /\ order \in [Order -> OrderInfo] /\ order[o] \in OrderInfo
         /\ \A x \in Contents : /\ [order EXCEPT ![o].requested = x] \in [Order -> OrderInfo]
                                /\ [order EXCEPT ![o].glass = x] \in [Order -> OrderInfo]
                                /\ [order EXCEPT ![o].hold = x] \in [Order -> OrderInfo]
         /\ \A x \in 0..NC-1 : [order EXCEPT ![o].wait = x] \in [Order -> OrderInfo]
<1>1. order \in [Order -> OrderInfo]
  BY DEF BarTypeOK, OrderInfo, Contents
<1>2. order[o] \in OrderInfo
  BY <1>1
<1>3. /\ \A x \in Contents : /\ [order[o] EXCEPT !.requested = x] \in OrderInfo
                              /\ [order[o] EXCEPT !.glass = x] \in OrderInfo
                              /\ [order[o] EXCEPT !.hold = x] \in OrderInfo
      /\ \A x \in 0..NC-1 : [order[o] EXCEPT !.wait = x] \in OrderInfo
  BY <1>2 DEF OrderInfo
<1>4. \A r \in OrderInfo : [order EXCEPT ![o] = r] \in [Order -> OrderInfo]
  BY <1>1
<1>. QED  BY <1>1, <1>2, <1>3, <1>4

\* A customer's step pours nothing.
LEMMA CustomerPours ==
  ASSUME Places, Hands' = Hands, job' = job, \A b \in Bartenders : bar_pc'[b] = bar_pc[b],
         NEW c, NEW i, NEW d, c \in Lent' <=> c \in Lent, order'[c].wait = order[c].wait
  PROVE  Poured(c, i, d)' <=> Poured(c, i, d)
<1>1. \A b \in Hands : Past(b, i)' <=> Past(b, i)
  BY HandsAre DEF Past
<1>. QED  BY <1>1 DEF Poured

\* customer: clear the previous request and choose a drink.
LEMMA ChooseStep == ASSUME BarIInv, NEW c \in Customers, Choose(c) PROVE BarIInv'
<1>. USE DEF BarIInv
<1>1. PICK d \in 0..NC : Phase(d) /\ Counts(d)
  OBVIOUS
<1>2. PICK e \in 0..NC, s \in 0..NC : Drinking(e, d, s)
  BY <1>1, StillDrinking DEF Choose
<1>3. PICK w \in Drinks : order' = [order EXCEPT ![c].requested = w]
  BY DEF Choose
<1>4. /\ bar_pc[c] = "choose" /\ Proceed(c, "order")
      /\ UNCHANGED <<queueVars, poolVars, slotSems, drink_count, bottle_lock, homeVars, doses, custVars, job>>
  BY DEF Choose
<1>. USE DEF queueVars, poolVars, slotSems, homeVars, custVars
<1>5. asks[c] = c /\ c \notin Lent /\ \A b \in Hands : job[b].order \in Lent
  BY <1>2, <1>4, Roles DEF Drinking, Orders, Lent
<1>6. /\ \A o \in Order : o # c => order'[o] = order[o]
      /\ order'[c] = [order[c] EXCEPT !.requested = w]
      /\ \A o \in Order : order'[o].wait = order[o].wait
  BY <1>3 DEF BarTypeOK, Order
<1>7. BarTypeOK'
  <2>1. w \in [Slots -> 0..NBottles]
    BY BarAssumption DEF BarAssumption
  <2>2. order' \in [Order -> OrderInfo]
    BY <1>3, <2>1, OrderTyped DEF Order, Contents
  <2>. QED  BY <1>4, <2>2 DEF BarTypeOK, Proceed, OrderInfo, Contents
<1>8. Places' /\ Hands' = Hands /\ Work' /\ \A b \in Bartenders : bar_pc'[b] = bar_pc[b]
  <2>1. \A b \in Hands : job[b].order # c /\ job[b].order \in Order
    BY <1>5 DEF Lent, Order
  <2>. QED  BY <1>4, <1>6, <2>1, CustomerWork DEF CustomerPlaces
<1>9. Gone'
  BY <1>4, GoneStays
<1>10. bar_pc'[c] = "order" /\ \A x \in Customers : x # c => bar_pc'[x] = bar_pc[x]
  BY <1>4, Moves
<1>11. Lent' = Lent
  BY <1>4, <1>10 DEF Lent
<1>12. Drinking(e, d, s)'
  <2>1. Conserved(e, d)'
    BY <1>2, <1>4, CountKept DEF Conserved, Drinking
  <2>2. Thirsty'
    BY <1>2, <1>4, CountKept DEF Thirsty, Drinking, CustomerPlaces
  <2>3. Signals(d)'
    BY <1>2, <1>4, <1>5, <1>6, <1>8, <1>10, <1>11, SignalsStay DEF Drinking, Lent, Order
  <2>4. Cardinality(Where({"choose", "order", "enqueue"}))' = Cardinality(Where({"choose", "order", "enqueue"}))
    BY <1>4, CountKept
  <2>. QED  BY <1>2, <1>4, <1>6, <1>8, <1>11, <2>1, <2>2, <2>3, <2>4, DrinkingStays
<1>13. Counts(d)'
  <2>1. ASSUME NEW x \in Customers, NEW i \in Slots, NEW k \in Bottle
        PROVE  (Poured(x, i, d)' /\ order'[x].requested[i] = k) <=> (Poured(x, i, d) /\ order[x].requested[i] = k)
    <3>1. Poured(x, i, d)' <=> Poured(x, i, d)
      BY <1>4, <1>6, <1>8, <1>11, CustomerPours DEF Order
    <3>2. x = c => ~Poured(x, i, d)
      BY <1>5 DEF Poured
    <3>. QED  BY <1>6, <3>1, <3>2 DEF Order
  <2>. QED  BY <1>1, <1>4, <2>1, CountsSame
<1>. QED  BY <1>7, <1>8, <1>9, <1>12, <1>13 DEF Phase

\* The counts of the two semaphores are natural numbers, none above the ring's size.
LEMMA SmallCounts ==
  ASSUME BarTypeOK
  PROVE  full_sem \in Nat /\ empty_sem \in Nat /\ full_sem <= NC /\ empty_sem <= NC
BY SomeSlots DEF BarTypeOK

\* A step into a place counts one more there, ...
LEMMA CountIn ==
  ASSUME BarTypeOK, NEW t \in Customers \cup Bartenders, NEW q, Proceed(t, q),
         NEW places, bar_pc[t] \notin places, q \in places
  PROVE  /\ Cardinality(Where(places)) \in Nat /\ Cardinality(Where(places))' \in Nat
         /\ Cardinality(Where(places))' = Cardinality(Where(places)) + 1
<1>1. Bit(bar_pc[t] \in places) = 0 /\ Bit(q \in places) = 1
  BY DEF Bit
<1>2. Cardinality(Where(places)) \in Nat
  BY Countable
<1>3. /\ Cardinality(Where(places))' \in Nat
      /\ Cardinality(Where(places))' = Cardinality(Where(places)) - Bit(bar_pc[t] \in places) + Bit(q \in places)
  BY StepCounts
<1>. QED  BY <1>1, <1>2, <1>3

\* ... and a step out of it one less.
LEMMA CountOut ==
  ASSUME BarTypeOK, NEW t \in Customers \cup Bartenders, NEW q, Proceed(t, q),
         NEW places, bar_pc[t] \in places, q \notin places
  PROVE  /\ Cardinality(Where(places)) \in Nat /\ Cardinality(Where(places))' \in Nat
         /\ Cardinality(Where(places))' = Cardinality(Where(places)) - 1
<1>1. Bit(bar_pc[t] \in places) = 1 /\ Bit(q \in places) = 0
  BY DEF Bit
<1>2. Cardinality(Where(places)) \in Nat
  BY Countable
<1>3. /\ Cardinality(Where(places))' \in Nat
      /\ Cardinality(Where(places))' = Cardinality(Where(places)) - Bit(bar_pc[t] \in places) + Bit(q \in places)
  BY StepCounts
<1>. QED  BY <1>1, <1>2, <1>3

\* A customer's step that touches no order leaves bartenders and counts alone.
LEMMA CustomerFrame ==
  ASSUME BarTypeOK, Places, Work, NEW c \in Customers, NEW q \in CustomerPlaces, Proceed(c, q),
         UNCHANGED <<order, job, bottle_lock, doses>>, Lent' = Lent
  PROVE  /\ Places' /\ Hands' = Hands /\ Work'
         /\ bar_pc'[c] = q /\ \A x \in Customers : x # c => bar_pc'[x] = bar_pc[x]
         /\ \A b \in Bartenders : bar_pc'[b] = bar_pc[b]
         /\ \A d : Counts(d) => Counts(d)'
<1>1. Places' /\ Hands' = Hands /\ Work' /\ \A b \in Bartenders : bar_pc'[b] = bar_pc[b]
  BY CustomerWork
<1>2. bar_pc'[c] = q /\ \A x \in Customers : x # c => bar_pc'[x] = bar_pc[x]
  BY Moves
<1>3. ASSUME NEW d, Counts(d) PROVE Counts(d)'
  <2>1. \A x \in Customers, i \in Slots : Poured(x, i, d)' <=> Poured(x, i, d)
    BY <1>1, CustomerPours
  <2>2. \A x \in Customers, i \in Slots, k \in Bottle :
           (Poured(x, i, d)' /\ order'[x].requested[i] = k) <=> (Poured(x, i, d) /\ order[x].requested[i] = k)
    BY <2>1
  <2>. QED  BY <1>3, <2>2, CountsSame
<1>. QED  BY <1>1, <1>2, <1>3

\* order_drink: P(full_sem).
LEMMA OrderPStep == ASSUME BarIInv, NEW c \in Customers, OrderP(c) PROVE BarIInv'
<1>. USE DEF BarIInv
<1>1. PICK d \in 0..NC : Phase(d) /\ Counts(d)
  OBVIOUS
<1>2. /\ bar_pc[c] = "order" /\ full_sem > 0 /\ Proceed(c, "enqueue") /\ full_sem' = full_sem - 1
      /\ UNCHANGED <<queueVars, poolVars, empty_sem, drink_count, bottle_lock, order, homeVars, doses, custVars, job>>
  BY DEF OrderP
<1>. USE DEF queueVars, poolVars, slotSems, homeVars, custVars
<1>3. Lent' = Lent
  BY <1>2, Moves DEF Lent
<1>4. /\ Places' /\ Hands' = Hands /\ Work' /\ Counts(d)'
      /\ bar_pc'[c] = "enqueue" /\ \A x \in Customers : x # c => bar_pc'[x] = bar_pc[x]
  BY <1>1, <1>2, <1>3, CustomerFrame DEF CustomerPlaces
<1>5. Gone'
  BY <1>2, GoneStays
<1>6. BarTypeOK'
  <2>1. full_sem' \in 0..NC
    BY <1>2, SomeSlots, SmallCounts
  <2>. QED  BY <1>2, <2>1 DEF BarTypeOK, Proceed
<1>7. ASSUME NEW e \in 0..NC, NEW s \in 0..NC, Drinking(e, d, s) PROVE Drinking(e, d, s)'
  <2>1. Conserved(e, d)'
    <3>1. Conserved(e, d)
      BY <1>7 DEF Drinking
    <3>2. /\ Cardinality(Where({"announce"}))' = Cardinality(Where({"announce"}))
          /\ Cardinality(Where({"dequeue"}))' = Cardinality(Where({"dequeue"}))
          /\ Cardinality(Where({"free"}))' = Cardinality(Where({"free"}))
      BY <1>2, CountKept
    <3>3. /\ Cardinality(Where({"enqueue"})) \in Nat
          /\ Cardinality(Where({"enqueue"}))' = Cardinality(Where({"enqueue"})) + 1
      BY <1>2, CountIn
    <3>4. Cardinality(Where({"free"})) \in Nat /\ full_sem \in Nat /\ NC \in Nat
      BY Countable, SomeSlots, SmallCounts
    <3>. QED  BY <1>2, <3>1, <3>2, <3>3, <3>4 DEF Conserved
  <2>2. Thirsty'
    BY <1>2, <1>7, CountKept DEF Thirsty, Drinking, CustomerPlaces
  <2>3. Signals(d)'
    BY <1>2, <1>3, <1>4, <1>7, SignalsStay DEF Drinking, Lent
  <2>4. Cardinality(Where({"choose", "order", "enqueue"}))' = Cardinality(Where({"choose", "order", "enqueue"}))
    BY <1>2, CountKept
  <2>. QED  BY <1>2, <1>3, <1>4, <1>7, <2>1, <2>2, <2>3, <2>4, DrinkingStays
<1>8. ASSUME NEW z \in Customers, GoingHome(z) PROVE GoingHome(z)'
  <2>1. c = z
    BY <1>2, <1>8, LastOne
  <2>2. Between(z)
    BY <1>2, <1>8, <2>1 DEF GoingHome, Put, Announced, InHand, Signalled
  <2>3. Where({"dequeue"})' = Where({"dequeue"})
    BY <1>2, CountKept
  <2>4. Between(z)'
    BY <1>2, <1>4, <2>1, <2>2, <2>3, SomeSlots DEF Between, Quiet, Unsignalled
  <2>. QED  BY <1>2, <1>4, <1>8, <2>1, <2>4 DEF GoingHome
<1>9. Phase(d)'
  BY <1>1, <1>7, <1>8 DEF Phase
<1>. QED  BY <1>1, <1>4, <1>5, <1>6, <1>9

\* order_drink: V(empty_sem).
LEMMA AnnounceStep == ASSUME BarIInv, NEW c \in Customers, Announce(c) PROVE BarIInv'
<1>. USE DEF BarIInv
<1>1. PICK d \in 0..NC : Phase(d) /\ Counts(d)
  OBVIOUS
<1>2. /\ bar_pc[c] = "announce" /\ Proceed(c, "wait") /\ empty_sem' = empty_sem + 1
      /\ UNCHANGED <<queueVars, poolVars, full_sem, drink_count, bottle_lock, order, homeVars, doses, custVars, job>>
  BY DEF Announce
<1>. USE DEF queueVars, poolVars, slotSems, homeVars, custVars
<1>3. Lent' = Lent
  BY <1>2, Moves DEF Lent
<1>4. /\ Places' /\ Hands' = Hands /\ Work' /\ Counts(d)'
      /\ bar_pc'[c] = "wait" /\ \A x \in Customers : x # c => bar_pc'[x] = bar_pc[x]
  BY <1>1, <1>2, <1>3, CustomerFrame DEF CustomerPlaces
<1>5. Gone'
  BY <1>2, GoneStays
<1>6. ASSUME NEW e \in 0..NC, NEW s \in 0..NC, Drinking(e, d, s)
      PROVE  Drinking(e, d, s)' /\ empty_sem' \in 0..NC
  <2>1. Conserved(e, d)' /\ empty_sem' \in 0..NC
    <3>1. Conserved(e, d)
      BY <1>6 DEF Drinking
    <3>2. /\ Cardinality(Where({"enqueue"}))' = Cardinality(Where({"enqueue"}))
          /\ Cardinality(Where({"dequeue"}))' = Cardinality(Where({"dequeue"}))
          /\ Cardinality(Where({"free"}))' = Cardinality(Where({"free"}))
      BY <1>2, CountKept
    <3>3. /\ Cardinality(Where({"announce"})) \in Nat /\ Cardinality(Where({"announce"}))' \in Nat
          /\ Cardinality(Where({"announce"}))' = Cardinality(Where({"announce"})) - 1
      BY <1>2, CountOut
    <3>4. Cardinality(Where({"dequeue"})) \in Nat /\ empty_sem \in Nat /\ NC \in Nat
      BY Countable, SomeSlots, SmallCounts
    <3>. QED  BY <1>2, <3>1, <3>2, <3>3, <3>4 DEF Conserved
  <2>2. Thirsty'
    BY <1>2, <1>6, CountKept DEF Thirsty, Drinking, CustomerPlaces
  <2>3. Signals(d)'
    BY <1>2, <1>3, <1>4, <1>6, SignalsStay DEF Drinking, Lent
  <2>4. Cardinality(Where({"choose", "order", "enqueue"}))' = Cardinality(Where({"choose", "order", "enqueue"}))
    BY <1>2, CountKept
  <2>. QED  BY <1>2, <1>3, <1>4, <1>6, <2>1, <2>2, <2>3, <2>4, DrinkingStays
<1>7. ASSUME NEW z \in Customers, GoingHome(z) PROVE GoingHome(z)' /\ empty_sem' \in 0..NC
  <2>1. c = z
    BY <1>2, <1>7, LastOne
  <2>2. Put(z)
    BY <1>2, <1>7, <2>1 DEF GoingHome, Between, Announced, InHand, Signalled
  <2>3. Where({"dequeue"})' = {} /\ empty_sem' = 1
    BY <1>2, <2>2, CountKept DEF Put, Quiet
  <2>4. Cardinality(Where({"dequeue"}))' = 0
    BY <2>3, FS_EmptySet
  <2>5. Announced(z)'
    BY <1>2, <1>4, <2>1, <2>2, <2>3, <2>4 DEF Put, Announced, Pending, Queued, Unsignalled
  <2>. QED  BY <1>2, <1>4, <1>7, <2>1, <2>3, <2>5, SomeSlots DEF GoingHome
<1>8. Phase(d)' /\ empty_sem' \in 0..NC
  BY <1>1, <1>6, <1>7 DEF Phase
<1>9. BarTypeOK'
  BY <1>2, <1>8 DEF BarTypeOK, Proceed
<1>. QED  BY <1>1, <1>4, <1>5, <1>8, <1>9

\* While drinks are ordered, the order queued is the next one: it has the next slot of
\* the ring and the next semaphore.
LEMMA EnqueueDrinking ==
  ASSUME BarTypeOK, Places, NEW e \in 0..NC, NEW d \in 0..NC, NEW s \in 0..NC, Drinking(e, d, s),
         NEW c \in Customers, Enqueue(c), Hands' = Hands
  PROVE  e + 1 \in 0..NC /\ Drinking(e + 1, d, s)'
<1>. USE DEF Drinking, queueVars, poolVars, slotSems, homeVars, custVars
<1>0. /\ bar_pc[c] = "enqueue" /\ Proceed(c, "announce")
      /\ UNCHANGED <<order_lo, drink_sem, drink_hi, slotSems, drink_count, bottle_lock, homeVars, doses, custVars, job>>
  BY DEF Enqueue
<1>1. NC \in Nat /\ e \in Nat /\ d \in Nat /\ s \in Nat
  BY SomeSlots
<1>2. e + 1 \in 0..NC /\ e \in 0..NC-1 /\ e + 1 + Cardinality(Where({"choose", "order", "enqueue"}))' = NC
  <2>1. /\ Cardinality(Where({"choose", "order", "enqueue"})) \in Nat
        /\ Cardinality(Where({"choose", "order", "enqueue"}))' \in Nat
        /\ Cardinality(Where({"choose", "order", "enqueue"}))' = Cardinality(Where({"choose", "order", "enqueue"})) - 1
    BY <1>0, CountOut
  <2>2. e + Cardinality(Where({"choose", "order", "enqueue"})) = NC
    BY DEF Rings
  <2>. QED  BY <1>1, <2>1, <2>2
<1>3. order_hi = e /\ drink_lo = e /\ drink_sem[e] = e /\ drink_count[e] = 0 /\ asks[c] = c
  <2>1. order_hi = Wrap(e) /\ drink_lo = Wrap(e)
    BY DEF Rings
  <2>2. Wrap(e) = e
    BY <1>1, <1>2 DEF Wrap
  <2>3. e \in e..NC-1
    BY <1>1, <1>2
  <2>. QED  BY <2>1, <2>2, <2>3 DEF Orders
<1>4. order_hi' = Wrap(e + 1) /\ drink_lo' = Wrap(e + 1)
  BY <1>2, <1>3, NextSlot DEF Enqueue
<1>5. /\ order_queue'[e] = c /\ \A i \in 0..NC-1 : i # e => order_queue'[i] = order_queue[i]
      /\ order'[c].wait = e /\ \A o \in Order : o # c => order'[o] = order[o]
      /\ order'[c].glass = order[c].glass /\ order'[c].requested = order[c].requested
  <2>1. /\ order_queue' = [order_queue EXCEPT ![e] = c]
        /\ order' = [order EXCEPT ![c].wait = e]
    BY <1>3 DEF Enqueue
  <2>2. c \in Order
    BY DEF Order
  <2>. QED  BY <1>2, <2>1, <2>2 DEF BarTypeOK
<1>6. bar_pc'[c] = "announce" /\ \A x \in Customers : x # c => bar_pc'[x] = bar_pc[x]
  BY <1>0, Moves
<1>7. c \notin Lent /\ Lent' = Lent \cup {c} /\ Lent \subseteq Customers /\ Customers \subseteq Order
  BY <1>0, <1>3, <1>6, Roles DEF Lent, Order
<1>8. \A b \in Hands : job[b].order \in Lent /\ job[b].order # c /\ order[job[b].order].wait < d
  BY <1>7 DEF Orders
<1>9. d <= e
  BY DEF Rings
<1>10. /\ \A x \in Lent : Served(x, d)' <=> Served(x, d)
       /\ ~Served(c, d)'
  <2>1. ASSUME NEW x \in Lent PROVE Served(x, d)' <=> Served(x, d)
    BY <1>0, <1>5, <1>7 DEF Served
  <2>2. ~(e < d)
    BY <1>1, <1>9
  <2>3. ~Served(c, d)'
    BY <1>5, <2>2 DEF Served
  <2>. QED  BY <2>1, <2>3
<1>11. Rings(e + 1, d, s)'
  <2>1. Cardinality(Hands)' = Cardinality(Hands)
    OBVIOUS
  <2>2. d <= e + 1
    BY <1>1, <1>9
  <2>. QED  BY <1>0, <1>2, <1>4, <2>1, <2>2 DEF Rings
<1>12. Orders(e + 1, d)'
  <2>1. \A i \in e+1..NC-1 : drink_sem'[i] = i /\ drink_count'[i] = 0
    BY <1>0, <1>1 DEF Orders
  <2>2. ASSUME NEW x \in Lent' PROVE order'[x].wait \in 0..e /\ order_queue'[order'[x].wait] = x
    <3>1. CASE x = c
      BY <1>1, <1>5, <3>1
    <3>2. CASE x # c
      <4>1. x \in Lent /\ order'[x].wait = order[x].wait
        BY <1>5, <1>7, <3>2
      <4>2. order[x].wait \in 0..e-1 /\ order_queue[order[x].wait] = x
        BY <4>1 DEF Orders
      <4>3. order[x].wait \in 0..NC-1 /\ order[x].wait # e /\ order[x].wait \in 0..e
        BY <1>1, <1>2, <4>2
      <4>. QED  BY <1>5, <4>1, <4>2, <4>3
    <3>. QED  BY <3>1, <3>2
  <2>3. ASSUME NEW i \in 0..e PROVE order_queue'[i] \in Lent' /\ order'[order_queue'[i]].wait = i
    <3>1. CASE i = e
      BY <1>5, <1>7, <3>1
    <3>2. CASE i # e
      <4>1. i \in 0..e-1 /\ i \in 0..NC-1
        BY <1>1, <1>2, <3>2
      <4>2. order_queue[i] \in Lent /\ order[order_queue[i]].wait = i
        BY <4>1 DEF Orders
      <4>. QED  BY <1>5, <1>7, <3>2, <4>1, <4>2
    <3>. QED  BY <3>1, <3>2
  <2>4. \A b \in Hands : job[b].order \in Lent' /\ order'[job[b].order].wait < d
    BY <1>5, <1>7, <1>8
  <2>5. \A x \in Customers : asks'[x] = x
    BY <1>0 DEF Orders
  <2>6. e + 1 - 1 = e
    BY <1>1
  <2>. QED  BY <1>0, <2>1, <2>2, <2>3, <2>4, <2>5, <2>6 DEF Orders
<1>13. Signals(d)'
  <2>. SUFFICES ASSUME NEW x \in Lent'
       PROVE  /\ drink_count'[order'[x].wait] = IF Served(x, d)' /\ Waits(x)' THEN 1 ELSE 0
              /\ ~Served(x, d)' => Waits(x)'
              /\ Served(x, d)' /\ bar_pc'[x] \in {"announce", "wait", "drink"} =>
                   order'[x].glass = order'[x].requested
    BY DEF Signals
  <2>1. CASE x = c
    BY <1>0, <1>3, <1>5, <1>6, <1>10, <2>1 DEF Waits
  <2>2. CASE x # c
    <3>1. x \in Lent /\ order'[x] = order[x] /\ bar_pc'[x] = bar_pc[x] /\ (Served(x, d)' <=> Served(x, d))
      BY <1>5, <1>6, <1>7, <1>10, <2>2
    <3>. QED  BY <1>0, <3>1 DEF Signals, Waits
  <2>. QED  BY <2>1, <2>2
<1>14. Returned(d, s)'
  <2>1. {x \in Customers : Served(x, d)}' = {x \in Customers : Served(x, d)}
    <3>1. \A x \in Customers : Served(x, d)' => x \in Lent
      BY <1>7, <1>10 DEF Served
    <3>2. \A x \in Customers : Served(x, d) => x \in Lent
      BY DEF Served
    <3>. QED  BY <1>10, <3>1, <3>2
  <2>2. \A x \in Customers : Served(x, d) => order'[x].wait = order[x].wait
    BY <1>5, <1>7 DEF Served
  <2>3. {order[x].wait : x \in {y \in Customers : Served(y, d)}}' = {order[x].wait : x \in {y \in Customers : Served(y, d)}}
    BY <2>1, <2>2
  <2>. QED  BY <1>0, <2>3 DEF Returned
<1>15. Conserved(e + 1, d)'
  <2>1. Conserved(e, d)
    OBVIOUS
  <2>2. /\ Cardinality(Where({"dequeue"}))' = Cardinality(Where({"dequeue"}))
        /\ Cardinality(Where({"free"}))' = Cardinality(Where({"free"}))
    BY <1>0, CountKept
  <2>3. /\ Cardinality(Where({"announce"})) \in Nat
        /\ Cardinality(Where({"announce"}))' = Cardinality(Where({"announce"})) + 1
    BY <1>0, CountIn
  <2>4. /\ Cardinality(Where({"enqueue"})) \in Nat
        /\ Cardinality(Where({"enqueue"}))' = Cardinality(Where({"enqueue"})) - 1
    BY <1>0, CountOut
  <2>5. /\ Cardinality(Where({"dequeue"})) \in Nat /\ Cardinality(Where({"free"})) \in Nat
        /\ full_sem \in Nat /\ empty_sem \in Nat /\ full_sem' = full_sem /\ empty_sem' = empty_sem
    BY <1>0, Countable, SmallCounts
  <2>. QED  BY <1>1, <2>1, <2>2, <2>3, <2>4, <2>5 DEF Conserved
<1>16. Thirsty'
  BY <1>0, CountKept DEF Thirsty, CustomerPlaces
<1>. QED  BY <1>2, <1>11, <1>12, <1>13, <1>14, <1>15, <1>16

\* The order to go home is queued and lent the semaphore after the pool's last.
LEMMA EnqueueHome ==
  ASSUME BarTypeOK, NEW z \in Customers, GoingHome(z), NEW c \in Customers, Enqueue(c),
         Hands' = Hands
  PROVE  GoingHome(z)'
<1>. USE DEF queueVars, poolVars, slotSems, homeVars, custVars
<1>0. /\ bar_pc[c] = "enqueue" /\ Proceed(c, "announce")
      /\ UNCHANGED <<order_lo, drink_sem, drink_hi, slotSems, drink_count, bottle_lock, homeVars, doses, custVars, job>>
  BY DEF Enqueue
<1>1. c = z
  BY <1>0, LastOne
<1>2. Between(z) /\ asks[z] = GoHome
  BY <1>0, <1>1 DEF GoingHome, Put, Announced, InHand, Signalled
<1>3. bar_pc'[z] = "announce" /\ \A x \in Customers : x # z => bar_pc'[x] = bar_pc[x]
  BY <1>0, <1>1, Moves
<1>4. order_hi = drink_lo /\ order_lo = order_hi /\ drink_hi = drink_lo /\ order_hi \in 0..NC-1
  BY <1>2 DEF GoingHome, Between, BarTypeOK
<1>5. order_hi' = Wrap(drink_hi + 1) /\ drink_lo' = Wrap(drink_hi + 1)
  BY <1>4, NextSlot DEF Enqueue
<1>6. order_queue'[order_lo] = GoHome /\ order'[GoHome].wait = drink_sem[drink_hi]
  <2>1. /\ order_queue' = [order_queue EXCEPT ![order_lo] = GoHome]
        /\ order' = [order EXCEPT ![GoHome].wait = drink_sem[drink_hi]]
    BY <1>1, <1>2, <1>4 DEF Enqueue
  <2>. QED  BY <1>4, <2>1 DEF BarTypeOK, Order
<1>7. Where({"dequeue"})' = Where({"dequeue"})
  BY <1>0, CountKept
<1>8. Put(z)'
  BY <1>0, <1>1, <1>2, <1>3, <1>4, <1>5, <1>6, <1>7 DEF Between, Put, Pending, Queued, Quiet, Unsignalled, Wrap
<1>. QED  BY <1>0, <1>3, <1>5, <1>8 DEF GoingHome

\* order_drink: the critical section.
LEMMA EnqueueStep == ASSUME BarIInv, NEW c \in Customers, Enqueue(c) PROVE BarIInv'
<1>. USE DEF BarIInv, queueVars, poolVars, slotSems, homeVars, custVars
<1>1. PICK d \in 0..NC : Phase(d) /\ Counts(d)
  OBVIOUS
<1>2. /\ bar_pc[c] = "enqueue" /\ Proceed(c, "announce")
      /\ UNCHANGED <<order_lo, drink_sem, drink_hi, slotSems, drink_count, bottle_lock, homeVars, doses, custVars, job>>
      /\ order' = [order EXCEPT ![asks[c]].wait = drink_sem[drink_lo]]
  BY DEF Enqueue
<1>3. asks[c] \in Order /\ drink_sem[drink_lo] \in 0..NC-1
  BY DEF BarTypeOK
<1>4. /\ \A o \in Order : /\ order'[o].requested = order[o].requested /\ order'[o].glass = order[o].glass
                          /\ order'[o].hold = order[o].hold
                          /\ o # asks[c] => order'[o] = order[o]
  BY <1>2, <1>3 DEF BarTypeOK
<1>5. Places' /\ Hands' = Hands /\ Work' /\ \A b \in Bartenders : bar_pc'[b] = bar_pc[b]
  <2>1. \A b \in Hands : job[b].order \in Order
    BY HandsAre DEF BarTypeOK
  <2>. QED  BY <1>2, <1>4, <2>1, CustomerWork DEF CustomerPlaces
<1>6. Gone'
  BY <1>2, GoneStays
<1>7. BarTypeOK'
  <2>1. order' \in [Order -> OrderInfo]
    BY <1>2, <1>3, OrderTyped
  <2>2. order_queue' \in [0..NC-1 -> Order] /\ order_hi' \in 0..NC-1 /\ drink_lo' \in 0..NC-1
    BY <1>3, NextSlot DEF Enqueue, BarTypeOK
  <2>. QED  BY <1>2, <2>1, <2>2 DEF BarTypeOK, Proceed, OrderInfo, Contents
<1>8. CASE \E e, s \in 0..NC : Drinking(e, d, s)
  <2>1. PICK e \in 0..NC, s \in 0..NC : Drinking(e, d, s)
    BY <1>8
  <2>2. e + 1 \in 0..NC /\ Drinking(e + 1, d, s)'
    BY <1>5, <2>1, EnqueueDrinking
  <2>3. Phase(d)'
    BY <2>2 DEF Phase
  <2>4. asks[c] = c /\ ~(order'[c].wait < d) /\ c \notin Lent
    <3>1. asks[c] = c /\ asks'[c] = c /\ bar_pc'[c] = "announce"
      BY <1>2, <2>1, Moves DEF Drinking, Orders
    <3>2. c \notin Lent
      BY <1>2, <3>1, Roles DEF Lent
    <3>3. order'[c].wait = drink_sem[drink_lo]
      BY <1>2, <3>1 DEF BarTypeOK, Order
    <3>4. drink_lo = e /\ drink_sem[e] = e
      <4>1. Wrap(e) = e /\ e \in e..NC-1
        BY <2>2, SomeSlots DEF Wrap
      <4>. QED  BY <2>1, <4>1 DEF Drinking, Rings, Orders
    <3>5. d <= e
      BY <2>1 DEF Drinking, Rings
    <3>6. ~(e < d)
      BY <3>5, SomeSlots
    <3>. QED  BY <3>1, <3>2, <3>3, <3>4, <3>6
  <2>5. ASSUME NEW x \in Customers, NEW i \in Slots PROVE Poured(x, i, d)' <=> Poured(x, i, d)
    <3>1. CASE x = c
      BY <2>4, <3>1 DEF Poured
    <3>2. CASE x # c
      <4>1. x \in Lent' <=> x \in Lent
        BY <1>2, <3>2, Moves DEF Lent
      <4>2. order'[x].wait = order[x].wait
        BY <1>4, <2>4, <3>2 DEF Order
      <4>. QED  BY <1>2, <1>5, <4>1, <4>2, CustomerPours
    <3>. QED  BY <3>1, <3>2
  <2>6. Counts(d)'
    <3>1. \A x \in Customers, i \in Slots, k \in Bottle :
             (Poured(x, i, d)' /\ order'[x].requested[i] = k) <=> (Poured(x, i, d) /\ order[x].requested[i] = k)
      BY <1>4, <2>5 DEF Order
    <3>. QED  BY <1>1, <1>2, <3>1, CountsSame
  <2>. QED  BY <1>5, <1>6, <1>7, <2>3, <2>6
<1>9. CASE d = NC /\ \E z \in Customers : GoingHome(z)
  <2>1. PICK z \in Customers : GoingHome(z)
    BY <1>9
  <2>2. GoingHome(z)'
    BY <1>5, <2>1, EnqueueHome
  <2>3. c = z /\ asks[c] = GoHome
    BY <1>2, <2>1, LastOne DEF GoingHome
  <2>4. ASSUME NEW x \in Customers, NEW i \in Slots PROVE Poured(x, i, d)' <=> Poured(x, i, d)
    <3>1. x \in Lent' <=> x \in Lent
      BY <1>2, <2>3, Moves DEF Lent
    <3>2. order'[x].wait = order[x].wait
      BY <1>4, <2>3, Roles DEF Order
    <3>. QED  BY <1>2, <1>5, <3>1, <3>2, CustomerPours
  <2>5. Counts(d)'
    <3>1. \A x \in Customers, i \in Slots, k \in Bottle :
             (Poured(x, i, d)' /\ order'[x].requested[i] = k) <=> (Poured(x, i, d) /\ order[x].requested[i] = k)
      BY <1>4, <2>4 DEF Order
    <3>. QED  BY <1>1, <1>2, <3>1, CountsSame
  <2>. QED  BY <1>5, <1>6, <1>7, <1>9, <2>2, <2>5 DEF Phase
<1>. QED  BY <1>1, <1>8, <1>9 DEF Phase

\* A customer's loop index is a natural number.
LEMMA IndexTyped ==
  ASSUME BarTypeOK, NEW c \in Customers
  PROVE  /\ n \in [Customers -> Nat] /\ [n EXCEPT ![c] = n[c] + 1] \in [Customers -> Nat]
         /\ [n EXCEPT ![c] = 0] \in [Customers -> Nat]
<1>1. n \in [Customers -> Nat]
  BY DEF BarTypeOK
<1>2. n[c] + 1 \in Nat
  BY <1>1
<1>. QED  BY <1>1, <1>2

\* A signal on its order's semaphore is for the customer alone.
LEMMA WaitDrinking ==
  ASSUME BarTypeOK, Places, NEW e \in 0..NC, NEW d \in 0..NC, NEW s \in 0..NC, Drinking(e, d, s),
         NEW c \in Customers, Wait(c), Hands' = Hands, Lent' = Lent
  PROVE  Drinking(e, d, s)'
<1>. USE DEF queueVars, poolVars, slotSems, homeVars, custVars
<1>1. asks[c] = c /\ c \in Lent /\ Lent \subseteq Customers /\ Customers \subseteq Order
  BY DEF Wait, Drinking, Orders, Lent, Order
<1>2. /\ bar_pc[c] = "wait" /\ Proceed(c, "drink") /\ drink_count[order[c].wait] > 0
      /\ drink_count' = [drink_count EXCEPT ![order[c].wait] = @ - 1]
      /\ UNCHANGED <<queueVars, poolVars, slotSems, bottle_lock, order, homeVars, doses, asks, job>>
  BY <1>1 DEF Wait
<1>3. bar_pc'[c] = "drink" /\ \A x \in Customers : x # c => bar_pc'[x] = bar_pc[x]
  BY <1>2, Moves
<1>4. /\ Served(c, d) /\ order[c].glass = order[c].requested
      /\ drink_count[order[c].wait] = 1
  <2>1. drink_count[order[c].wait] = IF Served(c, d) /\ Waits(c) THEN 1 ELSE 0
    BY <1>1 DEF Drinking, Signals
  <2>2. Served(c, d)
    BY <1>2, <2>1
  <2>. QED  BY <1>1, <1>2, <2>1, <2>2 DEF Drinking, Signals, Waits
<1>5. \A x \in Lent : order[x].wait \in 0..e-1 /\ order_queue[order[x].wait] = x
  BY DEF Drinking, Orders
<1>6. order[c].wait \in 0..NC-1 /\ drink_count'[order[c].wait] = 0
  <2>1. order[c].wait \in 0..NC-1
    BY <1>1 DEF BarTypeOK
  <2>2. drink_count'[order[c].wait] = drink_count[order[c].wait] - 1
    BY <1>2, <2>1 DEF BarTypeOK
  <2>. QED  BY <1>4, <2>1, <2>2
<1>7. \A i \in 0..NC-1 : i # order[c].wait => drink_count'[i] = drink_count[i]
  BY <1>2 DEF BarTypeOK
<1>8. \A i \in e..NC-1 : drink_count'[i] = drink_count[i]
  <2>1. \A i \in e..NC-1 : i \in 0..NC-1 /\ i # order[c].wait
    BY <1>1, <1>5, SomeSlots
  <2>. QED  BY <1>7, <2>1
<1>9. ASSUME NEW x \in Lent
      PROVE  (Served(x, d)' <=> Served(x, d)) /\ order'[x] = order[x]
  BY <1>2, ServedSame
<1>10. Signals(d)'
  <2>. SUFFICES ASSUME NEW x \in Lent
       PROVE  /\ drink_count'[order[x].wait] = IF Served(x, d) /\ Waits(x)' THEN 1 ELSE 0
              /\ ~Served(x, d) => Waits(x)'
              /\ Served(x, d) /\ bar_pc'[x] \in {"announce", "wait", "drink"} => order[x].glass = order[x].requested
    BY <1>9 DEF Signals
  <2>1. CASE x = c
    BY <1>3, <1>4, <1>6, <2>1 DEF Waits
  <2>2. CASE x # c
    <3>1. bar_pc'[x] = bar_pc[x] /\ (Waits(x)' <=> Waits(x))
      BY <1>1, <1>3, <2>2 DEF Waits
    <3>2. order[x].wait # order[c].wait /\ order[x].wait \in 0..NC-1
      BY <1>1, <1>5, <2>2 DEF BarTypeOK
    <3>3. drink_count'[order[x].wait] = drink_count[order[x].wait]
      BY <1>7, <3>2
    <3>4. /\ drink_count[order[x].wait] = IF Served(x, d) /\ Waits(x) THEN 1 ELSE 0
          /\ ~Served(x, d) => Waits(x)
          /\ Served(x, d) /\ bar_pc[x] \in {"announce", "wait", "drink"} => order[x].glass = order[x].requested
      BY DEF Drinking, Signals
    <3>. QED  BY <3>1, <3>3, <3>4 DEF Waits
  <2>. QED  BY <2>1, <2>2
<1>11. Conserved(e, d)'
  BY <1>2, CountKept DEF Conserved, Drinking
<1>12. Thirsty'
  BY <1>2, CountKept DEF Thirsty, Drinking, CustomerPlaces
<1>13. Cardinality(Where({"choose", "order", "enqueue"}))' = Cardinality(Where({"choose", "order", "enqueue"}))
  BY <1>2, CountKept
<1>. QED  BY <1>2, <1>8, <1>10, <1>11, <1>12, <1>13, DrinkingStays

\* order_drink: P(order->wait_drink), and the return.
LEMMA BarWaitStep == ASSUME BarIInv, NEW c \in Customers, Wait(c) PROVE BarIInv'
<1>. USE DEF BarIInv, queueVars, poolVars, slotSems, homeVars, custVars
<1>1. PICK d \in 0..NC : Phase(d) /\ Counts(d)
  OBVIOUS
<1>2. /\ bar_pc[c] = "wait" /\ drink_count[order[asks[c]].wait] > 0
      /\ drink_count' = [drink_count EXCEPT ![order[asks[c]].wait] = @ - 1]
      /\ UNCHANGED <<queueVars, poolVars, slotSems, bottle_lock, order, homeVars, doses, asks, job>>
  BY DEF Wait
<1>3. PICK q \in {"drink", "order", "leave"} : Proceed(c, q) /\ (q = "drink" <=> asks[c] = c)
  BY DEF Wait
<1>4. asks[c] \in {c, GoHome}
  BY <1>1 DEF Phase, Drinking, Orders, GoingHome
<1>5. Lent' = Lent
  BY <1>2, <1>3, <1>4, Moves DEF Lent
<1>6. /\ Places' /\ Hands' = Hands /\ Work' /\ Counts(d)'
      /\ bar_pc'[c] = q /\ \A x \in Customers : x # c => bar_pc'[x] = bar_pc[x]
  BY <1>1, <1>2, <1>3, <1>5, CustomerFrame DEF CustomerPlaces
<1>7. Gone'
  BY <1>2, <1>3, GoneStays
<1>8. BarTypeOK'
  <2>1. order[asks[c]].wait \in 0..NC-1
    BY DEF BarTypeOK
  <2>2. drink_count[order[asks[c]].wait] - 1 \in 0..1
    BY <1>2, <2>1 DEF BarTypeOK
  <2>3. drink_count' \in [0..NC-1 -> 0..1]
    BY <1>2, <2>2 DEF BarTypeOK
  <2>4. n' \in [Customers -> Nat]
    BY IndexTyped DEF Wait
  <2>5. bar_pc' \in [Customers \cup Bartenders -> {"choose", "order", "enqueue", "announce", "wait",
         "drink", "home", "leave", "gone", "take", "dequeue", "free", "sort", "bottles", "mix",
         "pour", "return", "serve"}]
    BY <1>3 DEF BarTypeOK, Proceed
  <2>. QED  BY <1>2, <2>3, <2>4, <2>5 DEF BarTypeOK
<1>9. ASSUME NEW e \in 0..NC, NEW s \in 0..NC, Drinking(e, d, s) PROVE Drinking(e, d, s)'
  BY <1>5, <1>6, <1>9, WaitDrinking
<1>10. ASSUME NEW z \in Customers, GoingHome(z) PROVE GoingHome(z)'
  <2>1. c = z /\ asks[c] = GoHome /\ GoHome # c
    BY <1>2, <1>10, LastOne, Roles DEF GoingHome
  <2>2. order[GoHome].wait \in 0..NC-1
    BY DEF BarTypeOK, Order
  <2>3. Signalled(z)
    BY <1>2, <1>10, <2>1, <2>2 DEF GoingHome, Between, Put, Announced, InHand, Pending, Unsignalled
  <2>4. q \in {"order", "leave"} /\ Where({"dequeue"})' = Where({"dequeue"})
    BY <1>2, <1>3, <2>1, CountKept
  <2>5. \A i \in 0..NC-1 : drink_count'[i] = 0
    <3>1. \A i \in 0..NC-1 : drink_count[i] = IF i = order[GoHome].wait THEN 1 ELSE 0
      BY <2>3 DEF Signalled
    <3>2. \A i \in 0..NC-1 : drink_count'[i] = IF i = order[GoHome].wait THEN drink_count[i] - 1 ELSE drink_count[i]
      BY <1>2, <2>1, <2>2 DEF BarTypeOK
    <3>. QED  BY <2>2, <3>1, <3>2
  <2>6. Between(z)'
    BY <1>2, <1>6, <2>1, <2>3, <2>4, <2>5 DEF Between, Signalled, Quiet, Unsignalled
  <2>. QED  BY <1>2, <1>6, <1>10, <2>1, <2>6 DEF GoingHome
<1>11. Phase(d)'
  BY <1>1, <1>9, <1>10 DEF Phase
<1>. QED  BY <1>1, <1>6, <1>7, <1>8, <1>11

\* customer: empty the glass, and home after one round.
LEMMA DrinkStep == ASSUME BarIInv, Rounds = 1, NEW c \in Customers, Drink(c) PROVE BarIInv'
<1>. USE DEF BarIInv, queueVars, poolVars, slotSems, homeVars, custVars
<1>1. PICK d \in 0..NC : Phase(d) /\ Counts(d)
  OBVIOUS
<1>2. PICK e \in 0..NC, s \in 0..NC : Drinking(e, d, s)
  BY <1>1, StillDrinking DEF Drink
<1>3. /\ bar_pc[c] = "drink" /\ Proceed(c, "home")
      /\ order' = [order EXCEPT ![c].glass = Empty] /\ n' = [n EXCEPT ![c] = @ + 1]
      /\ UNCHANGED <<queueVars, poolVars, slotSems, drink_count, bottle_lock, homeVars, doses, asks, job>>
  <2>1. n[c] \in Nat
    BY DEF BarTypeOK
  <2>2. ~(n[c] + 1 < Rounds)
    BY <2>1
  <2>. QED  BY <2>2 DEF Drink
<1>4. asks[c] = c /\ c \in Lent /\ Served(c, d)
  BY <1>2, <1>3 DEF Drinking, Orders, Lent, Signals, Waits
<1>5. /\ \A o \in Order : o # c => order'[o] = order[o]
      /\ \A o \in Order : /\ order'[o].wait = order[o].wait /\ order'[o].requested = order[o].requested
                          /\ order'[o].hold = order[o].hold
  BY <1>3 DEF BarTypeOK, Order
<1>6. Places' /\ Hands' = Hands /\ Work' /\ \A b \in Bartenders : bar_pc'[b] = bar_pc[b]
  <2>1. \A b \in Hands : job[b].order # c /\ job[b].order \in Order
    BY <1>2, <1>4 DEF Served, Lent, Order, Drinking, Orders
  <2>. QED  BY <1>3, <1>5, <2>1, CustomerWork DEF CustomerPlaces
<1>7. bar_pc'[c] = "home" /\ \A x \in Customers : x # c => bar_pc'[x] = bar_pc[x]
  BY <1>3, Moves
<1>8. Lent' = Lent
  BY <1>3, <1>7 DEF Lent
<1>9. Gone'
  BY <1>3, GoneStays
<1>10. BarTypeOK'
  <2>1. Empty \in Contents /\ c \in Order
    BY BarAssumption DEF BarAssumption, Empty, Contents, Order
  <2>2. order' \in [Order -> OrderInfo]
    BY <1>3, <2>1, OrderTyped
  <2>3. n' \in [Customers -> Nat]
    BY <1>3, IndexTyped
  <2>. QED  BY <1>3, <2>2, <2>3 DEF BarTypeOK, Proceed, OrderInfo, Contents
<1>11. Drinking(e, d, s)'
  <2>1. Conserved(e, d)'
    BY <1>2, <1>3, CountKept DEF Conserved, Drinking
  <2>2. Thirsty'
    BY <1>2, <1>3, CountKept DEF Thirsty, Drinking, CustomerPlaces
  <2>3. Signals(d)'
    BY <1>2, <1>3, <1>5, <1>6, <1>7, <1>8, SignalsStay DEF Drinking, Lent, Order
  <2>4. Cardinality(Where({"choose", "order", "enqueue"}))' = Cardinality(Where({"choose", "order", "enqueue"}))
    BY <1>3, CountKept
  <2>. QED  BY <1>2, <1>3, <1>5, <1>6, <1>8, <2>1, <2>2, <2>3, <2>4, DrinkingStays
<1>12. Counts(d)'
  <2>1. \A x \in Customers, i \in Slots : Poured(x, i, d)' <=> Poured(x, i, d)
    BY <1>3, <1>5, <1>6, <1>8, CustomerPours DEF Order
  <2>2. \A x \in Customers, i \in Slots, k \in Bottle :
           (Poured(x, i, d)' /\ order'[x].requested[i] = k) <=> (Poured(x, i, d) /\ order[x].requested[i] = k)
    BY <1>5, <2>1 DEF Order
  <2>. QED  BY <1>1, <1>3, <2>2, CountsSame
<1>. QED  BY <1>6, <1>9, <1>10, <1>11, <1>12 DEF Phase

\* The last customer to go home finds every order served, every slot free and every
\* semaphore back in the pool.
LEMMA LastHome ==
  ASSUME BarTypeOK, Places, NEW e \in 0..NC, NEW d \in 0..NC, NEW s \in 0..NC, Drinking(e, d, s),
         NEW c \in Customers, Home(c), customers = 1, Hands' = Hands
  PROVE  d = NC /\ GoingHome(c)'
<1>. USE DEF Drinking, queueVars, poolVars, slotSems, homeVars, custVars
<1>1. /\ bar_pc[c] = "home" /\ Proceed(c, "order") /\ asks' = [asks EXCEPT ![c] = GoHome]
      /\ UNCHANGED <<queueVars, poolVars, slotSems, drink_count, bottle_lock, order, alldone, doses, job>>
      /\ customers' = customers - 1
  BY DEF Home
<1>2. NC \in Nat /\ NC > 0 /\ e \in Nat /\ d \in Nat /\ s \in Nat
  BY SomeSlots
<1>3. Where(CustomerPlaces \ {"leave", "gone"}) = {c}
  <2>1. c \in Where(CustomerPlaces \ {"leave", "gone"})
    BY <1>1 DEF Where, CustomerPlaces
  <2>2. Cardinality(Where(CustomerPlaces \ {"leave", "gone"})) = 1
    BY DEF Thirsty
  <2>. QED  BY <2>1, <2>2, OnlyOne
<1>4. \A x \in Customers \ {c} : bar_pc[x] \in {"leave", "gone"}
  BY <1>3 DEF Where, Places, CustomerPlaces
<1>5. \A b \in Bartenders : bar_pc[b] \notin {"choose", "order", "enqueue", "announce"}
  BY DEF Places, Busy
<1>6. /\ Where({"choose", "order", "enqueue"}) = {} /\ Where({"announce"}) = {} /\ Where({"enqueue"}) = {}
  BY <1>1, <1>4, <1>5 DEF Where
<1>7. Lent = Customers /\ \A x \in Customers : ~Waits(x)
  BY <1>1, <1>4 DEF Lent, Waits
<1>8. \A x \in Customers : Served(x, d)
  BY <1>7 DEF Signals
<1>9. Hands = {}
  BY <1>7, <1>8 DEF Orders, Served
<1>10. /\ Cardinality(Where({"choose", "order", "enqueue"})) = 0 /\ Cardinality(Where({"announce"})) = 0
       /\ Cardinality(Where({"enqueue"})) = 0 /\ Cardinality(Hands) = 0
  BY <1>6, <1>9, FS_EmptySet
<1>11. e = NC /\ d = s /\ d <= e
  BY <1>2, <1>10 DEF Rings
<1>12. d = NC
  <2>. SUFFICES ASSUME d < NC PROVE FALSE
    BY <1>2, <1>11
  <2>1. d \in 0..e-1
    BY <1>2, <1>11
  <2>2. order_queue[d] \in Lent /\ order[order_queue[d]].wait = d
    BY <2>1 DEF Orders
  <2>3. ~(d < d)
    BY <1>2
  <2>. QED  BY <1>7, <1>8, <2>2, <2>3 DEF Served
<1>13. order_hi = 0 /\ order_lo = 0 /\ drink_hi = 0 /\ drink_lo = 0
  <2>1. Wrap(NC) = 0
    BY DEF Wrap
  <2>. QED  BY <1>11, <1>12, <2>1 DEF Rings
<1>14. full_sem = NC /\ empty_sem = 0 /\ Where({"dequeue"}) = {}
  <2>1. Where({"free"}) = {}
    BY <1>4, <1>9 DEF Where, Hands, Busy
  <2>2. Cardinality(Where({"free"})) = 0
    BY <2>1, FS_EmptySet
  <2>3. Conserved(e, d)
    OBVIOUS
  <2>4. NC = full_sem + 0 + (NC - NC) + 0 /\ NC = NC + empty_sem + 0 + Cardinality(Where({"dequeue"}))
    BY <1>10, <1>11, <1>12, <2>2, <2>3 DEF Conserved
  <2>5. Cardinality(Where({"dequeue"})) \in Nat /\ full_sem \in Nat /\ empty_sem \in Nat
    BY Countable, SmallCounts
  <2>6. full_sem = NC /\ empty_sem = 0 /\ Cardinality(Where({"dequeue"})) = 0
    BY <1>2, <2>4, <2>5
  <2>. QED  BY <2>6, NobodyThere
<1>15. \A i \in 0..NC-1 : drink_count[i] = 0
  <2>. SUFFICES ASSUME NEW i \in 0..NC-1 PROVE drink_count[i] = 0
    OBVIOUS
  <2>1. order_queue[i] \in Lent /\ order[order_queue[i]].wait = i
    BY <1>11 DEF Orders
  <2>. QED  BY <1>7, <2>1 DEF Signals
<1>16. {drink_sem[i] : i \in 0..NC-1} = 0..NC-1
  <2>1. {drink_sem[i] : i \in 0..NC-1} = {order[x].wait : x \in {y \in Customers : Served(y, d)}}
    BY <1>11, <1>12 DEF Returned
  <2>2. {y \in Customers : Served(y, d)} = Customers
    BY <1>8
  <2>3. \A x \in Customers : order[x].wait \in 0..NC-1
    BY <1>7, <1>11 DEF Orders
  <2>4. \A i \in 0..NC-1 : order_queue[i] \in Customers /\ order[order_queue[i]].wait = i
    BY <1>7, <1>11 DEF Orders
  <2>. QED  BY <2>1, <2>2, <2>3, <2>4
<1>17. /\ bar_pc'[c] = "order" /\ \A x \in Customers : x # c => bar_pc'[x] = bar_pc[x]
       /\ asks'[c] = GoHome /\ \A x \in Customers \ {c} : asks'[x] = x
       /\ customers' = 0
  <2>1. bar_pc'[c] = "order" /\ \A x \in Customers : x # c => bar_pc'[x] = bar_pc[x]
    BY <1>1, Moves
  <2>2. asks'[c] = GoHome /\ \A x \in Customers \ {c} : asks'[x] = x
    BY <1>1 DEF Orders, BarTypeOK
  <2>3. customers' = 0
    BY <1>1
  <2>. QED  BY <2>1, <2>2, <2>3
<1>18. Where({"dequeue"})' = {}
  BY <1>1, <1>14, CountKept
<1>19. Between(c)'
  BY <1>1, <1>9, <1>13, <1>14, <1>15, <1>17, <1>18 DEF Between, Quiet, Unsignalled
<1>. QED  BY <1>1, <1>4, <1>12, <1>13, <1>16, <1>17, <1>19 DEF GoingHome

\* go_home.
LEMMA HomeStep == ASSUME BarIInv, NEW c \in Customers, Home(c) PROVE BarIInv'
<1>. USE DEF BarIInv, queueVars, poolVars, slotSems, homeVars, custVars
<1>1. PICK d \in 0..NC : Phase(d) /\ Counts(d)
  OBVIOUS
<1>2. PICK e \in 0..NC, s \in 0..NC : Drinking(e, d, s)
  BY <1>1, StillDrinking DEF Home
<1>3. /\ bar_pc[c] = "home" /\ customers' = customers - 1
      /\ UNCHANGED <<queueVars, poolVars, slotSems, drink_count, bottle_lock, order, alldone, doses, job>>
  BY DEF Home
<1>4. PICK q \in {"order", "leave"} : Proceed(c, q) /\ (q = "order" <=> customers = 1)
  BY DEF Home
<1>5. Lent' = Lent
  <2>1. \A x \in Customers : x # c => bar_pc'[x] = bar_pc[x] /\ asks'[x] = asks[x]
    BY <1>4, Moves DEF Home, BarTypeOK
  <2>2. c \in Lent /\ bar_pc'[c] = q
    BY <1>3, <1>4, Moves DEF Lent
  <2>3. q = "order" => asks'[c] = GoHome
    BY <1>4 DEF Home, BarTypeOK
  <2>. QED  BY <2>1, <2>2, <2>3 DEF Lent
<1>6. /\ Places' /\ Hands' = Hands /\ Work' /\ Counts(d)'
      /\ bar_pc'[c] = q /\ \A x \in Customers : x # c => bar_pc'[x] = bar_pc[x]
  BY <1>1, <1>3, <1>4, <1>5, CustomerFrame DEF CustomerPlaces
<1>7. Gone'
  BY <1>3, <1>4, GoneStays
<1>8. customers \in 0..NC /\ customers # 0 /\ customers' \in 0..NC
  <2>1. customers \in 0..NC
    BY DEF BarTypeOK
  <2>2. customers # 0
    BY <1>2 DEF Drinking, Thirsty
  <2>3. customers - 1 \in 0..NC
    BY <2>1, <2>2, SomeSlots
  <2>. QED  BY <1>3, <2>1, <2>2, <2>3
<1>9. BarTypeOK'
  <2>1. n' \in [Customers -> Nat] /\ asks' \in [Customers -> Order]
    BY IndexTyped DEF Home, BarTypeOK, Order, custVars
  <2>2. bar_pc' \in [Customers \cup Bartenders -> {"choose", "order", "enqueue", "announce", "wait",
         "drink", "home", "leave", "gone", "take", "dequeue", "free", "sort", "bottles", "mix",
         "pour", "return", "serve"}]
    BY <1>4 DEF BarTypeOK, Proceed
  <2>. QED  BY <1>3, <1>8, <2>1, <2>2 DEF BarTypeOK
<1>10. CASE customers = 1
  BY <1>1, <1>2, <1>6, <1>7, <1>9, <1>10, LastHome DEF Phase
<1>11. CASE customers # 1
  <2>1. q = "leave" /\ asks' = asks
    BY <1>4, <1>11 DEF Home
  <2>2. Conserved(e, d)'
    BY <1>2, <1>3, <1>4, <2>1, CountKept DEF Conserved, Drinking
  <2>3. Thirsty'
    <3>1. /\ Cardinality(Where(CustomerPlaces \ {"leave", "gone"})) \in Nat
          /\ Cardinality(Where(CustomerPlaces \ {"leave", "gone"}))' = Cardinality(Where(CustomerPlaces \ {"leave", "gone"})) - 1
      <4>1. bar_pc[c] \in CustomerPlaces \ {"leave", "gone"} /\ q \notin CustomerPlaces \ {"leave", "gone"}
        BY <1>3, <2>1 DEF CustomerPlaces
      <4>. QED  BY <1>4, <4>1, CountOut
    <3>2. customers = Cardinality(Where(CustomerPlaces \ {"leave", "gone"}))
      BY <1>2 DEF Drinking, Thirsty
    <3>3. customers' # 0
      BY <1>3, <1>8, <1>11, SomeSlots
    <3>4. customers' = Cardinality(Where(CustomerPlaces \ {"leave", "gone"}))'
      BY <1>3, <3>1, <3>2
    <3>. QED  BY <3>3, <3>4 DEF Thirsty, CustomerPlaces
  <2>4. Signals(d)'
    BY <1>2, <1>3, <1>5, <1>6, <2>1, SignalsStay DEF Drinking, Lent
  <2>5. Cardinality(Where({"choose", "order", "enqueue"}))' = Cardinality(Where({"choose", "order", "enqueue"}))
    BY <1>3, <1>4, <2>1, CountKept
  <2>6. Drinking(e, d, s)'
    BY <1>2, <1>3, <1>5, <1>6, <2>1, <2>2, <2>3, <2>4, <2>5, DrinkingStays
  <2>. QED  BY <1>1, <1>6, <1>7, <1>9, <2>6 DEF Phase
<1>. QED  BY <1>10, <1>11

\* Going home stays as it is if only those who left move.
LEMMA HomeStays ==
  ASSUME NEW z \in Customers, GoingHome(z),
         UNCHANGED <<order_queue, order_hi, order_lo, drink_sem, drink_hi, drink_lo, full_sem, empty_sem,
                     drink_count, order, customers, asks>>,
         Hands' = Hands, Where({"dequeue"})' = Where({"dequeue"}),
         \A b \in Hands : job'[b].order = job[b].order /\ bar_pc'[b] = bar_pc[b],
         \A x \in Customers : \/ bar_pc'[x] = bar_pc[x]
                              \/ bar_pc[x] = "leave" /\ bar_pc'[x] = "gone"
  PROVE  GoingHome(z)'
<1>1. /\ asks'[z] = GoHome /\ customers' = 0
      /\ \A x \in Customers \ {z} : asks'[x] = x /\ bar_pc'[x] \in {"leave", "gone"}
      /\ order_hi' = drink_lo' /\ {drink_sem'[i] : i \in 0..NC-1} = 0..NC-1
  BY DEF GoingHome
<1>2. Cardinality(Where({"dequeue"}))' = Cardinality(Where({"dequeue"}))
  OBVIOUS
<1>3. (Pending' <=> Pending) /\ (Unsignalled' <=> Unsignalled) /\ (Queued' <=> Queued) /\ (Quiet' <=> Quiet)
  BY DEF Pending, Unsignalled, Queued, Quiet, Wrap
<1>4. CASE Between(z)
  BY <1>1, <1>3, <1>4 DEF GoingHome, Between
<1>5. CASE Put(z)
  BY <1>1, <1>3, <1>5 DEF GoingHome, Put
<1>6. CASE Announced(z)
  BY <1>1, <1>2, <1>3, <1>6 DEF GoingHome, Announced
<1>7. CASE InHand(z)
  <2>1. PICK b \in Bartenders : /\ Hands = {b} /\ job[b].order = GoHome
                                /\ full_sem = IF bar_pc[b] = "free" THEN NC - 1 ELSE NC
    BY <1>7 DEF InHand
  <2>2. /\ Hands' = {b} /\ job'[b].order = GoHome
        /\ full_sem' = IF bar_pc'[b] = "free" THEN NC - 1 ELSE NC
    BY <2>1
  <2>3. InHand(z)'
    BY <1>3, <1>7, <2>2 DEF InHand
  <2>. QED  BY <1>1, <2>3 DEF GoingHome
<1>8. CASE Signalled(z)
  BY <1>1, <1>3, <1>8 DEF GoingHome, Signalled
<1>. QED  BY <1>4, <1>5, <1>6, <1>7, <1>8 DEF GoingHome

\* Slots are poured or not as before if the bartenders are as far with their orders.
LEMMA PouredSame ==
  ASSUME Hands' = Hands, NEW c, NEW i, NEW d,
         \A b \in Hands : job'[b].order = job[b].order /\ (job[b].order = c => (Past(b, i)' <=> Past(b, i))),
         c \in Lent' <=> c \in Lent, order'[c].wait = order[c].wait
  PROVE  Poured(c, i, d)' <=> Poured(c, i, d)
BY DEF Poured

\* A bartender that has no bottles, now or after, and nothing in the glass.
LEMMA IdleWork ==
  ASSUME NEW b \in Bartenders, BottlesOf(b),
         bar_pc[b] \notin {"bottles", "mix", "pour", "return"}, bar_pc'[b] \notin {"bottles", "mix", "pour", "return"},
         \A k \in Bottle : bottle_lock'[k] = b <=> bottle_lock[k] = b,
         bar_pc'[b] = "serve" => job'[b].order = GoHome
  PROVE  BottlesOf(b)' /\ GlassOf(b)'
<1>1. 1..Noted(b) = {} /\ 1..Noted(b)' = {} /\ 1..Taken(b)' = {}
  BY DEF Noted, Taken
<1>2. job'[b].order = GoHome \/ 1..Filled(b)' = {}
  BY DEF Filled
<1>. QED  BY <1>1, <1>2 DEF BottlesOf, GlassOf

\* V(alldone): one more is counted out.
LEMMA LeaveStep == ASSUME BarIInv, NEW t \in Customers \cup Bartenders, Leave(t) PROVE BarIInv'
<1>. USE DEF BarIInv, queueVars, poolVars, slotSems, homeVars, custVars
<1>1. PICK d \in 0..NC : Phase(d) /\ Counts(d)
  OBVIOUS
<1>2. /\ bar_pc[t] = "leave" /\ alldone' = alldone + 1 /\ Proceed(t, "gone")
      /\ UNCHANGED <<queueVars, poolVars, slotSems, drink_count, bottle_lock, order, customers, doses, custVars, job>>
  BY DEF Leave
<1>3. bar_pc'[t] = "gone" /\ \A u \in Customers \cup Bartenders : u # t => bar_pc'[u] = bar_pc[u]
  BY <1>2, Moves
<1>4. Lent' = Lent
  BY <1>2, <1>3 DEF Lent
<1>5. Places' /\ Hands' = Hands /\ Work'
  <2>1. CASE t \in Customers
    BY <1>2, <2>1, CustomerWork DEF CustomerPlaces
  <2>2. CASE t \in Bartenders
    <3>1. BottlesOf(t)' /\ GlassOf(t)'
      BY <1>2, <1>3, <2>2, IdleWork DEF Work
    <3>2. Places' /\ Work' /\ Hands' = Hands \ {t}
      BY <1>2, <2>2, <3>1, BartenderWork DEF Busy
    <3>3. t \notin Hands
      BY <1>2 DEF Hands, Where, Busy
    <3>. QED  BY <3>2, <3>3
  <2>. QED  BY <2>1, <2>2
<1>6. \A b \in Hands : bar_pc'[b] = bar_pc[b]
  BY <1>2, <1>3 DEF Hands, Where, Busy
<1>7. Gone' /\ alldone' \in Nat
  <2>1. /\ Cardinality(Where({"gone"})) \in Nat
        /\ Cardinality(Where({"gone"}))' = Cardinality(Where({"gone"})) + 1
    BY <1>2, CountIn
  <2>. QED  BY <1>2, <2>1 DEF Gone
<1>8. BarTypeOK'
  BY <1>2, <1>7 DEF BarTypeOK, Proceed
<1>9. ASSUME NEW e \in 0..NC, NEW s \in 0..NC, Drinking(e, d, s) PROVE Drinking(e, d, s)'
  <2>1. Conserved(e, d)'
    BY <1>2, <1>9, CountKept DEF Conserved, Drinking
  <2>2. Thirsty'
    BY <1>2, <1>9, CountKept DEF Thirsty, Drinking, CustomerPlaces
  <2>3. Signals(d)'
    BY <1>2, <1>3, <1>4, <1>5, <1>9, SignalsStay DEF Drinking, Lent
  <2>4. Cardinality(Where({"choose", "order", "enqueue"}))' = Cardinality(Where({"choose", "order", "enqueue"}))
    BY <1>2, CountKept
  <2>. QED  BY <1>2, <1>4, <1>5, <1>9, <2>1, <2>2, <2>3, <2>4, DrinkingStays
<1>10. ASSUME NEW z \in Customers, GoingHome(z) PROVE GoingHome(z)'
  <2>1. Where({"dequeue"})' = Where({"dequeue"})
    BY <1>2, CountKept
  <2>. QED  BY <1>2, <1>3, <1>5, <1>6, <1>10, <2>1, HomeStays
<1>11. Counts(d)'
  <2>1. ASSUME NEW x \in Customers, NEW i \in Slots PROVE Poured(x, i, d)' <=> Poured(x, i, d)
    <3>1. \A b \in Hands : Past(b, i)' <=> Past(b, i)
      BY <1>2, <1>6 DEF Past
    <3>. QED  BY <1>2, <1>4, <1>5, <3>1, PouredSame
  <2>2. \A x \in Customers, i \in Slots, k \in Bottle :
           (Poured(x, i, d)' /\ order'[x].requested[i] = k) <=> (Poured(x, i, d) /\ order[x].requested[i] = k)
    BY <1>2, <2>1
  <2>. QED  BY <1>1, <1>2, <2>2, CountsSame
<1>12. Phase(d)'
  BY <1>1, <1>9, <1>10 DEF Phase
<1>. QED  BY <1>1, <1>5, <1>7, <1>8, <1>11, <1>12

-----------------------------------------------------------------------------
(* Bartenders: filling an order *)

Filling == {"sort", "bottles", "mix", "pour", "return"}

\* Who fills an order fills a customer's, lent and taken out, and nobody else fills it.
LEMMA FillsADrink ==
  ASSUME Places, Work, NEW b \in Bartenders, bar_pc[b] \in Filling, NEW d, Phase(d)
  PROVE  /\ b \in Hands /\ job[b].order \in Lent /\ job[b].order \in Customers /\ order[job[b].order].wait < d
         /\ \A a \in Hands : a # b => job[a].order # job[b].order
         /\ \E e, s \in 0..NC : Drinking(e, d, s)
         /\ \A z \in Customers : ~GoingHome(z)
<1>1. b \in Hands
  BY DEF Hands, Where, Busy, Filling
<1>2. job[b].order # GoHome
  BY <1>1 DEF Work, Tasks, Filling
<1>3. \A z \in Customers : ~GoingHome(z)
  BY <1>1, <1>2 DEF GoingHome, Between, Put, Announced, InHand, Signalled, Queued, Quiet
<1>4. \E e, s \in 0..NC : Drinking(e, d, s)
  BY <1>3 DEF Phase
<1>5. job[b].order \in Lent /\ job[b].order \in Customers /\ order[job[b].order].wait < d
  BY <1>1, <1>4 DEF Drinking, Orders, Lent
<1>6. \A a \in Hands : a # b => job[a].order # job[b].order
  BY <1>1 DEF Work, Tasks
<1>. QED  BY <1>1, <1>3, <1>4, <1>5, <1>6

\* A step that fills an order shows only in what it does to the order, its bottles and
\* the bottles' counts.
LEMMA FillingStep ==
  ASSUME BarIInv, NEW b \in Bartenders, bar_pc[b] \in Filling,
         NEW q \in Busy \ {"free"}, Proceed(b, q),
         UNCHANGED <<order_queue, order_hi, order_lo, drink_sem, drink_hi, drink_lo, full_sem, empty_sem,
                     drink_count, customers, alldone, asks, n>>,
         \A a \in Bartenders : a # b => job'[a] = job[a],
         job'[b].order = job[b].order,
         \A o \in Order : order'[o].wait = order[o].wait /\ (o # job[b].order => order'[o] = order[o]),
         \A a \in Bartenders : a # b => \A k \in Bottle : bottle_lock'[k] = a <=> bottle_lock[k] = a,
         \A a \in Bartenders : a # b /\ bar_pc[a] = "pour" => doses'[job[a].bottle] = doses[job[a].bottle],
         BottlesOf(b)', GlassOf(b)'
  PROVE  /\ Places' /\ Work' /\ Gone' /\ \A d \in 0..NC : Phase(d) => Phase(d)'
         /\ \A d : Phase(d) => \A x \in Customers, i \in Slots :
              IF x = job[b].order THEN /\ Poured(x, i, d)' <=> Past(b, i)'
                                       /\ Poured(x, i, d) <=> Past(b, i)
              ELSE /\ Poured(x, i, d)' <=> Poured(x, i, d)
                   /\ order'[x] = order[x]
<1>. USE DEF BarIInv
<1>1. PICK g \in 0..NC : Phase(g)
  OBVIOUS
<1>2. /\ b \in Hands /\ job[b].order \in Lent /\ job[b].order \in Customers
      /\ \A a \in Hands : a # b => job[a].order # job[b].order
  BY <1>1, FillsADrink
<1>3. \A a \in Hands : a \in Bartenders /\ job[a].order \in Order
  BY HandsAre DEF BarTypeOK
<1>4. Places' /\ Work' /\ Hands' = Hands
  <2>1. /\ \A a \in Hands : a # b =>
             /\ order'[job[a].order].hold = order[job[a].order].hold
             /\ order'[job[a].order].requested = order[job[a].order].requested
             /\ order'[job[a].order].glass = order[job[a].order].glass
        /\ bar_pc[b] \in Busy /\ job'[b].order # GoHome
    BY <1>2, <1>3, Roles DEF Filling, Busy
  <2>2. Places' /\ Work' /\ Hands' = Hands \cup {b}
    BY <2>1, BartenderWork
  <2>. QED  BY <1>2, <2>2
<1>5. /\ bar_pc'[b] = q /\ \A u \in Customers \cup Bartenders : u # b => bar_pc'[u] = bar_pc[u]
      /\ \A c \in Customers : bar_pc'[c] = bar_pc[c]
  BY Moves, Roles
<1>6. Gone'
  BY GoneStays DEF Filling, Busy
<1>7. Lent' = Lent
  BY <1>5 DEF Lent
<1>8. \A a \in Hands : job'[a].order = job[a].order
  BY <1>3
<1>9. ASSUME NEW d \in 0..NC, Phase(d) PROVE Phase(d)'
  <2>1. PICK e \in 0..NC, s \in 0..NC : Drinking(e, d, s)
    BY <1>9, FillsADrink
  <2>2. Conserved(e, d)'
    BY <2>1, CountKept DEF Conserved, Drinking, Filling, Busy
  <2>3. Thirsty'
    BY <2>1, CountKept DEF Thirsty, Drinking, CustomerPlaces, Filling, Busy
  <2>4. Signals(d)'
    <3>1. \A c \in Lent : Served(c, d) => order'[c] = order[c]
      BY <1>2 DEF Served, Lent, Order
    <3>. QED  BY <1>4, <1>5, <1>7, <1>8, <2>1, <3>1, SignalsStay DEF Drinking, Lent
  <2>5. Cardinality(Where({"choose", "order", "enqueue"}))' = Cardinality(Where({"choose", "order", "enqueue"}))
    BY CountKept DEF Filling, Busy
  <2>6. Drinking(e, d, s)'
    BY <1>4, <1>7, <1>8, <2>1, <2>2, <2>3, <2>4, <2>5, DrinkingStays
  <2>. QED  BY <2>6 DEF Phase
<1>10. ASSUME NEW d, Phase(d), NEW x \in Customers, NEW i \in Slots
       PROVE  IF x = job[b].order THEN /\ Poured(x, i, d)' <=> Past(b, i)'
                                       /\ Poured(x, i, d) <=> Past(b, i)
              ELSE /\ Poured(x, i, d)' <=> Poured(x, i, d)
                   /\ order'[x] = order[x]
  <2>1. x \in Order /\ order'[x].wait = order[x].wait
    BY DEF Order
  <2>2. CASE x = job[b].order
    <3>1. x \in Lent /\ order[x].wait < d
      BY <1>10, <2>2, FillsADrink
    <3>2. Poured(x, i, d) <=> Past(b, i)
      BY <1>2, <2>2, <3>1 DEF Poured
    <3>3. \A a \in Hands : job'[a].order = x <=> a = b
      BY <1>2, <1>8, <2>2
    <3>4. Poured(x, i, d)' <=> Past(b, i)'
      BY <1>2, <1>4, <1>7, <2>1, <3>1, <3>3 DEF Poured
    <3>. QED  BY <2>2, <3>2, <3>4
  <2>3. CASE x # job[b].order
    <3>1. \A a \in Hands : a # b => (Past(a, i)' <=> Past(a, i))
      BY <1>3, <1>5 DEF Past
    <3>2. Poured(x, i, d)' <=> Poured(x, i, d)
      BY <1>4, <1>7, <1>8, <2>1, <2>3, <3>1, PouredSame
    <3>. QED  BY <2>1, <2>3, <3>2
  <2>. QED  BY <2>2, <2>3
<1>. QED  BY <1>4, <1>6, <1>9, <1>10

\* A bartender's loop indices keep their type.
JobInfo == [order : Order, i : 0..DRINK_COMPLEXITY, j : 1..DRINK_COMPLEXITY+1, bottle : 0..NBottles, read : Nat]

LEMMA JobTyped ==
  ASSUME BarTypeOK, NEW b \in Bartenders
  PROVE  /\ job \in [Bartenders -> JobInfo] /\ job[b] \in JobInfo
         /\ \A o \in Order : [job EXCEPT ![b].order = o] \in [Bartenders -> JobInfo]
         /\ \A x \in 0..DRINK_COMPLEXITY : [job EXCEPT ![b].i = x] \in [Bartenders -> JobInfo]
         /\ \A x \in 0..DRINK_COMPLEXITY, y \in 1..DRINK_COMPLEXITY+1 :
              [job EXCEPT ![b].i = x, ![b].j = y] \in [Bartenders -> JobInfo]
         /\ \A m \in 0..NBottles, v \in Nat :
              [job EXCEPT ![b].bottle = m, ![b].read = v] \in [Bartenders -> JobInfo]
<1>1. job \in [Bartenders -> JobInfo]
  BY DEF BarTypeOK, JobInfo
<1>2. \A r \in JobInfo : [job EXCEPT ![b] = r] \in [Bartenders -> JobInfo]
  BY <1>1
<1>3. job[b] \in JobInfo
  BY <1>1
<1>4. /\ \A o \in Order : [job[b] EXCEPT !.order = o] \in JobInfo
      /\ \A x \in 0..DRINK_COMPLEXITY : [job[b] EXCEPT !.i = x] \in JobInfo
      /\ \A x \in 0..DRINK_COMPLEXITY, y \in 1..DRINK_COMPLEXITY+1 :
           [job[b] EXCEPT !.i = x, !.j = y] \in JobInfo
      /\ \A m \in 0..NBottles, v \in Nat : [job[b] EXCEPT !.bottle = m, !.read = v] \in JobInfo
  BY <1>3 DEF JobInfo
<1>5. /\ \A o \in Order : [job EXCEPT ![b].order = o] \in [Bartenders -> JobInfo]
      /\ \A x \in 0..DRINK_COMPLEXITY : [job EXCEPT ![b].i = x] \in [Bartenders -> JobInfo]
  BY <1>2, <1>4
<1>6. ASSUME NEW x \in 0..DRINK_COMPLEXITY, NEW y \in 1..DRINK_COMPLEXITY+1
      PROVE  [job EXCEPT ![b].i = x, ![b].j = y] \in [Bartenders -> JobInfo]
  <2>1. [job EXCEPT ![b].i = x, ![b].j = y] = [job EXCEPT ![b] = [job[b] EXCEPT !.i = x, !.j = y]]
    BY <1>1
  <2>. QED  BY <1>2, <1>4, <2>1
<1>7. ASSUME NEW m \in 0..NBottles, NEW v \in Nat
      PROVE  [job EXCEPT ![b].bottle = m, ![b].read = v] \in [Bartenders -> JobInfo]
  <2>1. [job EXCEPT ![b].bottle = m, ![b].read = v] = [job EXCEPT ![b] = [job[b] EXCEPT !.bottle = m, !.read = v]]
    BY <1>1
  <2>. QED  BY <1>2, <1>4, <2>1
<1>. QED  BY <1>1, <1>3, <1>5, <1>6, <1>7

\* sort_requested_bottles.
LEMMA SortStep == ASSUME BarIInv, NEW b \in Bartenders, Sort(b) PROVE BarIInv'
<1>. USE DEF BarIInv, queueVars, poolVars, slotSems, homeVars, custVars
<1>. DEFINE o == job[b].order
<1>1. PICK d \in 0..NC : Phase(d) /\ Counts(d)
  OBVIOUS
<1>2. /\ bar_pc[b] = "sort" /\ Proceed(b, "bottles")
      /\ order' = [order EXCEPT ![o].requested = Sorted(order[o].requested)]
      /\ job' = [job EXCEPT ![b].i = 1, ![b].j = 1]
      /\ UNCHANGED <<queueVars, poolVars, slotSems, drink_count, bottle_lock, homeVars, doses, custVars>>
  BY DEF Sort
<1>3. o \in Order /\ o \in Customers
  BY <1>1, <1>2, FillsADrink DEF Filling, Order
<1>4. /\ \A a \in Bartenders : a # b => job'[a] = job[a]
      /\ job'[b].order = job[b].order /\ job'[b].i = 1 /\ job'[b].j = 1
      /\ \A x \in Order : order'[x].wait = order[x].wait /\ (x # o => order'[x] = order[x])
  BY <1>2, <1>3 DEF BarTypeOK
<1>5. bar_pc'[b] = "bottles"
  BY <1>2, Moves
<1>6. BottlesOf(b)' /\ GlassOf(b)'
  <2>1. 1..Noted(b) = {} /\ BottlesOf(b)
    BY <1>2 DEF Noted, Work
  <2>2. 1..Noted(b)' = {} /\ 1..Taken(b)' = {} /\ 1..Filled(b)' = {} /\ job'[b].j..job'[b].i-1 = {}
    BY <1>4, <1>5 DEF Noted, Taken, Filled
  <2>3. job'[b].i \in Slots /\ job'[b].j \in 1..job'[b].i
    BY <1>4 DEF Slots, DRINK_COMPLEXITY
  <2>4. \A k \in Bottle : bottle_lock'[k] # b
    BY <1>2, <2>1 DEF BottlesOf
  <2>. QED  BY <1>5, <2>2, <2>3, <2>4 DEF BottlesOf, GlassOf
<1>7. BarTypeOK'
  <2>1. order[o].requested \in Contents
    BY <1>3 DEF BarTypeOK, Contents
  <2>2. Sorted(order[o].requested) \in Contents
    BY <2>1, SortedTyped DEF Contents
  <2>3. order' \in [Order -> OrderInfo]
    BY <1>2, <1>3, <2>2, OrderTyped
  <2>4. job' \in [Bartenders -> JobInfo]
    <3>1. 1 \in 0..DRINK_COMPLEXITY /\ 1 \in 1..DRINK_COMPLEXITY+1
      BY DEF DRINK_COMPLEXITY
    <3>. QED  BY <1>2, <3>1, JobTyped
  <2>. QED  BY <1>2, <2>3, <2>4 DEF BarTypeOK, Proceed, OrderInfo, Contents, JobInfo
<1>8. /\ Places' /\ Work' /\ Gone' /\ Phase(d)'
      /\ \A x \in Customers, i \in Slots :
           IF x = o THEN (Poured(x, i, d)' <=> Past(b, i)') /\ (Poured(x, i, d) <=> Past(b, i))
           ELSE (Poured(x, i, d)' <=> Poured(x, i, d)) /\ order'[x] = order[x]
  BY <1>1, <1>2, <1>4, <1>6, FillingStep DEF Filling, Busy
<1>9. Counts(d)'
  <2>1. \A i \in Slots : ~Past(b, i) /\ ~Past(b, i)'
    BY <1>2, <1>4, <1>5 DEF Past, Slots, DRINK_COMPLEXITY
  <2>2. \A x \in Customers, i \in Slots, k \in Bottle :
           (Poured(x, i, d)' /\ order'[x].requested[i] = k) <=> (Poured(x, i, d) /\ order[x].requested[i] = k)
    BY <1>8, <2>1
  <2>. QED  BY <1>1, <1>2, <2>2, CountsSame
<1>. QED  BY <1>7, <1>8, <1>9

\* A turn of take_bottles: what the order notes and requests up to slot i is what the
\* bartender holds.
LEMMA TakesBottle ==
  ASSUME BarTypeOK, Work, NEW b \in Bartenders, TakeBottle(b), job[b].order \in Order
  PROVE  /\ BottlesOf(b)' /\ GlassOf(b)'
         /\ job[b].i \in Slots /\ job[b].j \in 1..job[b].i
         /\ \A a \in Bartenders : a # b => \A k \in Bottle : bottle_lock'[k] = a <=> bottle_lock[k] = a
<1>. DEFINE o == job[b].order
            i == job[b].i
            j == job[b].j
            req  == order[o].requested
            hold == order[o].hold
            want  == req[i]
            takes == Needed(req, i)
            H == order'[o].hold
            J == job'[b].j
<1>1. /\ bar_pc[b] = "bottles" /\ BottlesOf(b) /\ Noted(b) = j - 1 /\ Taken(b) = i - 1
      /\ i \in Slots /\ j \in 1..i /\ i \in 1..3 /\ j \in 1..3
  <2>1. bar_pc[b] = "bottles" /\ BottlesOf(b) /\ Noted(b) = j - 1 /\ Taken(b) = i - 1
    BY DEF TakeBottle, Noted, Taken, Work
  <2>2. i \in Slots /\ j \in 1..i
    BY <2>1 DEF BottlesOf
  <2>3. i \in 1..3 /\ j \in 1..3
    BY <2>2 DEF Slots, DRINK_COMPLEXITY
  <2>. QED  BY <2>1, <2>2, <2>3
<1>2. Slots = 1..3
  BY DEF Slots, DRINK_COMPLEXITY
<1>3. req \in [Slots -> 0..NBottles] /\ hold \in [Slots -> 0..NBottles] /\ NBottles \in Nat
  BY BarAssumption DEF BarTypeOK, BarAssumption
<1>4. /\ takes => want \in Bottle /\ bottle_lock[want] = NoThread
      /\ takes \in BOOLEAN
      /\ ~takes /\ want # 0 => i > 1 /\ want = req[i - 1]
  <2>1. want \in 0..NBottles
    BY <1>1, <1>3
  <2>2. takes => want # 0 /\ bottle_lock[want] = NoThread
    BY DEF TakeBottle, Needed
  <2>3. takes \in BOOLEAN
    BY DEF Needed
  <2>4. ~takes /\ want # 0 => i > 1 /\ want = req[i - 1]
    BY <1>1 DEF Needed
  <2>. QED  BY <1>3, <2>1, <2>2, <2>3, <2>4 DEF Bottle
<1>5. \A x \in Slots : H[x] = IF takes /\ x = j THEN want ELSE IF x = i THEN 0 ELSE hold[x]
  <2>1. order' = [order EXCEPT ![o].hold = IF takes THEN [Forget(hold, i) EXCEPT ![j] = want] ELSE Forget(hold, i)]
    BY DEF TakeBottle
  <2>2. H = IF takes THEN [Forget(hold, i) EXCEPT ![j] = want] ELSE Forget(hold, i)
    BY <2>1 DEF BarTypeOK
  <2>3. \A x \in Slots : Forget(hold, i)[x] = IF x = i THEN 0 ELSE hold[x]
    BY <1>1, <1>3 DEF Forget
  <2>4. \A x \in Slots : [Forget(hold, i) EXCEPT ![j] = want][x] = IF x = j THEN want ELSE Forget(hold, i)[x]
    BY <1>1, <1>2, <1>3 DEF Forget
  <2>. QED  BY <1>4, <2>2, <2>3, <2>4
<1>6. /\ J = IF takes THEN j + 1 ELSE j
      /\ job'[b].i = IF i = 3 THEN 1 ELSE i + 1
      /\ job'[b].order = o
      /\ order'[o].requested = req /\ order'[o].glass = order[o].glass
  <2>1. job' = [job EXCEPT ![b].i = IF i = DRINK_COMPLEXITY THEN 1 ELSE i + 1,
                           ![b].j = IF takes THEN j + 1 ELSE j]
    BY DEF TakeBottle
  <2>2. J = (IF takes THEN j + 1 ELSE j) /\ job'[b].i = (IF i = 3 THEN 1 ELSE i + 1) /\ job'[b].order = o
    BY <2>1 DEF BarTypeOK, DRINK_COMPLEXITY
  <2>3. order'[o].requested = req /\ order'[o].glass = order[o].glass
    BY DEF TakeBottle, BarTypeOK
  <2>. QED  BY <2>2, <2>3
<1>7. /\ \A k \in Bottle : bottle_lock'[k] = IF takes /\ k = want THEN b ELSE bottle_lock[k]
      /\ bar_pc'[b] = IF i = 3 THEN "mix" ELSE "bottles"
  <2>1. bar_pc'[b] = IF i = 3 THEN "mix" ELSE "bottles"
    BY DEF TakeBottle, Proceed, BarTypeOK, DRINK_COMPLEXITY
  <2>2. bottle_lock' = IF takes THEN [bottle_lock EXCEPT ![want] = b] ELSE bottle_lock
    BY DEF TakeBottle
  <2>. QED  BY <1>4, <2>1, <2>2 DEF BarTypeOK
<1>8. /\ \A x \in j..i-1 : hold[x] = 0
      /\ \A k \in Bottle : bottle_lock[k] = b <=> \E x \in 1..j-1 : hold[x] = k
      /\ \A x, y \in 1..j-1 : hold[x] = hold[y] /\ hold[x] # 0 => x = y
      /\ \A x \in 1..i-1 : req[x] # 0 => bottle_lock[req[x]] = b
  BY <1>1 DEF BottlesOf
<1>9. ASSUME NEW a \in Bartenders, a # b, NEW k \in Bottle PROVE bottle_lock'[k] = a <=> bottle_lock[k] = a
  BY <1>4, <1>7, <1>9, Roles
<1>10. 0 \notin Bottle /\ Bottle \subseteq Nat /\ b # NoThread
  BY <1>3, Roles DEF Bottle
<1>. HIDE DEF o, i, j, req, hold, want, takes, H, J
<1>11. \A x \in J..i : H[x] = 0
  <2>. SUFFICES ASSUME NEW x \in J..i PROVE H[x] = 0
    OBVIOUS
  <2>1. x \in Slots /\ (x = i \/ x \in j..i-1) /\ (takes => x # j)
    BY <1>1, <1>2, <1>4, <1>6
  <2>. QED  BY <1>4, <1>5, <1>8, <2>1
<1>12. \A x \in 1..j-1 : H[x] = hold[x]
  <2>. SUFFICES ASSUME NEW x \in 1..j-1 PROVE H[x] = hold[x]
    OBVIOUS
  <2>1. x \in Slots /\ x # j /\ x # i
    BY <1>1, <1>2
  <2>. QED  BY <1>5, <2>1
<1>13. takes => H[j] = want /\ J - 1 = j /\ 1..J-1 = (1..j-1) \cup {j}
  BY <1>1, <1>2, <1>5, <1>6
<1>14. ~takes => J = j
  BY <1>4, <1>6
<1>15. \A k \in Bottle : bottle_lock'[k] = b <=> \E x \in 1..J-1 : H[x] = k
  <2>. SUFFICES ASSUME NEW k \in Bottle PROVE bottle_lock'[k] = b <=> \E x \in 1..J-1 : H[x] = k
    OBVIOUS
  <2>1. CASE takes
    BY <1>7, <1>8, <1>12, <1>13, <2>1
  <2>2. CASE ~takes
    BY <1>7, <1>8, <1>12, <1>14, <2>2
  <2>. QED  BY <1>4, <2>1, <2>2
<1>16. \A x, y \in 1..J-1 : H[x] = H[y] /\ H[x] # 0 => x = y
  <2>1. CASE takes
    <3>1. \A x \in 1..j-1 : hold[x] # want
      <4>1. ~(bottle_lock[want] = b) /\ want \in Bottle
        BY <1>4, <1>10, <2>1
      <4>. QED  BY <1>8, <4>1
    <3>. QED  BY <1>8, <1>12, <1>13, <2>1, <3>1
  <2>2. CASE ~takes
    BY <1>8, <1>12, <1>14, <2>2
  <2>. QED  BY <1>4, <2>1, <2>2
<1>17. \A x \in 1..i : req[x] # 0 => bottle_lock'[req[x]] = b
  <2>. SUFFICES ASSUME NEW x \in 1..i, req[x] # 0 PROVE bottle_lock'[req[x]] = b
    OBVIOUS
  <2>0. req[x] \in Bottle
    <3>1. x \in Slots
      BY <1>1, <1>2
    <3>2. req[x] \in 0..NBottles
      BY <1>3, <3>1
    <3>. QED  BY <1>3, <3>2 DEF Bottle
  <2>1. x \in 1..i-1 \/ x = i
    BY <1>1
  <2>2. CASE x \in 1..i-1
    BY <1>7, <1>8, <2>0, <2>2
  <2>3. CASE x = i /\ takes
    BY <1>7, <2>0, <2>3 DEF want
  <2>4. CASE x = i /\ ~takes
    <3>1. i > 1 /\ req[x] = req[i - 1] /\ i - 1 \in 1..i-1
      BY <1>1, <1>4, <2>4 DEF want
    <3>2. bottle_lock[req[x]] = b
      BY <1>8, <3>1
    <3>. QED  BY <1>7, <2>0, <2>4, <3>2
  <2>. QED  BY <1>4, <2>1, <2>2, <2>3, <2>4
<1>18. J \in 1..i+1 /\ (i = 3 => (1..3) = (1..J-1) \cup (J..i))
  BY <1>1, <1>4, <1>6
<1>19. BottlesOf(b)'
  <2>0. H = order'[job'[b].order].hold /\ req = order'[job'[b].order].requested /\ J = job'[b].j
    BY <1>6 DEF H, req, o, J
  <2>1. CASE i = 3
    <3>1. bar_pc'[b] = "mix" /\ job'[b].i = 1 /\ Noted(b)' = 3 /\ Taken(b)' = 3
      BY <1>6, <1>7, <2>1 DEF Noted, Taken, DRINK_COMPLEXITY
    <3>2. \A k \in Bottle : bottle_lock'[k] = b <=> \E x \in 1..3 : H[x] = k
      BY <1>10, <1>11, <1>15, <1>18, <2>1
    <3>3. \A x, y \in 1..3 : H[x] = H[y] /\ H[x] # 0 => x = y
      BY <1>11, <1>16, <1>18, <2>1
    <3>4. job'[b].i \in Slots
      BY <1>2, <3>1
    <3>. QED  BY <1>17, <2>0, <2>1, <3>1, <3>2, <3>3, <3>4 DEF BottlesOf
  <2>2. CASE i # 3
    <3>1. bar_pc'[b] = "bottles" /\ job'[b].i = i + 1 /\ Noted(b)' = J - 1 /\ Taken(b)' = i
      <4>1. bar_pc'[b] = "bottles" /\ job'[b].i = i + 1
        BY <1>6, <1>7, <2>2
      <4>2. Noted(b)' = job'[b].j - 1 /\ Taken(b)' = job'[b].i - 1
        BY <4>1 DEF Noted, Taken
      <4>3. i + 1 - 1 = i
        BY <1>1
      <4>4. Noted(b)' = J - 1
        BY <4>2 DEF J
      <4>5. Taken(b)' = i
        BY <1>1, <4>1, <4>2, <4>3
      <4>. QED  BY <4>1, <4>4, <4>5
    <3>2. job'[b].i \in Slots /\ J \in 1..job'[b].i /\ job'[b].i - 1 = i
      BY <1>1, <1>2, <1>18, <2>2, <3>1
    <3>. QED  BY <1>11, <1>15, <1>16, <1>17, <2>0, <3>1, <3>2 DEF BottlesOf
  <2>. QED  BY <2>1, <2>2
<1>20. GlassOf(b)'
  <2>1. bar_pc'[b] # "pour" /\ 1..Filled(b)' = {}
    BY <1>1, <1>6, <1>7 DEF Filled
  <2>. QED  BY <2>1 DEF GlassOf
<1>21. i \in Slots /\ j \in 1..i
  BY <1>1
<1>. QED  BY <1>9, <1>19, <1>20, <1>21 DEF i, j

\* take_bottles, one turn.
LEMMA TakeBottleStep == ASSUME BarIInv, NEW b \in Bartenders, TakeBottle(b) PROVE BarIInv'
<1>. USE DEF BarIInv, queueVars, poolVars, slotSems, homeVars, custVars
<1>. DEFINE o == job[b].order
            i == job[b].i
            q == IF i = DRINK_COMPLEXITY THEN "mix" ELSE "bottles"
            takes == Needed(order[o].requested, i)
            h == IF takes THEN [Forget(order[o].hold, i) EXCEPT ![job[b].j] = order[o].requested[i]]
                 ELSE Forget(order[o].hold, i)
            I == IF i = DRINK_COMPLEXITY THEN 1 ELSE i + 1
            J == IF takes THEN job[b].j + 1 ELSE job[b].j
<1>1. PICK d \in 0..NC : Phase(d) /\ Counts(d)
  OBVIOUS
<1>2. /\ bar_pc[b] = "bottles" /\ Proceed(b, q)
      /\ order' = [order EXCEPT ![o].hold = h]
      /\ job' = [job EXCEPT ![b].i = I, ![b].j = J]
      /\ bottle_lock' = IF takes THEN [bottle_lock EXCEPT ![order[o].requested[i]] = b] ELSE bottle_lock
      /\ UNCHANGED <<queueVars, poolVars, slotSems, drink_count, homeVars, doses, custVars>>
  BY DEF TakeBottle
<1>3. o \in Order /\ o \in Customers
  BY <1>1, <1>2, FillsADrink DEF Filling, Order
<1>4. /\ \A a \in Bartenders : a # b => job'[a] = job[a]
      /\ job'[b].order = job[b].order /\ job'[b].i = I
      /\ \A x \in Order : /\ order'[x].wait = order[x].wait /\ (x # o => order'[x] = order[x])
                          /\ order'[x].requested = order[x].requested
  <2>. HIDE DEF h, I, J
  <2>1. /\ \A a \in Bartenders : a # b => job'[a] = job[a]
        /\ job'[b].order = job[b].order /\ job'[b].i = I
    BY <1>2 DEF BarTypeOK
  <2>2. \A x \in Order : /\ order'[x].wait = order[x].wait /\ (x # o => order'[x] = order[x])
                         /\ order'[x].requested = order[x].requested
    BY <1>2, <1>3 DEF BarTypeOK
  <2>. QED  BY <2>1, <2>2
<1>5. /\ BottlesOf(b)' /\ GlassOf(b)' /\ i \in Slots /\ job[b].j \in 1..i
      /\ \A a \in Bartenders : a # b => \A k \in Bottle : bottle_lock'[k] = a <=> bottle_lock[k] = a
  BY <1>3, TakesBottle
<1>6. BarTypeOK'
  <2>1. order[o].requested \in Contents /\ order[o].hold \in Contents /\ i \in 1..3 /\ job[b].j \in 1..i
    BY <1>3, <1>5 DEF BarTypeOK, Contents, Slots, DRINK_COMPLEXITY
  <2>2. h \in Contents
    <3>1. order[o].requested[i] \in 0..NBottles /\ 0 \in 0..NBottles
      BY <1>5, <2>1, BarAssumption DEF Contents, BarAssumption
    <3>2. Forget(order[o].hold, i) \in Contents
      BY <2>1, <3>1 DEF Contents, Forget
    <3>3. [Forget(order[o].hold, i) EXCEPT ![job[b].j] = order[o].requested[i]] \in Contents
      BY <3>1, <3>2 DEF Contents
    <3>. QED  BY <3>2, <3>3
  <2>3. order' \in [Order -> OrderInfo]
    BY <1>2, <1>3, <2>2, OrderTyped
  <2>4. I \in 0..DRINK_COMPLEXITY /\ J \in 1..DRINK_COMPLEXITY+1
    BY <2>1 DEF DRINK_COMPLEXITY
  <2>5. job' \in [Bartenders -> JobInfo]
    BY <1>2, <2>4, JobTyped
  <2>6. bottle_lock' \in [Bottle -> Bartenders \cup {NoThread}]
    BY <1>2 DEF BarTypeOK
  <2>7. q \in {"mix", "bottles"}
    OBVIOUS
  <2>. HIDE DEF q
  <2>8. bar_pc' \in [Customers \cup Bartenders -> {"choose", "order", "enqueue", "announce", "wait",
         "drink", "home", "leave", "gone", "take", "dequeue", "free", "sort", "bottles", "mix",
         "pour", "return", "serve"}]
    BY <1>2, <2>7 DEF BarTypeOK, Proceed
  <2>. QED  BY <1>2, <2>3, <2>5, <2>6, <2>8 DEF BarTypeOK, OrderInfo, Contents, JobInfo
<1>7. /\ Places' /\ Work' /\ Gone' /\ Phase(d)'
      /\ \A x \in Customers, y \in Slots :
           IF x = o THEN (Poured(x, y, d)' <=> Past(b, y)') /\ (Poured(x, y, d) <=> Past(b, y))
           ELSE (Poured(x, y, d)' <=> Poured(x, y, d)) /\ order'[x] = order[x]
  <2>1. q \in Busy \ {"free"} /\ bar_pc[b] \in Filling
    BY <1>2 DEF Busy, Filling
  <2>. HIDE DEF q
  <2>. QED  BY <1>1, <1>2, <1>4, <1>5, <2>1, FillingStep
<1>8. Counts(d)'
  <2>1. \A y \in Slots : ~Past(b, y) /\ ~Past(b, y)'
    <3>1. bar_pc'[b] = q /\ (q = "mix" => job'[b].i = 1)
      BY <1>2, <1>4, Moves
    <3>. QED  BY <1>2, <3>1 DEF Past, Slots, DRINK_COMPLEXITY
  <2>2. \A x \in Customers, y \in Slots, k \in Bottle :
           (Poured(x, y, d)' /\ order'[x].requested[y] = k) <=> (Poured(x, y, d) /\ order[x].requested[y] = k)
    BY <1>7, <2>1
  <2>. QED  BY <1>1, <1>2, <2>2, CountsSame
<1>. QED  BY <1>6, <1>7, <1>8

\* After a slot is done: the next one, or return_bottles.
AfterPlace(b) == IF job[b].i = DRINK_COMPLEXITY THEN "return" ELSE "mix"
AfterSlot(b)  == IF job[b].i = DRINK_COMPLEXITY THEN job[b].i ELSE job[b].i + 1

LEMMA AfterServes ==
  ASSUME BarTypeOK, NEW b \in Bartenders, AfterServing(b)
  PROVE  /\ Proceed(b, AfterPlace(b)) /\ job' = [job EXCEPT ![b].i = AfterSlot(b)]
         /\ bar_pc'[b] = AfterPlace(b) /\ job'[b].i = AfterSlot(b)
         /\ job'[b].order = job[b].order
         /\ \A a \in Bartenders : a # b => job'[a] = job[a]
<1>1. Proceed(b, AfterPlace(b)) /\ job' = [job EXCEPT ![b].i = AfterSlot(b)]
  <2>1. CASE job[b].i = DRINK_COMPLEXITY
    <3>1. job = [job EXCEPT ![b].i = job[b].i]
      BY DEF BarTypeOK
    <3>. QED  BY <2>1, <3>1 DEF AfterServing, AfterPlace, AfterSlot
  <2>2. CASE job[b].i # DRINK_COMPLEXITY
    BY <2>2 DEF AfterServing, AfterPlace, AfterSlot
  <2>. QED  BY <2>1, <2>2
<1>2. bar_pc'[b] = AfterPlace(b)
  BY <1>1, Moves
<1>3. /\ job'[b].i = AfterSlot(b) /\ job'[b].order = job[b].order
      /\ \A a \in Bartenders : a # b => job'[a] = job[a]
  BY <1>1 DEF BarTypeOK
<1>. QED  BY <1>1, <1>2, <1>3

\* Mixing and pouring keep the bottles.
LEMMA KeepsBottles ==
  ASSUME NEW b \in Bartenders, BottlesOf(b), job[b].order \in Order,
         bar_pc[b] \in {"mix", "pour"}, bar_pc'[b] \in {"mix", "pour", "return"},
         job'[b].i \in Slots, bar_pc'[b] = "return" => job'[b].i = DRINK_COMPLEXITY,
         job'[b].order = job[b].order,
         order'[job[b].order].hold = order[job[b].order].hold,
         order'[job[b].order].requested = order[job[b].order].requested,
         bottle_lock' = bottle_lock
  PROVE  BottlesOf(b)'
<1>1. Noted(b) = DRINK_COMPLEXITY /\ Noted(b)' = DRINK_COMPLEXITY /\ Taken(b) = DRINK_COMPLEXITY
  BY DEF Noted, Taken
<1>2. Taken(b)' = DRINK_COMPLEXITY \/ 1..Taken(b)' = {}
  BY DEF Taken
<1>. QED  BY <1>1, <1>2 DEF BottlesOf

\* The slots past after a slot is done are those before and that one.
LEMMA PastNext ==
  ASSUME BarTypeOK, NEW b \in Bartenders, bar_pc[b] \in {"mix", "pour"}, AfterServing(b), job[b].i \in Slots
  PROVE  /\ \A x \in Slots : Past(b, x)' <=> (Past(b, x) \/ x = job[b].i)
         /\ ~Past(b, job[b].i)
         /\ AfterSlot(b) \in Slots /\ (AfterPlace(b) = "return" => AfterSlot(b) = DRINK_COMPLEXITY)
         /\ \A x \in 1..Filled(b)' : x \in 1..job[b].i
<1>1. /\ bar_pc'[b] = AfterPlace(b) /\ job'[b].i = AfterSlot(b)
  BY AfterServes
<1>2. job[b].i \in 1..3 /\ Slots = 1..3
  BY DEF Slots, DRINK_COMPLEXITY
<1>3. CASE job[b].i = 3
  <2>1. bar_pc'[b] = "return" /\ Filled(b)' = 3 /\ AfterSlot(b) = 3
    BY <1>1, <1>3 DEF AfterPlace, AfterSlot, Filled, DRINK_COMPLEXITY
  <2>. QED  BY <1>1, <1>2, <1>3, <2>1 DEF Past, DRINK_COMPLEXITY
<1>4. CASE job[b].i # 3
  <2>1. bar_pc'[b] = "mix" /\ job'[b].i = job[b].i + 1 /\ AfterSlot(b) = job[b].i + 1 /\ AfterPlace(b) = "mix"
    BY <1>1, <1>4 DEF AfterPlace, AfterSlot, DRINK_COMPLEXITY
  <2>2. Filled(b)' = job'[b].i - 1
    BY <2>1 DEF Filled
  <2>3. Filled(b)' = job[b].i
    BY <1>2, <2>1, <2>2
  <2>. QED  BY <1>2, <1>4, <2>1, <2>3 DEF Past
<1>. QED  BY <1>3, <1>4

\* mix, one turn: the glass gets what is requested, which has been read for its bottle.
LEMMA MixStep == ASSUME BarIInv, NEW b \in Bartenders, Mix(b) PROVE BarIInv'
<1>. USE DEF BarIInv, queueVars, poolVars, slotSems, homeVars, custVars
<1>. DEFINE o == job[b].order
            i == job[b].i
            k == order[o].requested[i]
<1>1. PICK d \in 0..NC : Phase(d) /\ Counts(d)
  OBVIOUS
<1>2. /\ bar_pc[b] = "mix"
      /\ order' = [order EXCEPT ![o].glass[i] = k]
      /\ k = 0 => AfterServing(b)
      /\ k # 0 => job' = [job EXCEPT ![b].bottle = k, ![b].read = doses[k]] /\ Proceed(b, "pour")
      /\ UNCHANGED <<queueVars, poolVars, slotSems, drink_count, bottle_lock, homeVars, doses, custVars>>
  BY DEF Mix
<1>3. o \in Order /\ o \in Customers /\ b \in Hands
  BY <1>1, <1>2, FillsADrink DEF Filling, Order
<1>4. BottlesOf(b) /\ GlassOf(b) /\ i \in Slots /\ i \in 1..3
  BY <1>2 DEF Work, BottlesOf, Slots, DRINK_COMPLEXITY
<1>5. order[o].requested \in Contents /\ order[o].glass \in Contents /\ k \in 0..NBottles /\ NBottles \in Nat
  <2>1. order[o].requested \in Contents /\ order[o].glass \in Contents
    BY <1>3 DEF BarTypeOK, Contents
  <2>. QED  BY <1>4, <2>1, BarAssumption DEF Contents, BarAssumption
<1>. DEFINE g == [order[o].glass EXCEPT ![i] = k]
<1>6. g \in Contents /\ order' = [order EXCEPT ![o].glass = g]
  BY <1>2, <1>3, <1>5 DEF Contents, BarTypeOK
<1>7. /\ \A x \in Order : /\ order'[x].wait = order[x].wait /\ (x # o => order'[x] = order[x])
                          /\ order'[x].requested = order[x].requested /\ order'[x].hold = order[x].hold
      /\ order'[o].glass = g
  <2>. HIDE DEF g
  <2>. QED  BY <1>3, <1>6 DEF BarTypeOK
<1>8. \A x \in 1..i : g[x] = order[o].requested[x]
  <2>1. \A x \in 1..i : x \in Slots /\ (x = i \/ x \in 1..i-1)
    BY <1>4 DEF Slots, DRINK_COMPLEXITY
  <2>2. \A x \in 1..i-1 : order[o].glass[x] = order[o].requested[x]
    BY <1>2, <1>3, <1>4, Roles DEF GlassOf, Filled
  <2>. QED  BY <1>5, <2>1, <2>2 DEF Contents
<1>9. PICK q \in {"mix", "return", "pour"} :
        /\ Proceed(b, q) /\ bar_pc'[b] = q /\ (k # 0 <=> q = "pour")
        /\ job'[b].order = o /\ \A a \in Bartenders : a # b => job'[a] = job[a]
        /\ job'[b].i \in Slots /\ (q = "return" => job'[b].i = DRINK_COMPLEXITY)
        /\ \A x \in 1..Filled(b)' : x \in 1..i
        /\ \A x \in Slots : (Past(b, x)' /\ order[o].requested[x] # 0) <=> (Past(b, x) /\ order[o].requested[x] # 0)
        /\ job' \in [Bartenders -> JobInfo]
  <2>1. CASE k = 0
    <3>1. AfterPlace(b) \in {"mix", "return", "pour"} /\ AfterPlace(b) # "pour"
      BY DEF AfterPlace
    <3>2. /\ \A x \in Slots : Past(b, x)' <=> (Past(b, x) \/ x = i)
          /\ AfterSlot(b) \in Slots /\ (AfterPlace(b) = "return" => AfterSlot(b) = DRINK_COMPLEXITY)
          /\ \A x \in 1..Filled(b)' : x \in 1..i
      BY <1>2, <1>4, <2>1, PastNext
    <3>3. \A x \in Slots : (Past(b, x)' /\ order[o].requested[x] # 0) <=> (Past(b, x) /\ order[o].requested[x] # 0)
      BY <2>1, <3>2
    <3>4. job' \in [Bartenders -> JobInfo]
      <4>1. AfterSlot(b) \in 0..DRINK_COMPLEXITY
        BY <3>2 DEF Slots, DRINK_COMPLEXITY
      <4>. QED  BY <1>2, <2>1, <4>1, AfterServes, JobTyped
    <3>. QED  BY <1>2, <2>1, <3>1, <3>2, <3>3, <3>4, AfterServes
  <2>2. CASE k # 0
    <3>1. /\ job' = [job EXCEPT ![b].bottle = k, ![b].read = doses[k]] /\ Proceed(b, "pour")
          /\ k \in Bottle /\ doses[k] \in Nat /\ bar_pc'[b] = "pour"
      <4>1. job' = [job EXCEPT ![b].bottle = k, ![b].read = doses[k]] /\ Proceed(b, "pour")
        BY <1>2, <2>2
      <4>2. k \in Bottle
        BY <1>5, <2>2 DEF Bottle
      <4>3. doses[k] \in Nat
        BY <4>2 DEF BarTypeOK
      <4>4. bar_pc'[b] = "pour"
        BY <4>1, Moves
      <4>. QED  BY <4>1, <4>2, <4>3, <4>4
    <3>2. job' \in [Bartenders -> JobInfo]
      BY <1>5, <3>1, JobTyped
    <3>3. job'[b].order = o /\ job'[b].i = i /\ \A a \in Bartenders : a # b => job'[a] = job[a]
      BY <3>1 DEF BarTypeOK
    <3>4. Filled(b)' = i /\ \A x \in Slots : Past(b, x)' <=> Past(b, x)
      BY <1>2, <3>1, <3>3 DEF Filled, Past
    <3>. QED  BY <1>4, <2>2, <3>1, <3>2, <3>3, <3>4
  <2>. QED  BY <2>1, <2>2
<1>10. BottlesOf(b)'
  BY <1>2, <1>3, <1>4, <1>7, <1>9, KeepsBottles
<1>11. GlassOf(b)'
  <2>1. \A x \in 1..Filled(b)' : order'[o].glass[x] = order'[o].requested[x]
    BY <1>3, <1>7, <1>8, <1>9
  <2>2. q = "pour" => /\ job'[b].bottle = order'[o].requested[job'[b].i]
                      /\ job'[b].bottle # 0 /\ job'[b].read = doses'[job'[b].bottle]
    <3>. SUFFICES ASSUME q = "pour"
         PROVE  /\ job'[b].bottle = order'[o].requested[job'[b].i]
                /\ job'[b].bottle # 0 /\ job'[b].read = doses'[job'[b].bottle]
      OBVIOUS
    <3>1. job' = [job EXCEPT ![b].bottle = k, ![b].read = doses[k]] /\ k # 0
      BY <1>2, <1>9
    <3>2. job'[b].bottle = k /\ job'[b].read = doses[k] /\ job'[b].i = i
      BY <3>1 DEF BarTypeOK
    <3>. QED  BY <1>2, <1>3, <1>7, <3>1, <3>2
  <2>. QED  BY <1>9, <2>1, <2>2 DEF GlassOf
<1>12. BarTypeOK'
  <2>1. order' \in [Order -> OrderInfo]
    BY <1>3, <1>6, OrderTyped
  <2>2. bar_pc' \in [Customers \cup Bartenders -> {"choose", "order", "enqueue", "announce", "wait",
         "drink", "home", "leave", "gone", "take", "dequeue", "free", "sort", "bottles", "mix",
         "pour", "return", "serve"}]
    BY <1>9 DEF BarTypeOK, Proceed
  <2>. QED  BY <1>2, <1>9, <2>1, <2>2 DEF BarTypeOK, OrderInfo, Contents, JobInfo
<1>13. /\ Places' /\ Work' /\ Gone' /\ Phase(d)'
       /\ \A x \in Customers, y \in Slots :
            IF x = o THEN (Poured(x, y, d)' <=> Past(b, y)') /\ (Poured(x, y, d) <=> Past(b, y))
            ELSE (Poured(x, y, d)' <=> Poured(x, y, d)) /\ order'[x] = order[x]
  <2>1. q \in Busy \ {"free"} /\ bar_pc[b] \in Filling /\ Proceed(b, q)
    BY <1>2, <1>9 DEF Busy, Filling
  <2>2. /\ \A a \in Bartenders : a # b => job'[a] = job[a]
        /\ job'[b].order = job[b].order
        /\ \A x \in Order : order'[x].wait = order[x].wait /\ (x # o => order'[x] = order[x])
    BY <1>7, <1>9
  <2>. HIDE DEF k, g
  <2>. QED  BY <1>1, <1>2, <1>10, <1>11, <2>1, <2>2, FillingStep
<1>14. Counts(d)'
  <2>1. \A x \in Customers, y \in Slots, m \in Bottle :
           (Poured(x, y, d)' /\ order'[x].requested[y] = m) <=> (Poured(x, y, d) /\ order[x].requested[y] = m)
    <3>. SUFFICES ASSUME NEW x \in Customers, NEW y \in Slots, NEW m \in Bottle
         PROVE (Poured(x, y, d)' /\ order'[x].requested[y] = m) <=> (Poured(x, y, d) /\ order[x].requested[y] = m)
      OBVIOUS
    <3>1. m # 0
      BY <1>5 DEF Bottle
    <3>2. CASE x = o
      BY <1>3, <1>7, <1>9, <1>13, <3>1, <3>2
    <3>3. CASE x # o
      BY <1>13, <3>3
    <3>. QED  BY <3>2, <3>3
  <2>. QED  BY <1>1, <1>2, <2>1, CountsSame
<1>. QED  BY <1>12, <1>13, <1>14

\* A bartender pours from bottles it has locked: two pour from two bottles.
LEMMA PoursItsOwn ==
  ASSUME BarTypeOK, NEW b \in Bartenders, BottlesOf(b), GlassOf(b), bar_pc[b] = "pour"
  PROVE  /\ job[b].bottle \in Bottle /\ bottle_lock[job[b].bottle] = b
         /\ job[b].bottle = order[job[b].order].requested[job[b].i]
         /\ job[b].read = doses[job[b].bottle]
         /\ job[b].i \in Slots
<1>1. job[b].i \in Slots /\ 1..Taken(b) = Slots
  BY DEF BottlesOf, Taken, Slots
<1>2. /\ job[b].bottle = order[job[b].order].requested[job[b].i]
      /\ job[b].bottle # 0 /\ job[b].read = doses[job[b].bottle]
  BY DEF GlassOf
<1>3. job[b].bottle \in Bottle
  <2>1. job[b].bottle \in 0..NBottles
    BY DEF BarTypeOK
  <2>2. NBottles \in Nat
    BY BarAssumption DEF BarAssumption
  <2>. QED  BY <1>2, <2>1, <2>2 DEF Bottle
<1>4. bottle_lock[job[b].bottle] = b
  BY <1>1, <1>2 DEF BottlesOf
<1>. QED  BY <1>1, <1>2, <1>3, <1>4

\* mix: the doses are written back, one up.
LEMMA PourStep == ASSUME BarIInv, NEW b \in Bartenders, Pour(b) PROVE BarIInv'
<1>. USE DEF BarIInv, queueVars, poolVars, slotSems, homeVars, custVars
<1>. DEFINE o == job[b].order
            i == job[b].i
            m == job[b].bottle
<1>1. PICK d \in 0..NC : Phase(d) /\ Counts(d)
  OBVIOUS
<1>2. /\ bar_pc[b] = "pour" /\ AfterServing(b)
      /\ doses' = [doses EXCEPT ![m] = job[b].read + 1]
      /\ UNCHANGED <<queueVars, poolVars, slotSems, drink_count, bottle_lock, order, homeVars, custVars>>
  BY DEF Pour
<1>3. o \in Order /\ o \in Customers /\ b \in Hands
  BY <1>1, <1>2, FillsADrink DEF Filling, Order
<1>4. /\ BottlesOf(b) /\ GlassOf(b) /\ i \in Slots
      /\ m \in Bottle /\ bottle_lock[m] = b /\ m = order[o].requested[i] /\ job[b].read = doses[m]
  BY <1>2, PoursItsOwn DEF Work
<1>5. \A a \in Bartenders : a # b /\ bar_pc[a] = "pour" => doses'[job[a].bottle] = doses[job[a].bottle]
  <2>. SUFFICES ASSUME NEW a \in Bartenders, a # b, bar_pc[a] = "pour"
       PROVE doses'[job[a].bottle] = doses[job[a].bottle]
    OBVIOUS
  <2>1. job[a].bottle \in Bottle /\ bottle_lock[job[a].bottle] = a
    BY PoursItsOwn DEF Work
  <2>2. job[a].bottle # m
    BY <1>4, <2>1
  <2>. QED  BY <1>2, <2>1, <2>2 DEF BarTypeOK
<1>6. /\ Proceed(b, AfterPlace(b)) /\ job' = [job EXCEPT ![b].i = AfterSlot(b)]
      /\ bar_pc'[b] = AfterPlace(b) /\ job'[b].i = AfterSlot(b)
      /\ job'[b].order = job[b].order
      /\ \A a \in Bartenders : a # b => job'[a] = job[a]
  BY <1>2, AfterServes
<1>7. /\ \A x \in Slots : Past(b, x)' <=> (Past(b, x) \/ x = i)
      /\ ~Past(b, i)
      /\ AfterSlot(b) \in Slots /\ (AfterPlace(b) = "return" => AfterSlot(b) = DRINK_COMPLEXITY)
      /\ \A x \in 1..Filled(b)' : x \in 1..i
  BY <1>2, <1>4, PastNext
<1>8. AfterPlace(b) \in {"mix", "return"}
  BY DEF AfterPlace
<1>9. BottlesOf(b)'
  BY <1>2, <1>3, <1>4, <1>6, <1>7, <1>8, KeepsBottles
<1>10. GlassOf(b)'
  <2>1. \A x \in 1..i : order[o].glass[x] = order[o].requested[x]
    BY <1>2, <1>3, <1>4, Roles DEF GlassOf, Filled
  <2>. QED  BY <1>2, <1>6, <1>7, <1>8, <2>1 DEF GlassOf
<1>11. BarTypeOK'
  <2>0. doses[m] \in Nat
    BY <1>4 DEF BarTypeOK
  <2>1. job[b].read + 1 \in Nat
    BY <1>4, <2>0
  <2>2. doses' \in [Bottle -> Nat]
    BY <1>2, <2>1 DEF BarTypeOK
  <2>3. AfterSlot(b) \in 0..DRINK_COMPLEXITY
    BY <1>7 DEF Slots, DRINK_COMPLEXITY
  <2>4. job' \in [Bartenders -> JobInfo]
    BY <1>6, <2>3, JobTyped
  <2>5. bar_pc' \in [Customers \cup Bartenders -> {"choose", "order", "enqueue", "announce", "wait",
         "drink", "home", "leave", "gone", "take", "dequeue", "free", "sort", "bottles", "mix",
         "pour", "return", "serve"}]
    BY <1>6, <1>8 DEF BarTypeOK, Proceed
  <2>. QED  BY <1>2, <2>2, <2>4, <2>5 DEF BarTypeOK, JobInfo
<1>12. /\ Places' /\ Work' /\ Gone' /\ Phase(d)'
       /\ \A x \in Customers, y \in Slots :
            IF x = o THEN (Poured(x, y, d)' <=> Past(b, y)') /\ (Poured(x, y, d) <=> Past(b, y))
            ELSE (Poured(x, y, d)' <=> Poured(x, y, d)) /\ order'[x] = order[x]
  <2>1. AfterPlace(b) \in Busy \ {"free"} /\ bar_pc[b] \in Filling /\ Proceed(b, AfterPlace(b))
    BY <1>2, <1>6, <1>8 DEF Busy, Filling
  <2>2. /\ \A a \in Bartenders : a # b => job'[a] = job[a]
        /\ job'[b].order = job[b].order
        /\ \A x \in Order : order'[x].wait = order[x].wait /\ (x # o => order'[x] = order[x])
    BY <1>2, <1>6
  <2>. QED  BY <1>1, <1>2, <1>5, <1>9, <1>10, <2>1, <2>2, FillingStep
<1>13. Counts(d)'
  <2>1. PICK c0 \in Customers, y0 \in Slots, m0 \in Bottle : c0 = o /\ y0 = i /\ m0 = m
    BY <1>3, <1>4
  <2>. HIDE DEF o, i, m
  <2>2. (Poured(c0, y0, d)' <=> Past(b, y0)') /\ (Poured(c0, y0, d) <=> Past(b, y0))
    BY <1>12, <2>1
  <2>3. ~Past(b, y0) /\ Past(b, y0)'
    BY <1>7, <2>1
  <2>4. order'[c0].requested[y0] = m0
    BY <1>2, <1>4, <2>1
  <2>5. \A c \in Customers, y \in Slots, k \in Bottle : ~(c = c0 /\ y = y0) =>
           ((Poured(c, y, d)' /\ order'[c].requested[y] = k) <=> (Poured(c, y, d) /\ order[c].requested[y] = k))
    BY <1>2, <1>7, <1>12, <2>1
  <2>6. \A k \in Bottle : doses'[k] = IF k = m0 THEN doses[k] + 1 ELSE doses[k]
    BY <1>2, <1>4, <2>1 DEF BarTypeOK
  <2>7. ~Poured(c0, y0, d) /\ Poured(c0, y0, d)'
    BY <2>2, <2>3
  <2>8. Counts(d)
    BY <1>1
  <2>. QED  BY <2>4, <2>5, <2>6, <2>7, <2>8, CountsUp
<1>. QED  BY <1>11, <1>12, <1>13

\* return_bottles, one turn: the bottle noted last is the bartender's, and then only
\* those noted before are.
LEMMA ReturnBottleStep == ASSUME BarIInv, NEW b \in Bartenders, ReturnBottle(b) PROVE BarIInv'
<1>. USE DEF BarIInv, queueVars, poolVars, slotSems, homeVars, custVars
<1>. DEFINE o == job[b].order
            i == job[b].i
            held == order[o].hold[i]
            q == IF i = 1 THEN "serve" ELSE "return"
<1>1. PICK d \in 0..NC : Phase(d) /\ Counts(d)
  OBVIOUS
<1>2. /\ bar_pc[b] = "return" /\ Proceed(b, q)
      /\ bottle_lock' = IF held = 0 THEN bottle_lock ELSE [bottle_lock EXCEPT ![held] = NoThread]
      /\ job' = [job EXCEPT ![b].i = i - 1]
      /\ UNCHANGED <<queueVars, poolVars, slotSems, drink_count, order, homeVars, doses, custVars>>
  BY DEF ReturnBottle
<1>3. o \in Order /\ o \in Customers /\ b \in Hands
  BY <1>1, <1>2, FillsADrink DEF Filling, Order
<1>4. BottlesOf(b) /\ GlassOf(b) /\ i \in Slots /\ i \in 1..3 /\ Noted(b) = i
  BY <1>2 DEF Work, BottlesOf, Slots, DRINK_COMPLEXITY, Noted
<1>5. held \in 0..NBottles /\ NBottles \in Nat /\ 0 \notin Bottle /\ (held # 0 => held \in Bottle)
  <2>1. order[o].hold \in [Slots -> 0..NBottles]
    BY <1>3 DEF BarTypeOK
  <2>2. held \in 0..NBottles
    BY <1>4, <2>1
  <2>. QED  BY <2>2, BarAssumption DEF BarAssumption, Bottle
<1>6. /\ \A k \in Bottle : bottle_lock[k] = b <=> \E x \in 1..i : order[o].hold[x] = k
      /\ \A x, y \in 1..i : order[o].hold[x] = order[o].hold[y] /\ order[o].hold[x] # 0 => x = y
  BY <1>4 DEF BottlesOf
<1>7. held # 0 => bottle_lock[held] = b
  BY <1>4, <1>5, <1>6
<1>8. \A k \in Bottle : bottle_lock'[k] = IF k = held THEN NoThread ELSE bottle_lock[k]
  BY <1>2, <1>5 DEF BarTypeOK
<1>9. \A a \in Bartenders : a # b => \A k \in Bottle : bottle_lock'[k] = a <=> bottle_lock[k] = a
  BY <1>5, <1>7, <1>8, Roles
<1>10. /\ \A a \in Bartenders : a # b => job'[a] = job[a]
       /\ job'[b].order = o /\ job'[b].i = i - 1
       /\ bar_pc'[b] = q
  <2>. HIDE DEF q
  <2>1. bar_pc'[b] = q
    BY <1>2 DEF BarTypeOK, Proceed
  <2>2. job \in [Bartenders -> JobInfo]
    BY DEF BarTypeOK, JobInfo
  <2>3. /\ \A a \in Bartenders : a # b => job'[a] = job[a]
        /\ job'[b].order = o /\ job'[b].i = i - 1
    BY <1>2, <2>2 DEF JobInfo
  <2>. QED  BY <2>1, <2>3
<1>11. BottlesOf(b)'
  <2>. HIDE DEF held
  <2>1. \A k \in Bottle : bottle_lock'[k] = b <=> \E x \in 1..i-1 : order[job[b].order].hold[x] = k
    <3>. SUFFICES ASSUME NEW k \in Bottle PROVE bottle_lock'[k] = b <=> \E x \in 1..i-1 : order[o].hold[x] = k
      OBVIOUS
    <3>1. 1..i = (1..i-1) \cup {i} /\ i \notin 1..i-1 /\ i \in 1..i
      BY <1>4
    <3>2. order[o].hold[i] = held
      BY DEF held
    <3>3. CASE k = held
      <4>1. bottle_lock'[k] # b
        BY <1>8, <3>3, Roles
      <4>2. \A x \in 1..i-1 : order[o].hold[x] # k
        BY <1>5, <1>6, <3>1, <3>2, <3>3
      <4>. QED  BY <4>1, <4>2
    <3>4. CASE k # held
      BY <1>6, <1>8, <3>1, <3>2, <3>4
    <3>. QED  BY <3>3, <3>4
  <2>2. \A x, y \in 1..i-1 : order[o].hold[x] = order[o].hold[y] /\ order[o].hold[x] # 0 => x = y
    <3>1. \A x \in 1..i-1 : x \in 1..i
      BY <1>4
    <3>. QED  BY <1>6, <3>1
  <2>3. 1..Taken(b)' = {}
    BY <1>10 DEF Taken
  <2>5. order' = order /\ job'[b].order = job[b].order
    BY <1>2, <1>10
  <2>6. bar_pc'[b] \notin {"bottles", "mix"} /\ bar_pc'[b] # "pour"
    BY <1>10
  <2>4. 1..Noted(b)' = 1..i-1 /\ (bar_pc'[b] = "return" => job'[b].i \in Slots)
    <3>1. CASE i = 1
      BY <1>10, <3>1 DEF Noted
    <3>2. CASE i # 1
      BY <1>4, <1>10, <3>2 DEF Noted, Slots, DRINK_COMPLEXITY
    <3>. QED  BY <3>1, <3>2
  <2>. HIDE DEF q, i
  <2>. QED  BY <2>1, <2>2, <2>3, <2>4, <2>5, <2>6 DEF BottlesOf
<1>12. GlassOf(b)'
  <2>1. Filled(b) = DRINK_COMPLEXITY /\ Filled(b)' = DRINK_COMPLEXITY
    BY <1>2, <1>10 DEF Filled
  <2>. QED  BY <1>2, <1>4, <1>10, <2>1 DEF GlassOf
<1>13. BarTypeOK'
  <2>1. i - 1 \in 0..DRINK_COMPLEXITY
    BY <1>4 DEF DRINK_COMPLEXITY
  <2>2. job' \in [Bartenders -> JobInfo]
    BY <1>2, <2>1, JobTyped
  <2>3. q \in {"serve", "return"}
    OBVIOUS
  <2>. HIDE DEF q
  <2>4. bar_pc' \in [Customers \cup Bartenders -> {"choose", "order", "enqueue", "announce", "wait",
         "drink", "home", "leave", "gone", "take", "dequeue", "free", "sort", "bottles", "mix",
         "pour", "return", "serve"}]
    BY <1>2, <2>3 DEF BarTypeOK, Proceed
  <2>5. bottle_lock' \in [Bottle -> Bartenders \cup {NoThread}]
    BY <1>2 DEF BarTypeOK
  <2>. QED  BY <1>2, <2>2, <2>4, <2>5 DEF BarTypeOK, JobInfo
<1>14. /\ Places' /\ Work' /\ Gone' /\ Phase(d)'
       /\ \A x \in Customers, y \in Slots :
            IF x = o THEN (Poured(x, y, d)' <=> Past(b, y)') /\ (Poured(x, y, d) <=> Past(b, y))
            ELSE (Poured(x, y, d)' <=> Poured(x, y, d)) /\ order'[x] = order[x]
  <2>1. q \in Busy \ {"free"} /\ bar_pc[b] \in Filling /\ Proceed(b, q)
    BY <1>2 DEF Busy, Filling
  <2>2. /\ \A a \in Bartenders : a # b => job'[a] = job[a]
        /\ job'[b].order = job[b].order
        /\ \A x \in Order : order'[x].wait = order[x].wait /\ (x # o => order'[x] = order[x])
    BY <1>2, <1>10
  <2>. HIDE DEF q
  <2>. QED  BY <1>1, <1>2, <1>9, <1>11, <1>12, <2>1, <2>2, FillingStep
<1>15. Counts(d)'
  <2>1. \A y \in Slots : Past(b, y) /\ Past(b, y)'
    BY <1>2, <1>10 DEF Past
  <2>2. \A x \in Customers, y \in Slots, k \in Bottle :
           (Poured(x, y, d)' /\ order'[x].requested[y] = k) <=> (Poured(x, y, d) /\ order[x].requested[y] = k)
    BY <1>2, <1>14, <2>1
  <2>. QED  BY <1>1, <1>2, <2>2, CountsSame
<1>. QED  BY <1>13, <1>14, <1>15

-----------------------------------------------------------------------------
(* Bartenders: taking an order and serving it *)

\* A bartender that fills no order leaves the others' work alone and holds no bottle.
LEMMA BartenderFrame ==
  ASSUME BarTypeOK, Places, Work, NEW b \in Bartenders, bar_pc[b] \in {"take", "dequeue", "free", "serve"},
         NEW q \in {"take", "leave", "dequeue", "free", "sort", "serve"}, Proceed(b, q),
         UNCHANGED <<order, bottle_lock, doses, asks>>,
         \A a \in Bartenders : a # b => job'[a] = job[a],
         q \in Busy => \/ bar_pc[b] \in Busy /\ job'[b].order = job[b].order
                       \/ \A a \in Hands : job[a].order # job'[b].order,
         q \in Busy /\ job'[b].order = GoHome => q \in {"free", "serve"},
         q = "serve" => job'[b].order = GoHome
  PROVE  /\ Places' /\ Work' /\ Lent' = Lent
         /\ Hands' = IF q \in Busy THEN Hands \cup {b} ELSE Hands \ {b}
         /\ bar_pc'[b] = q /\ \A c \in Customers : bar_pc'[c] = bar_pc[c]
         /\ \A a \in Bartenders : a # b => bar_pc'[a] = bar_pc[a]
<1>1. /\ bar_pc'[b] = q
      /\ \A u \in Customers \cup Bartenders : u # b => bar_pc'[u] = bar_pc[u]
  BY Moves
<1>2. BottlesOf(b)' /\ GlassOf(b)'
  <2>1. BottlesOf(b)
    BY DEF Work
  <2>. QED  BY <1>1, <2>1, IdleWork
<1>3. q \in Busy \cup {"take", "dequeue", "leave", "gone"}
  BY DEF Busy
<1>4. /\ Places' /\ Work'
      /\ Hands' = IF q \in Busy THEN Hands \cup {b} ELSE Hands \ {b}
      /\ \A c \in Customers : bar_pc'[c] = bar_pc[c]
  BY <1>2, <1>3, BartenderWork
<1>5. Lent' = Lent
  BY <1>4 DEF Lent
<1>. QED  BY <1>1, <1>4, <1>5

\* take_order: P(empty_sem).
LEMMA TakePStep == ASSUME BarIInv, NEW b \in Bartenders, TakeP(b) PROVE BarIInv'
<1>. USE DEF BarIInv, queueVars, poolVars, slotSems, homeVars, custVars
<1>1. PICK d \in 0..NC : Phase(d) /\ Counts(d)
  OBVIOUS
<1>2. /\ bar_pc[b] = "take" /\ empty_sem > 0 /\ empty_sem' = empty_sem - 1 /\ Proceed(b, "dequeue")
      /\ UNCHANGED <<queueVars, poolVars, full_sem, drink_count, bottle_lock, order, homeVars, doses, custVars, job>>
  BY DEF TakeP
<1>3. b \notin Hands
  BY <1>2 DEF Hands, Where, Busy
<1>4. /\ Places' /\ Work' /\ Lent' = Lent /\ Hands' = Hands
      /\ bar_pc'[b] = "dequeue" /\ \A c \in Customers : bar_pc'[c] = bar_pc[c]
      /\ \A a \in Bartenders : a # b => bar_pc'[a] = bar_pc[a]
  <2>1. "dequeue" \notin Busy
    BY DEF Busy
  <2>. QED  BY <1>2, <1>3, <2>1, BartenderFrame
<1>5. Gone'
  BY <1>2, GoneStays
<1>6. empty_sem' \in 0..NC /\ empty_sem \in Nat
  BY <1>2, SmallCounts, SomeSlots
<1>7. BarTypeOK'
  BY <1>2, <1>6 DEF BarTypeOK, Proceed
<1>8. /\ Cardinality(Where({"dequeue"})) \in Nat
      /\ Cardinality(Where({"dequeue"}))' = Cardinality(Where({"dequeue"})) + 1
  BY <1>2, CountIn
<1>9. ASSUME NEW e \in 0..NC, NEW s \in 0..NC, Drinking(e, d, s) PROVE Drinking(e, d, s)'
  <2>1. Conserved(e, d)'
    <3>1. Conserved(e, d)
      BY <1>9 DEF Drinking
    <3>2. /\ Cardinality(Where({"announce"}))' = Cardinality(Where({"announce"}))
          /\ Cardinality(Where({"enqueue"}))' = Cardinality(Where({"enqueue"}))
          /\ Cardinality(Where({"free"}))' = Cardinality(Where({"free"}))
      BY <1>2, CountKept
    <3>3. Cardinality(Where({"announce"})) \in Nat
      BY Countable
    <3>4. d + empty_sem' + Cardinality(Where({"announce"})) + Cardinality(Where({"dequeue"}))'
            = d + empty_sem + Cardinality(Where({"announce"})) + Cardinality(Where({"dequeue"}))
      BY <1>2, <1>6, <1>8, <3>3
    <3>. QED  BY <1>2, <3>1, <3>2, <3>4 DEF Conserved
  <2>2. Thirsty'
    BY <1>2, <1>9, CountKept DEF Thirsty, Drinking, CustomerPlaces
  <2>3. Signals(d)'
    BY <1>2, <1>4, <1>9, SignalsStay DEF Drinking, Lent
  <2>4. Cardinality(Where({"choose", "order", "enqueue"}))' = Cardinality(Where({"choose", "order", "enqueue"}))
    BY <1>2, CountKept
  <2>. QED  BY <1>2, <1>4, <1>9, <2>1, <2>2, <2>3, <2>4, DrinkingStays
<1>10. ASSUME NEW z \in Customers, GoingHome(z) PROVE GoingHome(z)'
  <2>1. Announced(z)
    BY <1>2, <1>10 DEF GoingHome, Between, Put, InHand, Signalled, Quiet
  <2>2. empty_sem' + Cardinality(Where({"dequeue"}))' = 1
    BY <1>2, <1>6, <1>8, <2>1 DEF Announced
  <2>3. Announced(z)'
    BY <1>2, <1>4, <2>1, <2>2 DEF Announced, Pending, Queued, Unsignalled, Wrap
  <2>. QED  BY <1>2, <1>4, <1>10, <2>3 DEF GoingHome
<1>11. Counts(d)'
  <2>1. ASSUME NEW x \in Customers, NEW i \in Slots PROVE Poured(x, i, d)' <=> Poured(x, i, d)
    <3>1. \A a \in Hands : a \in Bartenders /\ a # b
      BY <1>3, HandsAre
    <3>2. \A a \in Hands : Past(a, i)' <=> Past(a, i)
      BY <1>2, <1>4, <3>1 DEF Past
    <3>. QED  BY <1>2, <1>4, <3>2, PouredSame
  <2>2. \A x \in Customers, i \in Slots, k \in Bottle :
           (Poured(x, i, d)' /\ order'[x].requested[i] = k) <=> (Poured(x, i, d) /\ order[x].requested[i] = k)
    BY <1>2, <2>1
  <2>. QED  BY <1>1, <1>2, <2>2, CountsSame
<1>12. Phase(d)'
  BY <1>1, <1>9, <1>10 DEF Phase
<1>. QED  BY <1>1, <1>4, <1>5, <1>7, <1>11, <1>12

\* take_order: V(full_sem); only the order to go home is served without being filled.
LEMMA FreeStep == ASSUME BarIInv, NEW b \in Bartenders, Free(b) PROVE BarIInv'
<1>. USE DEF BarIInv, queueVars, poolVars, slotSems, homeVars, custVars
<1>1. PICK d \in 0..NC : Phase(d) /\ Counts(d)
  OBVIOUS
<1>2. /\ bar_pc[b] = "free" /\ full_sem' = full_sem + 1
      /\ UNCHANGED <<queueVars, poolVars, empty_sem, drink_count, bottle_lock, order, homeVars, doses, custVars, job>>
  BY DEF Free
<1>3. PICK q \in {"serve", "sort"} : Proceed(b, q) /\ (q = "serve" <=> job[b].order = GoHome)
  BY DEF Free
<1>4. b \in Hands /\ bar_pc[b] \in Busy /\ q \in Busy
  BY <1>2, <1>3 DEF Hands, Where, Busy
<1>5. /\ Places' /\ Work' /\ Lent' = Lent /\ Hands' = Hands
      /\ bar_pc'[b] = q /\ \A c \in Customers : bar_pc'[c] = bar_pc[c]
      /\ \A a \in Bartenders : a # b => bar_pc'[a] = bar_pc[a]
  BY <1>2, <1>3, <1>4, BartenderFrame
<1>6. Gone'
  BY <1>2, <1>3, GoneStays
<1>7. full_sem \in Nat /\ NC \in Nat
  BY SmallCounts, SomeSlots
<1>8. ASSUME NEW e \in 0..NC, NEW s \in 0..NC, Drinking(e, d, s)
      PROVE  Drinking(e, d, s)' /\ full_sem' \in 0..NC
  <2>1. Conserved(e, d)' /\ full_sem' \in 0..NC
    <3>1. Conserved(e, d) /\ d <= e
      BY <1>8 DEF Drinking, Rings
    <3>2. /\ Cardinality(Where({"announce"}))' = Cardinality(Where({"announce"}))
          /\ Cardinality(Where({"enqueue"}))' = Cardinality(Where({"enqueue"}))
          /\ Cardinality(Where({"dequeue"}))' = Cardinality(Where({"dequeue"}))
      BY <1>2, <1>3, CountKept
    <3>3. /\ Cardinality(Where({"free"})) \in Nat /\ Cardinality(Where({"free"}))' \in Nat
          /\ Cardinality(Where({"free"}))' = Cardinality(Where({"free"})) - 1
      BY <1>2, <1>3, CountOut
    <3>4. Cardinality(Where({"enqueue"})) \in Nat
      BY Countable
    <3>5. NC = full_sem' + Cardinality(Where({"enqueue"})) + (e - d) + Cardinality(Where({"free"}))'
      BY <1>2, <1>7, <3>1, <3>3, <3>4 DEF Conserved
    <3>6. full_sem' \in 0..NC
      BY <1>2, <1>7, <3>1, <3>3, <3>4, <3>5
    <3>. QED  BY <1>2, <3>1, <3>2, <3>5, <3>6 DEF Conserved
  <2>2. Thirsty'
    BY <1>2, <1>3, <1>8, CountKept DEF Thirsty, Drinking, CustomerPlaces
  <2>3. Signals(d)'
    BY <1>2, <1>5, <1>8, SignalsStay DEF Drinking, Lent
  <2>4. Cardinality(Where({"choose", "order", "enqueue"}))' = Cardinality(Where({"choose", "order", "enqueue"}))
    BY <1>2, <1>3, CountKept
  <2>. QED  BY <1>2, <1>5, <1>8, <2>1, <2>2, <2>3, <2>4, DrinkingStays
<1>9. ASSUME NEW z \in Customers, GoingHome(z) PROVE GoingHome(z)' /\ full_sem' \in 0..NC
  <2>1. InHand(z)
    BY <1>4, <1>9 DEF GoingHome, Between, Put, Announced, Signalled, Quiet, Queued
  <2>2. Hands = {b} /\ job[b].order = GoHome /\ full_sem = NC - 1
    BY <1>2, <1>4, <2>1 DEF InHand
  <2>3. q = "serve" /\ full_sem' = NC
    BY <1>2, <1>3, <1>7, <2>2
  <2>4. Where({"dequeue"})' = {}
    BY <1>2, <1>3, <2>1, CountKept DEF InHand
  <2>5. InHand(z)'
    BY <1>2, <1>5, <2>1, <2>2, <2>3, <2>4 DEF InHand, Pending, Unsignalled, Wrap
  <2>. QED  BY <1>2, <1>5, <1>7, <1>9, <2>3, <2>5 DEF GoingHome
<1>10. Phase(d)' /\ full_sem' \in 0..NC
  BY <1>1, <1>8, <1>9 DEF Phase
<1>11. BarTypeOK'
  <2>1. bar_pc' \in [Customers \cup Bartenders -> {"choose", "order", "enqueue", "announce", "wait",
         "drink", "home", "leave", "gone", "take", "dequeue", "free", "sort", "bottles", "mix",
         "pour", "return", "serve"}]
    BY <1>3 DEF BarTypeOK, Proceed
  <2>. QED  BY <1>2, <1>10, <2>1 DEF BarTypeOK
<1>12. Counts(d)'
  <2>1. ASSUME NEW x \in Customers, NEW i \in Slots PROVE Poured(x, i, d)' <=> Poured(x, i, d)
    <3>1. \A a \in Hands : a \in Bartenders
      BY HandsAre
    <3>2. \A a \in Hands : job[a].order = x => (Past(a, i)' <=> Past(a, i))
      BY <1>2, <1>3, <1>5, <3>1, Roles DEF Past
    <3>. QED  BY <1>2, <1>5, <3>2, PouredSame
  <2>2. \A x \in Customers, i \in Slots, k \in Bottle :
           (Poured(x, i, d)' /\ order'[x].requested[i] = k) <=> (Poured(x, i, d) /\ order[x].requested[i] = k)
    BY <1>2, <2>1
  <2>. QED  BY <1>1, <1>2, <2>2, CountsSame
<1>. QED  BY <1>5, <1>6, <1>10, <1>11, <1>12

\* While drinks are ordered, the order taken out is the next one queued; no bartender
\* has it in hand yet.
LEMMA NextOut ==
  ASSUME BarTypeOK, Places, NEW e \in 0..NC, NEW d \in 0..NC, NEW s \in 0..NC, Drinking(e, d, s),
         NEW b \in Bartenders, bar_pc[b] = "dequeue"
  PROVE  /\ d + 1 \in 0..NC /\ d \in 0..NC-1 /\ d < e /\ order_lo = d
         /\ order_queue[d] \in Lent /\ order[order_queue[d]].wait = d
         /\ \A a \in Hands : job[a].order # order_queue[d]
<1>. USE DEF Drinking
<1>1. NC \in Nat /\ e \in Nat /\ d \in Nat /\ e <= NC
  BY SomeSlots
<1>2. d < e
  <2>1. b \in Where({"dequeue"})
    BY DEF Where
  <2>2. Cardinality(Where({"dequeue"})) # 0 /\ Cardinality(Where({"dequeue"})) \in Nat
    BY <2>1, NobodyThere, Countable
  <2>3. Cardinality(Where({"announce"})) \in Nat /\ empty_sem \in Nat
    BY Countable, SmallCounts
  <2>4. e = d + empty_sem + Cardinality(Where({"announce"})) + Cardinality(Where({"dequeue"}))
    BY DEF Conserved
  <2>. QED  BY <1>1, <2>2, <2>3, <2>4
<1>3. d + 1 \in 0..NC /\ d \in 0..NC-1 /\ d \in 0..e-1 /\ d # NC
  BY <1>1, <1>2
<1>4. order_lo = d
  BY <1>3 DEF Rings, Wrap
<1>5. order_queue[d] \in Lent /\ order[order_queue[d]].wait = d
  BY <1>3 DEF Orders
<1>6. \A a \in Hands : job[a].order # order_queue[d]
  <2>1. ~(d < d)
    BY <1>1
  <2>. QED  BY <1>5, <2>1 DEF Orders
<1>. QED  BY <1>2, <1>3, <1>4, <1>5, <1>6

\* take_order while drinks are ordered: one order more is taken out, none is served.
LEMMA DequeueDrinking ==
  ASSUME BarTypeOK, Places, NEW e \in 0..NC, NEW d \in 0..NC, NEW s \in 0..NC, Drinking(e, d, s),
         NEW b \in Bartenders, Dequeue(b), Hands' = Hands \cup {b}, Lent' = Lent,
         \A c \in Customers : bar_pc'[c] = bar_pc[c],
         job'[b].order = order_queue[order_lo], \A a \in Bartenders : a # b => job'[a] = job[a]
  PROVE  Drinking(e, d + 1, s)'
<1>. USE DEF Drinking, queueVars, poolVars, slotSems, homeVars, custVars
<1>1. /\ bar_pc[b] = "dequeue" /\ Proceed(b, "free") /\ order_lo' = (order_lo + 1) % NC
      /\ UNCHANGED <<order_queue, order_hi, poolVars, slotSems, drink_count, bottle_lock, order, homeVars, doses, custVars>>
  BY DEF Dequeue
<1>2. /\ d + 1 \in 0..NC /\ d \in 0..NC-1 /\ d < e /\ order_lo = d
      /\ order_queue[d] \in Lent /\ order[order_queue[d]].wait = d
      /\ \A a \in Hands : job[a].order # order_queue[d]
  BY <1>1, NextOut
<1>3. NC \in Nat /\ e \in Nat /\ d \in Nat /\ s \in Nat /\ e <= NC
  BY SomeSlots
<1>4. /\ job'[b].order = order_queue[d] /\ b \notin Hands
      /\ \A a \in Hands : a \in Bartenders /\ job'[a].order = job[a].order
  BY <1>1, <1>2, HandsAre DEF Busy
<1>5. Rings(e, d + 1, s)'
  <2>1. /\ Cardinality(Where(Busy)) \in Nat
        /\ Cardinality(Where(Busy))' = Cardinality(Where(Busy)) + 1
    <3>1. bar_pc[b] \notin Busy /\ "free" \in Busy
      BY <1>1 DEF Busy
    <3>. QED  BY <1>1, <3>1, CountIn
  <2>2. Cardinality(Where({"choose", "order", "enqueue"}))' = Cardinality(Where({"choose", "order", "enqueue"}))
    BY <1>1, CountKept
  <2>3. order_lo' = Wrap(d + 1)
    BY <1>1, <1>2, NextSlot
  <2>4. s <= d /\ d = s + Cardinality(Where(Busy))
    BY DEF Rings, Hands
  <2>5. s <= d + 1 /\ d + 1 <= e /\ d + 1 = s + Cardinality(Where(Busy))'
    BY <1>2, <1>3, <2>1, <2>4
  <2>6. Cardinality(Hands)' = Cardinality(Where(Busy))'
    BY DEF Hands
  <2>. QED  BY <1>1, <2>2, <2>3, <2>5, <2>6 DEF Rings
<1>6. Orders(e, d + 1)'
  <2>1. \A a \in Hands' : job'[a].order \in Lent /\ order[job'[a].order].wait < d + 1
    <3>1. d < d + 1 /\ \A x \in 0..NC-1 : x < d => x < d + 1
      BY <1>3
    <3>2. \A a \in Hands : /\ job[a].order \in Lent /\ order[job[a].order].wait < d
                           /\ order[job[a].order].wait \in 0..NC-1
      BY <1>3 DEF Orders
    <3>. QED  BY <1>2, <1>4, <3>1, <3>2
  <2>2. order' = order /\ Lent' = Lent /\ Lent \subseteq Customers
    BY <1>1 DEF Lent
  <2>3. /\ \A c \in Customers : asks[c] = c
        /\ \A i \in e..NC-1 : drink_sem[i] = i /\ drink_count[i] = 0
        /\ \A c \in Lent : order[c].wait \in 0..e-1 /\ order_queue[order[c].wait] = c
        /\ \A i \in 0..e-1 : order_queue[i] \in Lent /\ order[order_queue[i]].wait = i
    BY DEF Orders
  <2>. QED  BY <1>1, <2>1, <2>2, <2>3 DEF Orders
<1>7. ASSUME NEW x \in Lent PROVE Served(x, d + 1)' <=> Served(x, d)
  <2>1. order[x].wait \in 0..e-1 /\ order_queue[order[x].wait] = x
    BY DEF Orders
  <2>2. (\A a \in Hands' : job'[a].order # x) <=> x # order_queue[d] /\ \A a \in Hands : job[a].order # x
    BY <1>4
  <2>3. order[x].wait < d + 1 /\ x # order_queue[d] <=> order[x].wait < d
    BY <1>2, <1>3, <2>1
  <2>. QED  BY <1>1, <2>2, <2>3 DEF Served
<1>8. Signals(d + 1)'
  <2>. SUFFICES ASSUME NEW x \in Lent
       PROVE  /\ drink_count[order[x].wait] = IF Served(x, d) /\ Waits(x) THEN 1 ELSE 0
              /\ ~Served(x, d) => Waits(x)
              /\ Served(x, d) /\ bar_pc[x] \in {"announce", "wait", "drink"} => order[x].glass = order[x].requested
    <3>1. \A x \in Lent : bar_pc'[x] = bar_pc[x]
      BY DEF Lent
    <3>. QED  BY <1>1, <1>7, <3>1 DEF Signals, Waits
  <2>. QED  BY DEF Signals
<1>9. Returned(d + 1, s)'
  <2>1. {x \in Customers : Served(x, d + 1)}' = {x \in Customers : Served(x, d)}
    <3>1. \A x \in Customers : Served(x, d + 1)' => x \in Lent
      BY DEF Served
    <3>2. \A x \in Customers : Served(x, d) => x \in Lent
      BY DEF Served
    <3>. QED  BY <1>7, <3>1, <3>2
  <2>2. {order[x].wait : x \in {y \in Customers : Served(y, d + 1)}}' = {order[x].wait : x \in {y \in Customers : Served(y, d)}}
    BY <1>1, <2>1
  <2>. QED  BY <1>1, <2>2 DEF Returned
<1>10. Conserved(e, d + 1)'
  <2>1. /\ e = d + empty_sem + Cardinality(Where({"announce"})) + Cardinality(Where({"dequeue"}))
        /\ NC = full_sem + Cardinality(Where({"enqueue"})) + (e - d) + Cardinality(Where({"free"}))
    BY DEF Conserved
  <2>2. /\ Cardinality(Where({"announce"}))' = Cardinality(Where({"announce"}))
        /\ Cardinality(Where({"enqueue"}))' = Cardinality(Where({"enqueue"}))
    BY <1>1, CountKept
  <2>3. /\ Cardinality(Where({"free"})) \in Nat
        /\ Cardinality(Where({"free"}))' = Cardinality(Where({"free"})) + 1
    BY <1>1, CountIn
  <2>4. /\ Cardinality(Where({"dequeue"})) \in Nat
        /\ Cardinality(Where({"dequeue"}))' = Cardinality(Where({"dequeue"})) - 1
    BY <1>1, CountOut
  <2>5. /\ Cardinality(Where({"announce"})) \in Nat /\ Cardinality(Where({"enqueue"})) \in Nat
        /\ full_sem \in Nat /\ empty_sem \in Nat /\ full_sem' = full_sem /\ empty_sem' = empty_sem
    BY <1>1, Countable, SmallCounts
  <2>6. /\ e = d + 1 + empty_sem + Cardinality(Where({"announce"})) + Cardinality(Where({"dequeue"}))'
        /\ NC = full_sem + Cardinality(Where({"enqueue"})) + (e - (d + 1)) + Cardinality(Where({"free"}))'
    BY <1>3, <2>1, <2>3, <2>4, <2>5
  <2>. QED  BY <2>2, <2>5, <2>6 DEF Conserved
<1>11. Thirsty'
  BY <1>1, CountKept DEF Thirsty, CustomerPlaces
<1>. QED  BY <1>5, <1>6, <1>8, <1>9, <1>10, <1>11

\* take_order: the critical section.
LEMMA DequeueStep == ASSUME BarIInv, NEW b \in Bartenders, Dequeue(b) PROVE BarIInv'
<1>. USE DEF BarIInv, queueVars, poolVars, slotSems, homeVars, custVars
<1>1. PICK d \in 0..NC : Phase(d) /\ Counts(d)
  OBVIOUS
<1>2. /\ bar_pc[b] = "dequeue" /\ Proceed(b, "free") /\ order_lo' = (order_lo + 1) % NC
      /\ job' = [job EXCEPT ![b].order = order_queue[order_lo]]
      /\ UNCHANGED <<order_queue, order_hi, poolVars, slotSems, drink_count, bottle_lock, order, homeVars, doses, custVars>>
  BY DEF Dequeue
<1>3. /\ job'[b].order = order_queue[order_lo] /\ \A a \in Bartenders : a # b => job'[a] = job[a]
      /\ order_queue[order_lo] \in Order /\ order_lo \in 0..NC-1 /\ b \notin Hands
  BY <1>2 DEF BarTypeOK, Hands, Where, Busy
<1>4. ASSUME NEW z \in Customers, GoingHome(z)
      PROVE  /\ Announced(z) /\ empty_sem = 0 /\ Where({"dequeue"}) = {b} /\ Hands = {}
             /\ order_queue[order_lo] = GoHome
  <2>1. b \in Where({"dequeue"})
    BY <1>2 DEF Where
  <2>2. Announced(z)
    BY <1>4, <2>1 DEF GoingHome, Between, Put, InHand, Signalled, Quiet
  <2>3. empty_sem + Cardinality(Where({"dequeue"})) = 1 /\ empty_sem \in Nat
    BY <2>2, SmallCounts DEF Announced
  <2>4. Cardinality(Where({"dequeue"})) \in Nat /\ Cardinality(Where({"dequeue"})) # 0
    BY <2>1, Countable, NobodyThere
  <2>5. empty_sem = 0 /\ Cardinality(Where({"dequeue"})) = 1
    BY <2>3, <2>4
  <2>. QED  BY <2>1, <2>2, <2>5, OnlyOne DEF Announced, Queued
<1>5. \A a \in Hands : job[a].order # job'[b].order
  <2>1. ASSUME NEW e \in 0..NC, NEW s \in 0..NC, Drinking(e, d, s)
        PROVE  \A a \in Hands : job[a].order # job'[b].order
    BY <1>2, <1>3, <2>1, NextOut
  <2>. QED  BY <1>1, <1>4, <2>1 DEF Phase
<1>6. /\ Places' /\ Work' /\ Lent' = Lent /\ Hands' = Hands \cup {b}
      /\ bar_pc'[b] = "free" /\ \A c \in Customers : bar_pc'[c] = bar_pc[c]
      /\ \A a \in Bartenders : a # b => bar_pc'[a] = bar_pc[a]
  <2>1. "free" \in Busy
    BY DEF Busy
  <2>. QED  BY <1>2, <1>3, <1>5, <2>1, BartenderFrame
<1>7. Gone'
  BY <1>2, GoneStays
<1>8. BarTypeOK'
  <2>1. job' \in [Bartenders -> JobInfo]
    BY <1>2, <1>3, JobTyped
  <2>2. order_lo' \in 0..NC-1
    BY <1>2, <1>3, NextSlot
  <2>. QED  BY <1>2, <2>1, <2>2 DEF BarTypeOK, Proceed, JobInfo
<1>9. ASSUME NEW x \in Customers, NEW i \in Slots, NEW g \in 0..NC,
             x = job'[b].order => ~Poured(x, i, d),
             x # job'[b].order /\ x \in Lent => (order[x].wait < g <=> order[x].wait < d)
      PROVE  Poured(x, i, g)' <=> Poured(x, i, d)
  <2>1. \A a \in Hands : a \in Bartenders /\ a # b
    BY <1>3, HandsAre
  <2>2. \A a \in Hands : (Past(a, i)' <=> Past(a, i)) /\ job'[a].order = job[a].order
    BY <1>3, <1>6, <2>1 DEF Past
  <2>3. ~Past(b, i)'
    BY <1>6 DEF Past
  <2>4. CASE x = job'[b].order
    BY <1>6, <1>9, <2>3, <2>4 DEF Poured
  <2>5. CASE x # job'[b].order
    BY <1>2, <1>6, <1>9, <2>2, <2>5 DEF Poured
  <2>. QED  BY <2>4, <2>5
<1>10. CASE \E e, s \in 0..NC : Drinking(e, d, s)
  <2>1. PICK e \in 0..NC, s \in 0..NC : Drinking(e, d, s)
    BY <1>10
  <2>2. /\ d + 1 \in 0..NC /\ d \in 0..NC-1 /\ d < e /\ order_lo = d
        /\ order_queue[d] \in Lent /\ order[order_queue[d]].wait = d
    BY <1>2, <2>1, NextOut
  <2>3. Drinking(e, d + 1, s)'
    BY <1>3, <1>6, <2>1, DequeueDrinking
  <2>4. Phase(d + 1)'
    BY <2>2, <2>3 DEF Phase
  <2>5. \A x \in Customers, i \in Slots : Poured(x, i, d + 1)' <=> Poured(x, i, d)
    <3>1. ~(d < d) /\ \A x \in 0..NC-1 : x # d => (x < d + 1 <=> x < d)
      BY <2>2
    <3>2. \A x \in Lent : order[x].wait \in 0..e-1 /\ order_queue[order[x].wait] = x
      BY <2>1 DEF Drinking, Orders
    <3>3. \A x \in Lent : order[x].wait \in 0..NC-1
      BY <3>2, SomeSlots
    <3>4. \A x \in Customers, i \in Slots : x = job'[b].order => ~Poured(x, i, d)
      BY <1>3, <2>2, <3>1 DEF Poured
    <3>5. \A x \in Customers : x # job'[b].order /\ x \in Lent => (order[x].wait < d + 1 <=> order[x].wait < d)
      BY <1>3, <2>2, <3>1, <3>2, <3>3
    <3>. QED  BY <1>9, <2>2, <3>4, <3>5
  <2>6. \A x \in Customers, i \in Slots, k \in Bottle :
           (Poured(x, i, d + 1)' /\ order'[x].requested[i] = k) <=> (Poured(x, i, d) /\ order[x].requested[i] = k)
    BY <1>2, <2>5
  <2>7. Counts(d + 1)'
    BY <1>1, <1>2, <2>6, CountsSame
  <2>. QED  BY <1>6, <1>7, <1>8, <2>2, <2>4, <2>7
<1>11. CASE d = NC /\ \E z \in Customers : GoingHome(z)
  <2>1. PICK z \in Customers : GoingHome(z)
    BY <1>11
  <2>2. /\ Announced(z) /\ empty_sem = 0 /\ Where({"dequeue"}) = {b} /\ Hands = {}
        /\ order_queue[order_lo] = GoHome
    BY <1>4, <2>1
  <2>3. Where({"dequeue"})' = {}
    <3>1. \A t \in Customers \cup Bartenders : t # b => bar_pc[t] # "dequeue"
      BY <2>2 DEF Where
    <3>. QED  BY <1>6, <3>1 DEF Where
  <2>4. order_lo' = order_hi
    BY <1>2, <1>3, <2>2, NextSlot DEF Announced, Pending, Queued
  <2>5. InHand(z)'
    <3>1. Hands' = {b} /\ job'[b].order = GoHome /\ full_sem' = NC - 1
      BY <1>2, <1>3, <1>6, <2>2 DEF Announced, Queued
    <3>. QED  BY <1>2, <1>6, <2>2, <2>3, <2>4, <3>1 DEF Announced, InHand, Pending, Unsignalled, Wrap
  <2>6. GoingHome(z)'
    BY <1>2, <1>6, <2>1, <2>5 DEF GoingHome
  <2>7. \A x \in Customers, i \in Slots : Poured(x, i, d)' <=> Poured(x, i, d)
    BY <1>3, <1>9, <2>2, Roles
  <2>8. \A x \in Customers, i \in Slots, k \in Bottle :
           (Poured(x, i, d)' /\ order'[x].requested[i] = k) <=> (Poured(x, i, d) /\ order[x].requested[i] = k)
    BY <1>2, <2>7
  <2>9. Counts(d)'
    BY <1>1, <1>2, <2>8, CountsSame
  <2>. QED  BY <1>6, <1>7, <1>8, <1>11, <2>6, <2>9 DEF Phase
<1>. QED  BY <1>1, <1>10, <1>11 DEF Phase

\* While drinks are ordered, the order served is filled; its semaphore goes back to the
\* pool and is signalled for the customer, who waits.
LEMMA ServeDrinking ==
  ASSUME BarTypeOK, Places, Work, NEW e \in 0..NC, NEW d \in 0..NC, NEW s \in 0..NC, Drinking(e, d, s),
         NEW b \in Bartenders, Serve(b), Proceed(b, "take"), Hands' = Hands \ {b}, Lent' = Lent,
         \A c \in Customers : bar_pc'[c] = bar_pc[c],
         NEW o, o = job[b].order, NEW w, w = order[o].wait
  PROVE  s + 1 \in 0..NC /\ Drinking(e, d, s + 1)' /\ drink_count[w] = 0
<1>. USE DEF Drinking, queueVars, poolVars, slotSems, homeVars, custVars
<1>1. /\ bar_pc[b] = "serve"
      /\ drink_sem' = [drink_sem EXCEPT ![drink_hi] = w] /\ drink_hi' = (drink_hi + 1) % NC
      /\ drink_count' = [drink_count EXCEPT ![w] = drink_count[w] + 1]
      /\ UNCHANGED <<queueVars, drink_lo, slotSems, bottle_lock, order, homeVars, doses, custVars, job>>
  BY DEF Serve
<1>2. NC \in Nat /\ e \in Nat /\ d \in Nat /\ s \in Nat /\ e <= NC /\ s <= d /\ d <= e
  BY SomeSlots DEF Rings
<1>3. b \in Hands /\ \A a \in Hands : a \in Bartenders
  BY <1>1, HandsAre DEF Busy
<1>4. /\ o \in Lent /\ o \in Customers /\ w < d /\ w \in 0..e-1 /\ w \in 0..NC-1 /\ order_queue[w] = o
  <2>1. o \in Lent /\ w < d
    BY <1>3 DEF Orders
  <2>2. w \in 0..e-1 /\ order_queue[w] = o
    BY <2>1 DEF Orders
  <2>. QED  BY <1>2, <2>1, <2>2 DEF Lent
<1>5. /\ Cardinality(Where(Busy)) \in Nat /\ Cardinality(Where(Busy))' \in Nat
      /\ Cardinality(Where(Busy))' = Cardinality(Where(Busy)) - 1
  <2>1. bar_pc[b] \in Busy /\ "take" \notin Busy
    BY <1>1 DEF Busy
  <2>. QED  BY <2>1, CountOut
<1>6. s + 1 \in 0..NC /\ s \in 0..NC-1 /\ s < d /\ d = s + 1 + Cardinality(Hands)' /\ drink_hi = s
  <2>1. d = s + Cardinality(Where(Busy)) /\ drink_hi = Wrap(s)
    BY DEF Rings, Hands
  <2>2. d = s + 1 + Cardinality(Where(Busy))' /\ s < d
    BY <1>2, <1>5, <2>1
  <2>3. s + 1 \in 0..NC /\ s \in 0..NC-1 /\ s # NC
    BY <1>2, <2>2
  <2>4. Cardinality(Hands)' = Cardinality(Where(Busy))'
    BY DEF Hands
  <2>. QED  BY <2>1, <2>2, <2>3, <2>4 DEF Wrap
<1>7. ~Served(o, d) /\ drink_count[w] = 0 /\ Waits(o)
  <2>1. ~Served(o, d)
    BY <1>3 DEF Served
  <2>. QED  BY <1>4, <2>1 DEF Signals
<1>8. /\ \A i \in 0..NC-1 : /\ drink_count'[i] = IF i = w THEN 1 ELSE drink_count[i]
                            /\ drink_sem'[i] = IF i = s THEN w ELSE drink_sem[i]
  <2>1. drink_count[w] + 1 = 1
    BY <1>7
  <2>2. drink_count' = [drink_count EXCEPT ![w] = 1] /\ drink_sem' = [drink_sem EXCEPT ![s] = w]
    BY <1>1, <1>6, <2>1
  <2>. QED  BY <2>2 DEF BarTypeOK
<1>9. order[o].glass = order[o].requested
  <2>1. \A x \in Slots : order[o].glass[x] = order[o].requested[x]
    BY <1>1, <1>4, Roles DEF Work, GlassOf, Filled, Slots
  <2>2. o \in Order
    BY <1>4 DEF Order
  <2>3. order[o].glass \in [Slots -> 0..NBottles] /\ order[o].requested \in [Slots -> 0..NBottles]
    BY <2>2 DEF BarTypeOK
  <2>. QED  BY <2>1, <2>3
<1>10. /\ Served(o, d)'
       /\ \A x \in Lent : x # o => (Served(x, d)' <=> Served(x, d))
       /\ \A x \in Customers : Served(x, d)' <=> (Served(x, d) \/ x = o)
  <2>1. \A a \in Hands : a # b => job[a].order # o
    BY <1>3 DEF Work, Tasks
  <2>2. \A x \in Customers : (\A a \in Hands \ {b} : job[a].order # x) <=> (x = o \/ \A a \in Hands : job[a].order # x)
    BY <1>3, <2>1
  <2>3. \A x \in Customers : Served(x, d)' <=> (Served(x, d) \/ x = o)
    BY <1>1, <1>4, <2>2 DEF Served
  <2>. QED  BY <1>4, <2>3 DEF Lent
<1>11. Rings(e, d, s + 1)'
  <2>1. Cardinality(Where({"choose", "order", "enqueue"}))' = Cardinality(Where({"choose", "order", "enqueue"}))
    BY <1>1, CountKept
  <2>2. drink_hi' = Wrap(s + 1)
    BY <1>1, <1>6, NextSlot
  <2>3. s + 1 <= d
    BY <1>2, <1>6
  <2>. QED  BY <1>1, <1>2, <1>6, <2>1, <2>2, <2>3 DEF Rings
<1>12. Orders(e, d)'
  <2>1. \A i \in e..NC-1 : i # s /\ i # w /\ i \in 0..NC-1
    BY <1>2, <1>4, <1>6
  <2>2. \A i \in e..NC-1 : drink_sem'[i] = i /\ drink_count'[i] = 0
    BY <1>8, <2>1 DEF Orders
  <2>. QED  BY <1>1, <2>2 DEF Orders
<1>13. Signals(d)'
  <2>. SUFFICES ASSUME NEW x \in Lent
       PROVE  /\ drink_count'[order[x].wait] = IF Served(x, d)' /\ Waits(x) THEN 1 ELSE 0
              /\ ~Served(x, d)' => Waits(x)
              /\ Served(x, d)' /\ bar_pc[x] \in {"announce", "wait", "drink"} => order[x].glass = order[x].requested
    <3>1. \A x \in Lent : bar_pc'[x] = bar_pc[x]
      BY DEF Lent
    <3>. QED  BY <1>1, <3>1 DEF Signals, Waits
  <2>1. CASE x = o
    BY <1>4, <1>7, <1>8, <1>9, <1>10, <2>1
  <2>2. CASE x # o
    <3>1. order[x].wait \in 0..e-1 /\ order_queue[order[x].wait] = x
      BY DEF Orders
    <3>2. order[x].wait \in 0..NC-1 /\ order[x].wait # w
      BY <1>2, <1>4, <2>2, <3>1
    <3>3. Served(x, d)' <=> Served(x, d)
      BY <1>10, <2>2
    <3>4. /\ drink_count[order[x].wait] = IF Served(x, d) /\ Waits(x) THEN 1 ELSE 0
          /\ ~Served(x, d) => Waits(x)
          /\ Served(x, d) /\ bar_pc[x] \in {"announce", "wait", "drink"} => order[x].glass = order[x].requested
      BY DEF Signals
    <3>. QED  BY <1>8, <3>2, <3>3, <3>4
  <2>. QED  BY <2>1, <2>2
<1>14. Returned(d, s + 1)'
  <2>1. {drink_sem'[i] : i \in 0..s} = {drink_sem[i] : i \in 0..s-1} \cup {w}
    <3>1. \A i \in 0..s-1 : i \in 0..NC-1 /\ i # s
      BY <1>2, <1>6
    <3>2. 0..s = (0..s-1) \cup {s}
      BY <1>2
    <3>3. \A i \in 0..s-1 : drink_sem'[i] = drink_sem[i]
      BY <1>8, <3>1
    <3>4. drink_sem'[s] = w
      BY <1>6, <1>8
    <3>. QED  BY <3>2, <3>3, <3>4
  <2>2. {x \in Customers : Served(x, d)}' = {x \in Customers : Served(x, d)} \cup {o}
    BY <1>4, <1>10
  <2>3. {order[x].wait : x \in {y \in Customers : Served(y, d)}}'
          = {order[x].wait : x \in {y \in Customers : Served(y, d)}} \cup {w}
    BY <1>1, <2>2
  <2>4. {drink_sem[i] : i \in 0..s-1} = {order[x].wait : x \in {y \in Customers : Served(y, d)}}
    BY DEF Returned
  <2>5. {drink_sem'[i] : i \in 0..(s + 1)-1} = {drink_sem'[i] : i \in 0..s}
    <3>1. 0..(s + 1)-1 = 0..s
      BY <1>2
    <3>. QED  BY <3>1
  <2>6. {drink_sem'[i] : i \in 0..s} = {order[x].wait : x \in {y \in Customers : Served(y, d)}}'
    BY <2>1, <2>3, <2>4
  <2>. QED  BY <2>5, <2>6 DEF Returned
<1>15. Conserved(e, d)'
  BY <1>1, CountKept DEF Conserved
<1>16. Thirsty'
  BY <1>1, CountKept DEF Thirsty, CustomerPlaces
<1>. QED  BY <1>6, <1>7, <1>11, <1>12, <1>13, <1>14, <1>15, <1>16

\* serve_order: the critical section.
LEMMA ServeStep == ASSUME BarIInv, NEW b \in Bartenders, Serve(b) PROVE BarIInv'
<1>. USE DEF BarIInv, queueVars, poolVars, slotSems, homeVars, custVars
<1>1. PICK d \in 0..NC : Phase(d) /\ Counts(d)
  OBVIOUS
<1>. DEFINE w == order[job[b].order].wait
<1>2. /\ bar_pc[b] = "serve"
      /\ drink_sem' = [drink_sem EXCEPT ![drink_hi] = w] /\ drink_hi' = (drink_hi + 1) % NC
      /\ drink_count' = [drink_count EXCEPT ![w] = drink_count[w] + 1]
      /\ UNCHANGED <<queueVars, drink_lo, slotSems, bottle_lock, order, homeVars, doses, custVars, job>>
  BY DEF Serve
<1>3. PICK q \in {"leave", "take"} : Proceed(b, q) /\ (q = "leave" <=> job[b].order = GoHome)
  BY DEF Serve
<1>4. b \in Hands /\ q \notin Busy /\ (\A a \in Hands : a \in Bartenders) /\ w \in 0..NC-1 /\ drink_hi \in 0..NC-1
  BY <1>2, <1>3, HandsAre DEF Busy, BarTypeOK
<1>5. /\ Places' /\ Work' /\ Lent' = Lent /\ Hands' = Hands \ {b}
      /\ bar_pc'[b] = q /\ \A c \in Customers : bar_pc'[c] = bar_pc[c]
      /\ \A a \in Bartenders : a # b => bar_pc'[a] = bar_pc[a]
  BY <1>2, <1>3, <1>4, BartenderFrame
<1>6. Gone'
  BY <1>2, <1>3, GoneStays
<1>7. ASSUME NEW e \in 0..NC, NEW s \in 0..NC, Drinking(e, d, s)
      PROVE  Phase(d)' /\ drink_count[w] = 0
  <2>1. job[b].order \in Lent /\ Lent \subseteq Customers
    BY <1>4, <1>7 DEF Drinking, Orders, Lent
  <2>2. q = "take"
    BY <1>3, <2>1, Roles
  <2>3. s + 1 \in 0..NC /\ Drinking(e, d, s + 1)' /\ drink_count[w] = 0
    BY <1>3, <1>5, <1>7, <2>2, ServeDrinking
  <2>. QED  BY <2>3 DEF Phase
<1>8. ASSUME NEW z \in Customers, GoingHome(z) PROVE GoingHome(z)' /\ drink_count[w] = 0
  <2>1. InHand(z)
    BY <1>4, <1>8 DEF GoingHome, Between, Put, Announced, Signalled, Quiet, Queued
  <2>2. Hands = {b} /\ job[b].order = GoHome /\ full_sem = NC
    BY <1>2, <1>4, <2>1 DEF InHand
  <2>3. w = drink_sem[drink_hi] /\ drink_count[w] = 0
    BY <1>4, <2>1, <2>2 DEF InHand, Pending, Unsignalled
  <2>4. drink_sem' = drink_sem
    BY <1>2, <2>3 DEF BarTypeOK
  <2>5. drink_hi' = drink_lo /\ order_lo = order_hi
    BY <1>2, <1>4, <1>8, <2>1, NextSlot DEF GoingHome, InHand, Pending
  <2>6. Where({"dequeue"})' = {}
    BY <1>2, <1>3, <2>1, CountKept DEF InHand
  <2>7. \A i \in 0..NC-1 : drink_count'[i] = IF i = order[GoHome].wait THEN 1 ELSE 0
    <3>1. \A i \in 0..NC-1 : drink_count[i] = 0
      BY <2>1 DEF InHand, Pending, Unsignalled
    <3>2. drink_count' = [drink_count EXCEPT ![w] = 1] /\ w = order[GoHome].wait
      BY <1>2, <2>2, <2>3
    <3>. HIDE DEF w
    <3>. QED  BY <3>1, <3>2 DEF BarTypeOK
  <2>8. Signalled(z)'
    BY <1>2, <1>5, <2>1, <2>2, <2>5, <2>6, <2>7 DEF Signalled, InHand, Quiet
  <2>. QED  BY <1>2, <1>5, <1>8, <2>3, <2>4, <2>5, <2>8 DEF GoingHome
<1>9. Phase(d)' /\ drink_count[w] = 0
  <2>1. CASE \E e, s \in 0..NC : Drinking(e, d, s)
    BY <1>7, <2>1
  <2>2. CASE d = NC /\ \E z \in Customers : GoingHome(z)
    BY <1>8, <2>2 DEF Phase
  <2>. QED  BY <1>1, <2>1, <2>2 DEF Phase
<1>10. BarTypeOK'
  <2>1. drink_count' \in [0..NC-1 -> 0..1]
    <3>1. drink_count' = [drink_count EXCEPT ![w] = 1]
      BY <1>2, <1>9
    <3>2. drink_count \in [0..NC-1 -> 0..1]
      BY DEF BarTypeOK
    <3>. HIDE DEF w
    <3>. QED  BY <1>4, <3>1, <3>2
  <2>2. drink_sem' \in [0..NC-1 -> 0..NC-1]
    <3>. HIDE DEF w
    <3>. QED  BY <1>2, <1>4 DEF BarTypeOK
  <2>3. drink_hi' \in 0..NC-1
    BY <1>2, <1>4, NextSlot
  <2>4. bar_pc' \in [Customers \cup Bartenders -> {"choose", "order", "enqueue", "announce", "wait",
         "drink", "home", "leave", "gone", "take", "dequeue", "free", "sort", "bottles", "mix",
         "pour", "return", "serve"}]
    BY <1>3 DEF BarTypeOK, Proceed
  <2>. HIDE DEF w
  <2>. QED  BY <1>2, <2>1, <2>2, <2>3, <2>4 DEF BarTypeOK
<1>11. Counts(d)'
  <2>1. ASSUME NEW x \in Customers, NEW i \in Slots PROVE Poured(x, i, d)' <=> Poured(x, i, d)
    <3>1. Past(b, i)
      BY <1>2 DEF Past
    <3>2. \A a \in Hands : a # b => (Past(a, i)' <=> Past(a, i))
      BY <1>2, <1>4, <1>5 DEF Past
    <3>3. (\A a \in Hands \ {b} : job[a].order = x => Past(a, i)') <=> \A a \in Hands : job[a].order = x => Past(a, i)
      BY <1>4, <3>1, <3>2
    <3>. QED  BY <1>2, <1>5, <3>3 DEF Poured
  <2>2. \A x \in Customers, i \in Slots, k \in Bottle :
           (Poured(x, i, d)' /\ order'[x].requested[i] = k) <=> (Poured(x, i, d) /\ order[x].requested[i] = k)
    BY <1>2, <2>1
  <2>. QED  BY <1>1, <1>2, <2>2, CountsSame
<1>. QED  BY <1>1, <1>5, <1>6, <1>9, <1>10, <1>11

-----------------------------------------------------------------------------
(* The theorems *)

\* Nothing changes when nothing moves.
LEMMA BarStutter == ASSUME BarIInv, UNCHANGED barVars PROVE BarIInv'
<1>. USE DEF barVars
<1>1. BarTypeOK' /\ Places' /\ Gone' /\ Hands' = Hands
  BY DEF BarIInv, BarTypeOK, Places, Gone, Hands, Where
<1>2. Work'
  BY <1>1 DEF BarIInv, Work, Tasks, BottlesOf, GlassOf, Noted, Taken, Filled
<1>3. PICK d \in 0..NC : Phase(d) /\ Counts(d)
  BY DEF BarIInv
<1>4. Lent' = Lent /\ \A places : Where(places)' = Where(places)
  BY DEF Lent, Where
<1>5. ASSUME NEW e, NEW s, Drinking(e, d, s) PROVE Drinking(e, d, s)'
  <2>1. Conserved(e, d)' /\ Thirsty'
    BY <1>5 DEF Drinking, Conserved, Thirsty, Where
  <2>2. Signals(d)'
    BY <1>1, <1>4, <1>5 DEF Drinking, Signals, Served, Waits
  <2>. QED  BY <1>1, <1>4, <1>5, <2>1, <2>2, DrinkingStays
<1>6. ASSUME NEW z \in Customers, GoingHome(z) PROVE GoingHome(z)'
  BY <1>1, <1>4, <1>6, HomeStays
<1>7. Phase(d)'
  BY <1>3, <1>5, <1>6 DEF Phase
<1>8. Counts(d)'
  <2>1. \A x \in Customers, i \in Slots : Poured(x, i, d)' <=> Poured(x, i, d)
    BY <1>1, <1>4 DEF Poured, Past
  <2>2. \A x \in Customers, i \in Slots, k \in Bottle :
           (Poured(x, i, d)' /\ order'[x].requested[i] = k) <=> (Poured(x, i, d) /\ order[x].requested[i] = k)
    BY <2>1
  <2>. QED  BY <1>3, <2>2, CountsSame
<1>. QED  BY <1>1, <1>2, <1>3, <1>7, <1>8 DEF BarIInv

\* With one drink per customer every step of customer and bartender keeps the invariant.
LEMMA BarNextStep == ASSUME Rounds = 1, BarIInv, [BarNext]_barVars PROVE BarIInv'
<1>1. ASSUME NEW c \in Customers, CustomerStep(c) PROVE BarIInv'
  <2>1. CASE Choose(c)
    BY <2>1, ChooseStep
  <2>2. CASE OrderP(c)
    BY <2>2, OrderPStep
  <2>3. CASE Enqueue(c)
    BY <2>3, EnqueueStep
  <2>4. CASE Announce(c)
    BY <2>4, AnnounceStep
  <2>5. CASE Wait(c)
    BY <2>5, BarWaitStep
  <2>6. CASE Drink(c)
    BY <2>6, DrinkStep
  <2>7. CASE Home(c)
    BY <2>7, HomeStep
  <2>8. CASE Leave(c)
    BY <2>8, LeaveStep
  <2>. QED  BY <1>1, <2>1, <2>2, <2>3, <2>4, <2>5, <2>6, <2>7, <2>8 DEF CustomerStep
<1>2. ASSUME NEW b \in Bartenders, BartenderStep(b) PROVE BarIInv'
  <2>1. CASE TakeP(b)
    BY <2>1, TakePStep
  <2>2. CASE Dequeue(b)
    BY <2>2, DequeueStep
  <2>3. CASE Free(b)
    BY <2>3, FreeStep
  <2>4. CASE Sort(b)
    BY <2>4, SortStep
  <2>5. CASE TakeBottle(b)
    BY <2>5, TakeBottleStep
  <2>6. CASE Mix(b)
    BY <2>6, MixStep
  <2>7. CASE Pour(b)
    BY <2>7, PourStep
  <2>8. CASE ReturnBottle(b)
    BY <2>8, ReturnBottleStep
  <2>9. CASE Serve(b)
    BY <2>9, ServeStep
  <2>10. CASE Leave(b)
    BY <2>10, LeaveStep
  <2>. QED  BY <1>2, <2>1, <2>2, <2>3, <2>4, <2>5, <2>6, <2>7, <2>8, <2>9, <2>10 DEF BartenderStep
<1>3. CASE UNCHANGED barVars
  BY <1>3, BarStutter
<1>. QED  BY <1>1, <1>2, <1>3 DEF BarNext

\* When each customer has one drink (Rounds = 1), the rings of orders and semaphores,
\* the bottles locked and the doses counted agree in every state.
THEOREM BarInvariant == Rounds = 1 => (BarSpec => []BarIInv)
<1>. SUFFICES ASSUME Rounds = 1 PROVE BarSpec => []BarIInv
  OBVIOUS
<1>1. BarInit => BarIInv
  BY BarInitInvariant
<1>2. BarIInv /\ [BarNext]_barVars => BarIInv'
  BY BarNextStep
<1>. QED  BY <1>1, <1>2, PTL DEF BarSpec

\* The bar's variables keep their types: no semaphore of the pool counts more than one
\* signal, and neither count of the ring's slots leaves 0..NC.
THEOREM BarTypeCorrect == Rounds = 1 => (BarSpec => []BarTypeOK)
<1>1. BarIInv => BarTypeOK
  BY DEF BarIInv
<1>. QED  BY <1>1, BarInvariant, PTL

\* Every customer, of however many, comes back from order_drink with what it asked for.
THEOREM GlassesFilled == Rounds = 1 => (BarSpec => []GlassFilled)
<1>1. BarIInv => GlassFilled
  BY BarInvariantSuffices
<1>. QED  BY <1>1, BarInvariant, PTL

\* No bartender releases a bottle that is not its own, or forgets one it holds.
THEOREM BottlesReturned == Rounds = 1 => (BarSpec => []ReleasesItsOwn)
<1>1. BarIInv => ReleasesItsOwn
  BY BarInvariantSuffices
<1>. QED  BY <1>1, BarInvariant, PTL

\* bar_close finds rings empty, locks free and every semaphore back in the pool.
THEOREM BarClosesClean == Rounds = 1 => (BarSpec => []ClosesClean)
<1>1. BarIInv => ClosesClean
  BY BarInvariantSuffices
<1>. QED  BY <1>1, BarInvariant, PTL

\* No dose poured is lost from the counts that run_bar prints.
THEOREM DosesCounted == Rounds = 1 => (BarSpec => []DosesAddUp)
<1>1. BarIInv => DosesAddUp
  BY BarInvariantSuffices
<1>. QED  BY <1>1, BarInvariant, PTL
=============================================================================
