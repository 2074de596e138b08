------------------------------ MODULE Hangman ------------------------------
(***************************************************************************)
(* The deadlock detector of kern/thread/hangman.c, with the sleep locks of *)
(* kern/thread/synch.c that call it (a kernel built with options hangman). *)
(*                                                                         *)
(* The detector keeps a graph of its own: l_holding of each lock and       *)
(* a_waiting of each thread, both guarded by the spinlock hangman_lock.    *)
(* Before a thread waits for a lock, hangman_wait follows the graph from   *)
(* the lock; if it comes back to the thread, the kernel reports the cycle  *)
(* and panics.  The graph is not the locks themselves: lk_holder changes   *)
(* one call earlier than l_holding, and the report follows the graph again *)
(* after it has dropped hangman_lock.                                      *)
(*                                                                         *)
(* lk_lock and hangman_lock are spinlocks: their holder runs with          *)
(* interrupts off.  A step of the walk is a step here, and so is each of   *)
(* the detector's other two functions, which hold hangman_lock throughout. *)
(***************************************************************************)
EXTENDS WaitChannel

CONSTANTS Threads,  \* threads that use the locks: the actors of the graph
          Locks,    \* sleep locks: its lockables
          NoThread, \* NULL as a holder, and a spinlock that is free
          NoLock    \* NULL as what a thread waits for

ASSUME HangmanAssumption ==
  /\ NoThread \notin Threads
  /\ NoLock \notin Locks

VARIABLES lk_lock,      \* lock->lk_lock: the thread that has this spinlock
          lk_holder,    \* lock->lk_holder
          lk_wchan,     \* lock->lk_wchan, first to sleep first
          hangman_lock, \* the thread that has the detector's spinlock
          l_holding,    \* lock->lk_hangman.l_holding
          a_waiting,    \* thread->t_hangman.a_waiting
          pc,           \* where each thread is in lock_acquire and lock_release
          want,         \* the lock of the call it is in
          cur,          \* local variable of hangman_check
          panic         \* what the kernel has stopped with

graph  == <<l_holding, a_waiting>>
locks  == <<lk_lock, lk_holder, lk_wchan>>
locals == <<want, cur>>
vars   == <<lk_lock, lk_holder, lk_wchan, hangman_lock, l_holding, a_waiting, pc, want, cur, panic>>

\* "wait" calls hangman_wait, "walk" is in hangman_check, "report" past its
\* label found, "loop" at the test of lk_holder, "asleep" in wchan_sleep,
\* "woken" on its way out of it, "record" calls hangman_acquire and "unrecord"
\* hangman_release.
Spinning == {"wait", "walk", "report", "loop", "record", "unrecord"}
Places   == Spinning \cup {"run", "asleep", "woken"}

Panics == {"none", "Deadlock.", "already waiting", "not waiting", "still held",
           "waiting for something", "not the holder", "assertion", "null pointer"}

TypeOK ==
  /\ lk_lock \in [Locks -> Threads \cup {NoThread}]
  /\ lk_holder \in [Locks -> Threads \cup {NoThread}]
  /\ lk_wchan \in [Locks -> Seq(Threads)]
  /\ hangman_lock \in Threads \cup {NoThread}
  /\ l_holding \in [Locks -> Threads \cup {NoThread}]
  /\ a_waiting \in [Threads -> Locks \cup {NoLock}]
  /\ pc \in [Threads -> Places]
  /\ want \in [Threads -> Locks \cup {NoLock}]
  /\ cur \in [Threads -> Threads \cup {NoThread}]
  /\ panic \in Panics

\* lock_create and the creation of the threads, with HANGMAN_LOCKABLEINIT and
\* HANGMAN_ACTORINIT.
Init ==
  /\ lk_lock = [l \in Locks |-> NoThread]
  /\ lk_holder = [l \in Locks |-> NoThread]
  /\ lk_wchan = [l \in Locks |-> <<>>]
  /\ hangman_lock = NoThread
  /\ l_holding = [l \in Locks |-> NoThread]
  /\ a_waiting = [t \in Threads |-> NoLock]
  /\ pc = [t \in Threads |-> "run"]
  /\ want = [t \in Threads |-> NoLock]
  /\ cur = [t \in Threads |-> NoThread]
  /\ panic = "none"

Goto(t, place) == pc' = [pc EXCEPT ![t] = place]

Stop(why) ==
  /\ panic' = why
  /\ UNCHANGED <<locks, hangman_lock, graph, pc, locals>>

-----------------------------------------------------------------------------
(* lock_acquire *)

\* lock_acquire: spinlock_acquire of lk_lock.  Any lock, the ones the thread
\* has already included: a mistaken caller is what the detector is for.
LockAcquire(t, l) ==
  /\ pc[t] = "run" /\ lk_lock[l] = NoThread
  /\ lk_lock' = [lk_lock EXCEPT ![l] = t]
  /\ want' = [want EXCEPT ![t] = l]
  /\ Goto(t, "wait")
  /\ UNCHANGED <<lk_holder, lk_wchan, hangman_lock, graph, cur, panic>>

\* hangman_wait up to the loop of hangman_check.
HangmanWait(t) ==
  /\ pc[t] = "wait" /\ hangman_lock = NoThread
  /\ IF a_waiting[t] # NoLock THEN Stop("already waiting")
     ELSE /\ hangman_lock' = t
          /\ cur' = [cur EXCEPT ![t] = l_holding[want[t]]]
          /\ Goto(t, "walk")
          /\ UNCHANGED <<locks, graph, want, panic>>

\* hangman_check has more to follow: the holder is another thread, and waits.
WalkOn(t) ==
  /\ pc[t] = "walk"
  /\ cur[t] \in Threads \ {t} /\ a_waiting[cur[t]] # NoLock
  /\ cur' = [cur EXCEPT ![t] = l_holding[a_waiting[cur[t]]]]
  /\ UNCHANGED <<locks, hangman_lock, graph, pc, want, panic>>

\* Mutation: the walk gives up behind the first holder.
WalkEndShallow(t) ==
  /\ pc[t] = "walk"
  /\ cur[t] # t
  /\ a_waiting' = [a_waiting EXCEPT ![t] = want[t]]
  /\ hangman_lock' = NoThread
  /\ cur' = [cur EXCEPT ![t] = NoThread]
  /\ Goto(t, "loop")
  /\ UNCHANGED <<locks, l_holding, want, panic>>

\* hangman_check returns: nobody has the lock, or who is last on the path does
\* not wait.  hangman_wait adds the edge, and lock_acquire asserts that its
\* caller is not the holder; lk_lock has been held all the time.
WalkEnd(t) ==
  /\ pc[t] = "walk"
  /\ cur[t] # NoThread => cur[t] # t /\ a_waiting[cur[t]] = NoLock
  /\ a_waiting' = [a_waiting EXCEPT ![t] = want[t]]
  /\ hangman_lock' = NoThread
  /\ Goto(t, "loop")
  /\ panic' = IF lk_holder[want[t]] = t THEN "assertion" ELSE panic
  /\ cur' = [cur EXCEPT ![t] = NoThread]
  /\ UNCHANGED <<locks, l_holding, want>>

\* hangman_check, found: hangman_lock is dropped before the cycle is printed.
WalkFound(t) ==
  /\ pc[t] = "walk" /\ cur[t] = t
  /\ hangman_lock' = NoThread
  /\ cur' = [cur EXCEPT ![t] = l_holding[want[t]]]
  /\ Goto(t, "report")
  /\ UNCHANGED <<locks, graph, want, panic>>

\* The loop that prints the cycle, without the lock that guards it.
Report(t) ==
  /\ pc[t] = "report"
  /\ IF cur[t] = t THEN Stop("Deadlock.")
     ELSE IF cur[t] = NoThread \/ a_waiting[cur[t]] = NoLock THEN Stop("null pointer")
     ELSE /\ cur' = [cur EXCEPT ![t] = l_holding[a_waiting[cur[t]]]]
          /\ UNCHANGED <<locks, hangman_lock, graph, pc, want, panic>>

\* lock_acquire: somebody has the lock.  wchan_sleep lets go of lk_lock.
LockSleep(t) ==
  /\ pc[t] = "loop" /\ lk_holder[want[t]] # NoThread
  /\ lk_wchan' = [lk_wchan EXCEPT ![want[t]] = Asleep(@, t)]
  /\ lk_lock' = [lk_lock EXCEPT ![want[t]] = NoThread]
  /\ Goto(t, "asleep")
  /\ UNCHANGED <<lk_holder, hangman_lock, graph, locals, panic>>

\* wchan_sleep after the wakeup: it takes lk_lock again.
LockRetest(t) ==
  /\ pc[t] = "woken" /\ lk_lock[want[t]] = NoThread
  /\ lk_lock' = [lk_lock EXCEPT ![want[t]] = t]
  /\ Goto(t, "loop")
  /\ UNCHANGED <<lk_holder, lk_wchan, hangman_lock, graph, locals, panic>>

\* lock_acquire: nobody has the lock.
LockTake(t) ==
  /\ pc[t] = "loop" /\ lk_holder[want[t]] = NoThread
  /\ lk_holder' = [lk_holder EXCEPT ![want[t]] = t]
  /\ Goto(t, "record")
  /\ UNCHANGED <<lk_lock, lk_wchan, hangman_lock, graph, locals, panic>>

\* Mutation: hangman_acquire leaves the edge of the wait.
HangmanAcquireKeeps(t) ==
  /\ pc[t] = "record" /\ hangman_lock = NoThread
  /\ l_holding' = [l_holding EXCEPT ![want[t]] = t]
  /\ lk_lock' = [lk_lock EXCEPT ![want[t]] = NoThread]
  /\ Goto(t, "run")
  /\ want' = [want EXCEPT ![t] = NoLock]
  /\ UNCHANGED <<lk_holder, lk_wchan, hangman_lock, a_waiting, cur, panic>>

\* hangman_acquire, and the spinlock_release that ends lock_acquire.
HangmanAcquire(t) ==
  /\ pc[t] = "record" /\ hangman_lock = NoThread
  /\ IF a_waiting[t] # want[t] THEN Stop("not waiting")
     ELSE IF l_holding[want[t]] # NoThread THEN Stop("still held")
     ELSE /\ l_holding' = [l_holding EXCEPT ![want[t]] = t]
          /\ a_waiting' = [a_waiting EXCEPT ![t] = NoLock]
          /\ lk_lock' = [lk_lock EXCEPT ![want[t]] = NoThread]
          /\ Goto(t, "run")
          /\ want' = [want EXCEPT ![t] = NoLock]
          /\ UNCHANGED <<lk_holder, lk_wchan, hangman_lock, cur, panic>>

-----------------------------------------------------------------------------
(* lock_release *)

\* Mutation: hangman_release comes after the spinlock is free.
LockReleaseEarly(t, l) ==
  /\ pc[t] = "run" /\ lk_holder[l] = t /\ lk_lock[l] = NoThread
  /\ lk_holder' = [lk_holder EXCEPT ![l] = NoThread]
  /\ want' = [want EXCEPT ![t] = l]
  /\ IF lk_wchan[l] = <<>>
     THEN /\ Goto(t, "unrecord")
          /\ UNCHANGED lk_wchan
     ELSE /\ pc' = [pc EXCEPT ![t] = "unrecord", ![Woke(lk_wchan[l])] = "woken"]
          /\ lk_wchan' = [lk_wchan EXCEPT ![l] = AfterWakeOne(@)]
  /\ UNCHANGED <<lk_lock, hangman_lock, graph, cur, panic>>

\* lock_release: the lock is free and its longest sleeper runnable; what the
\* detector knows is a call behind.
LockRelease(t, l) ==
  /\ pc[t] = "run" /\ lk_holder[l] = t /\ lk_lock[l] = NoThread
  /\ lk_lock' = [lk_lock EXCEPT ![l] = t]
  /\ lk_holder' = [lk_holder EXCEPT ![l] = NoThread]
  /\ want' = [want EXCEPT ![t] = l]
  /\ IF lk_wchan[l] = <<>>
     THEN /\ Goto(t, "unrecord")
          /\ UNCHANGED lk_wchan
     ELSE /\ pc' = [pc EXCEPT ![t] = "unrecord", ![Woke(lk_wchan[l])] = "woken"]
          /\ lk_wchan' = [lk_wchan EXCEPT ![l] = AfterWakeOne(@)]
  /\ UNCHANGED <<hangman_lock, graph, cur, panic>>

\* Mutation: hangman_release leaves the holder recorded.
HangmanReleaseKeeps(t) ==
  /\ pc[t] = "unrecord" /\ hangman_lock = NoThread
  /\ lk_lock' = [lk_lock EXCEPT ![want[t]] = NoThread]
  /\ Goto(t, "run")
  /\ want' = [want EXCEPT ![t] = NoLock]
  /\ UNCHANGED <<lk_holder, lk_wchan, hangman_lock, graph, cur, panic>>

\* hangman_release, and the spinlock_release that ends lock_release.
HangmanRelease(t) ==
  /\ pc[t] = "unrecord" /\ hangman_lock = NoThread
  /\ IF a_waiting[t] # NoLock THEN Stop("waiting for something")
     ELSE IF l_holding[want[t]] # t THEN Stop("not the holder")
     ELSE /\ l_holding' = [l_holding EXCEPT ![want[t]] = NoThread]
          /\ lk_lock' = [lk_lock EXCEPT ![want[t]] = NoThread]
          /\ Goto(t, "run")
          /\ want' = [want EXCEPT ![t] = NoLock]
          /\ UNCHANGED <<lk_holder, lk_wchan, hangman_lock, a_waiting, cur, panic>>

-----------------------------------------------------------------------------

Detector(t) == WalkOn(t) \/ WalkEnd(t) \/ WalkFound(t) \/ Report(t)

Step(t) ==
  \/ HangmanWait(t) \/ Detector(t)
  \/ LockSleep(t) \/ LockRetest(t) \/ LockTake(t)
  \/ HangmanAcquire(t) \/ HangmanRelease(t)
  \/ \E l \in Locks : LockAcquire(t, l) \/ LockRelease(t, l)

\* After a panic nothing runs.
Halted == panic # "none" /\ UNCHANGED vars

Next == Halted \/ (panic = "none" /\ \E t \in Threads : Step(t))

\* A thread inside hangman_check runs on: it holds a spinlock or has called
\* splhigh, so nothing interrupts it.
Fairness == \A t \in Threads : WF_vars(panic = "none" /\ Detector(t))

Spec == Init /\ [][Next]_vars /\ Fairness

-----------------------------------------------------------------------------
(* Properties *)

\* A set of threads is stuck when each of them waits, past hangman_wait, for a
\* lock that one of them holds: none of them will ever run again.
Waits(t) == pc[t] \in {"loop", "asleep", "woken"}

Stuck(S) == \A t \in S : Waits(t) /\ lk_holder[want[t]] \in S

\* No deadlock goes unreported: no threads are ever stuck, because the one that
\* would close the cycle finds it before it waits (hangman_wait calls
\* hangman_check under the lock that guards the graph).
NoSilentDeadlock == \A S \in SUBSET Threads : Stuck(S) => S = {}

\* No false alarm: when a thread reports a cycle it is about to wait for a lock
\* held by one of a set of threads that wait for each other and for itself, by
\* lk_holder and not by what the detector recorded (hangman_check, found).
WouldBeStuck(t) ==
  \E S \in SUBSET (Threads \ {t}) :
    /\ lk_holder[want[t]] \in S \cup {t}
    /\ \A u \in S : Waits(u) /\ lk_holder[want[u]] \in S \cup {t}

ReportIsTrue == \A t \in Threads : pc[t] = "report" => WouldBeStuck(t)

\* The detector's own panics, its callers' assertion and a null pointer in the
\* report never happen: "None of this can change while we print it (that's the
\* point of it being a deadlock)", hangman.c:71.
OnlyDeadlock == panic \in {"none", "Deadlock."}

\* The walk and the report come to an end: neither goes round a cycle that its
\* target is not on (the loops of hangman_check).
CheckEnds ==
  \A t \in Threads :
    pc[t] \in {"walk", "report"} ~> (pc[t] \notin {"walk", "report"} \/ panic # "none")
=============================================================================
