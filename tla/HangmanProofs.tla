--------------------------- MODULE HangmanProofs ---------------------------
(***************************************************************************)
(* The deadlock detector of Hangman.tla, for every set of threads and      *)
(* locks: it finds every deadlock before it exists, reports nothing else,  *)
(* and no assertion of its own or of its callers can fail, the report that *)
(* runs without the lock included.                                         *)
(***************************************************************************)
EXTENDS Hangman, WaitChannelFacts

-----------------------------------------------------------------------------
(* The inductive invariant, part by part *)

\* Who spins or runs inside a call has the spinlock of the lock it is about.
SpinsExact ==
  \A t \in Threads : /\ pc[t] # "run" => want[t] \in Locks
                     /\ \A l \in Locks : lk_lock[l] = t <=> pc[t] \in Spinning /\ want[t] = l

\* The detector's spinlock belongs to the thread that walks.
WalkGuarded == \A t \in Threads : hangman_lock = t <=> pc[t] = "walk"

\* An edge a_waiting lasts from the end of hangman_wait to hangman_acquire.
InWait == {"loop", "asleep", "woken", "record"}

EdgesExact == \A t \in Threads : a_waiting[t] = IF pc[t] \in InWait THEN want[t] ELSE NoLock

\* The recorded holder is lk_holder, except in the calls that bring it up to
\* date: not yet before hangman_acquire, and still before hangman_release.
HoldersExact ==
  \A t \in Threads, l \in Locks :
    /\ l_holding[l] = t <=> \/ lk_holder[l] = t /\ ~(pc[t] = "record" /\ want[t] = l)
                            \/ pc[t] = "unrecord" /\ want[t] = l
    /\ pc[t] = "record" /\ want[t] = l => lk_holder[l] = t
    /\ pc[t] = "unrecord" /\ want[t] = l => lk_holder[l] = NoThread

\* Each channel lists the threads asleep for its lock.
Sleepers(l) == {t \in Threads : pc[t] = "asleep" /\ want[t] = l}

ChannelsExact == \A l \in Locks : Lists(lk_wchan[l], Sleepers(l))

\* The recorded graph has no cycle: no threads wait for each other.  That a
\* walk cannot go round for ever needs it, and the walk is what preserves it.
Follows(u, S) == a_waiting[u] # NoLock /\ l_holding[a_waiting[u]] \in S

NoCycle == \A S \in SUBSET Threads : (\A u \in S : Follows(u, S)) => S = {}

\* The walk is on the path from the lock: a set of threads that holds its
\* start and all that follows holds the place it has reached ...
Closed(S) == \A u \in S : a_waiting[u] # NoLock => Follows(u, S)

OnPath ==
  \A t \in Threads : pc[t] = "walk" =>
    \A S \in SUBSET Threads : l_holding[want[t]] \in S /\ Closed(S) => cur[t] \in S

\* ... and the threads it has passed lead to one another or to that place.
PathBehind ==
  \A t \in Threads : pc[t] = "walk" /\ cur[t] # NoThread =>
    \E S \in SUBSET Threads : t \notin S /\ l_holding[want[t]] \in S \cup {cur[t]}
                              /\ \A u \in S : Follows(u, S \cup {cur[t]})

\* A report goes round a cycle that is still there.
CycleStays ==
  \A t \in Threads : pc[t] = "report" =>
    \E S \in SUBSET Threads : t \notin S /\ {l_holding[want[t]], cur[t]} \subseteq S \cup {t}
                              /\ \A u \in S : Follows(u, S \cup {t})

Control == TypeOK /\ SpinsExact /\ WalkGuarded /\ EdgesExact /\ HoldersExact /\ ChannelsExact

IInv == Control /\ NoCycle /\ OnPath /\ PathBehind /\ CycleStays /\ OnlyDeadlock

-----------------------------------------------------------------------------
(* What LockRelease does to the longest sleeper *)

\* The head of a channel sleeps there, and the rest stays listed.
LEMMA HeadSleeps ==
  ASSUME Control, NEW l \in Locks, lk_wchan[l] # <<>>
  PROVE  /\ Woke(lk_wchan[l]) \in Sleepers(l)
         /\ AfterWakeOne(lk_wchan[l]) \in Seq(Threads)
         /\ Lists(AfterWakeOne(lk_wchan[l]), Sleepers(l) \ {Woke(lk_wchan[l])})
<1>1. lk_wchan[l] \in Seq(Threads) /\ Lists(lk_wchan[l], Sleepers(l))
  BY DEF Control, TypeOK, ChannelsExact
<1>. QED  BY <1>1, WakeLists

\* lock_release either wakes nobody or a thread that sleeps for this lock.
Release(t, l, awake) ==
  /\ pc[t] = "run" /\ lk_holder[l] = t /\ lk_lock[l] = NoThread
  /\ lk_lock' = [lk_lock EXCEPT ![l] = t]
  /\ lk_holder' = [lk_holder EXCEPT ![l] = NoThread]
  /\ want' = [want EXCEPT ![t] = l]
  /\ awake \subseteq Sleepers(l)
  /\ pc' = [u \in Threads |-> IF u = t THEN "unrecord" ELSE IF u \in awake THEN "woken" ELSE pc[u]]
  /\ UNCHANGED <<hangman_lock, graph, cur, panic>>

LEMMA ReleaseWakes ==
  ASSUME Control, NEW t \in Threads, NEW l \in Locks, LockRelease(t, l)
  PROVE  \E awake : /\ Release(t, l, awake)
                    /\ lk_wchan' \in [Locks -> Seq(Threads)]
                    /\ Lists(lk_wchan'[l], Sleepers(l) \ awake)
                    /\ \A k \in Locks \ {l} : lk_wchan'[k] = lk_wchan[k]
<1>1. CASE lk_wchan[l] = <<>>
  <2>1. Release(t, l, {}) /\ UNCHANGED lk_wchan
    BY <1>1 DEF LockRelease, Release, Goto, Control, TypeOK
  <2>2. Lists(lk_wchan[l], Sleepers(l) \ {})
    BY DEF Control, ChannelsExact
  <2>. QED  BY <2>1, <2>2 DEF Control, TypeOK
<1>2. CASE lk_wchan[l] # <<>>
  <2>. DEFINE h == Woke(lk_wchan[l])
              rest == AfterWakeOne(lk_wchan[l])
  <2>1. h \in Sleepers(l) /\ rest \in Seq(Threads) /\ Lists(rest, Sleepers(l) \ {h})
    BY <1>2, HeadSleeps
  <2>2. /\ lk_wchan' = [lk_wchan EXCEPT ![l] = rest]
        /\ pc' = [pc EXCEPT ![t] = "unrecord", ![h] = "woken"]
    BY <1>2 DEF LockRelease
  <2>. HIDE DEF h, rest
  <2>3. h # t /\ h \in Threads
    BY <2>1 DEF Sleepers, LockRelease
  <2>4. Release(t, l, {h})
    BY <2>1, <2>2, <2>3 DEF LockRelease, Release, Control, TypeOK
  <2>. QED  BY <2>1, <2>2, <2>4 DEF Control, TypeOK
<1>. QED  BY <1>1, <1>2

-----------------------------------------------------------------------------
(* Every step keeps the parts about locks and program counters *)

\* What the functions of the detector do in a state of the invariant, where
\* none of their panics can happen.
Waited(t) ==
  /\ pc[t] = "wait" /\ hangman_lock = NoThread /\ want[t] \in Locks
  /\ hangman_lock' = t /\ cur' = [cur EXCEPT ![t] = l_holding[want[t]]]
  /\ pc' = [pc EXCEPT ![t] = "walk"]
  /\ UNCHANGED <<lk_lock, lk_holder, lk_wchan, l_holding, a_waiting, want, panic>>

LEMMA WaitEffect ==
  ASSUME Control, NEW t \in Threads, HangmanWait(t)
  PROVE  Waited(t)
BY DEF Control, EdgesExact, InWait, SpinsExact, HangmanWait, Goto, locks, graph, Waited

Acquired(t) ==
  /\ pc[t] = "record" /\ hangman_lock = NoThread /\ want[t] \in Locks
  /\ lk_holder[want[t]] = t /\ l_holding[want[t]] = NoThread /\ a_waiting[t] = want[t]
  /\ l_holding' = [l_holding EXCEPT ![want[t]] = t]
  /\ a_waiting' = [a_waiting EXCEPT ![t] = NoLock]
  /\ lk_lock' = [lk_lock EXCEPT ![want[t]] = NoThread]
  /\ pc' = [pc EXCEPT ![t] = "run"] /\ want' = [want EXCEPT ![t] = NoLock]
  /\ UNCHANGED <<lk_holder, lk_wchan, hangman_lock, cur, panic>>

LEMMA AcquireEffect ==
  ASSUME Control, NEW t \in Threads, HangmanAcquire(t)
  PROVE  Acquired(t)
<1>1. /\ pc[t] = "record" /\ hangman_lock = NoThread
      /\ want[t] \in Locks /\ lk_lock[want[t]] = t /\ a_waiting[t] = want[t]
  BY DEF Control, EdgesExact, InWait, SpinsExact, Spinning, HangmanAcquire
<1>2. lk_holder[want[t]] = t /\ l_holding[want[t]] # t
  BY <1>1 DEF Control, HoldersExact
<1>3. \A u \in Threads \ {t} : l_holding[want[t]] # u
  BY <1>1, <1>2 DEF Control, HoldersExact, SpinsExact, Spinning
<1>4. l_holding[want[t]] = NoThread
  BY <1>1, <1>2, <1>3 DEF Control, TypeOK
<1>. QED  BY <1>1, <1>2, <1>4 DEF HangmanAcquire, Goto, Acquired

Released(t) ==
  /\ pc[t] = "unrecord" /\ hangman_lock = NoThread /\ want[t] \in Locks
  /\ lk_holder[want[t]] = NoThread /\ l_holding[want[t]] = t /\ a_waiting[t] = NoLock
  /\ l_holding' = [l_holding EXCEPT ![want[t]] = NoThread]
  /\ lk_lock' = [lk_lock EXCEPT ![want[t]] = NoThread]
  /\ pc' = [pc EXCEPT ![t] = "run"] /\ want' = [want EXCEPT ![t] = NoLock]
  /\ UNCHANGED <<lk_holder, lk_wchan, hangman_lock, a_waiting, cur, panic>>

LEMMA ReleaseEffect ==
  ASSUME Control, NEW t \in Threads, HangmanRelease(t)
  PROVE  Released(t)
<1>1. /\ pc[t] = "unrecord" /\ hangman_lock = NoThread
      /\ want[t] \in Locks /\ a_waiting[t] = NoLock
  BY DEF Control, EdgesExact, InWait, SpinsExact, HangmanRelease
<1>2. lk_holder[want[t]] = NoThread /\ l_holding[want[t]] = t
  BY <1>1 DEF Control, HoldersExact
<1>. QED  BY <1>1, <1>2 DEF HangmanRelease, Goto, Released

\* The report stops the kernel or goes on along the path.
Reported(t) ==
  /\ pc[t] = "report"
  /\ UNCHANGED <<lk_lock, lk_holder, lk_wchan, hangman_lock, l_holding, a_waiting, pc, want>>
  /\ \/ cur[t] = t /\ panic' = "Deadlock." /\ UNCHANGED cur
     \/ /\ cur[t] = NoThread \/ a_waiting[cur[t]] = NoLock
        /\ cur[t] # t /\ panic' = "null pointer" /\ UNCHANGED cur
     \/ /\ cur[t] \in Threads \ {t} /\ a_waiting[cur[t]] \in Locks
        /\ cur' = [cur EXCEPT ![t] = l_holding[a_waiting[cur[t]]]] /\ UNCHANGED panic

LEMMA ReportEffect ==
  ASSUME Control, NEW t \in Threads, Report(t)
  PROVE  Reported(t)
<1>1. pc[t] = "report" /\ UNCHANGED <<lk_lock, lk_holder, lk_wchan, hangman_lock, l_holding, a_waiting, pc, want>>
  BY DEF Report, Stop, locks, graph, locals
<1>2. CASE cur[t] = t
  BY <1>1, <1>2 DEF Report, Stop, locals, Reported
<1>3. CASE cur[t] # t /\ (cur[t] = NoThread \/ a_waiting[cur[t]] = NoLock)
  BY <1>1, <1>3 DEF Report, Stop, locals, Reported
<1>4. CASE cur[t] # t /\ ~(cur[t] = NoThread \/ a_waiting[cur[t]] = NoLock)
  <2>1. cur[t] \in Threads \ {t} /\ a_waiting[cur[t]] \in Locks
    BY <1>4 DEF Control, TypeOK
  <2>. QED  BY <1>1, <1>4, <2>1 DEF Report, Reported
<1>. QED  BY <1>2, <1>3, <1>4

\* The walk goes on along the path.
Walked(t) ==
  /\ pc[t] = "walk" /\ cur[t] \in Threads \ {t} /\ a_waiting[cur[t]] \in Locks
  /\ cur' = [cur EXCEPT ![t] = l_holding[a_waiting[cur[t]]]]
  /\ UNCHANGED <<lk_lock, lk_holder, lk_wchan, hangman_lock, l_holding, a_waiting, pc, want, panic>>

LEMMA WalkEffect ==
  ASSUME Control, NEW t \in Threads, WalkOn(t)
  PROVE  Walked(t)
BY DEF Control, TypeOK, WalkOn, locks, graph, Walked


\* Types.
LEMMA TypeStep ==
  ASSUME Control, NEW t \in Threads, Step(t)
  PROVE  TypeOK'
<1>a. Control /\ TypeOK /\ SpinsExact /\ WalkGuarded /\ NoThread \notin Threads /\ NoLock \notin Locks
  BY HangmanAssumption DEF Control, HangmanAssumption
<1>1. CASE HangmanWait(t)
  <2>1. Waited(t)
    BY <1>a, <1>1, WaitEffect
  <2>2. cur' \in [Threads -> Threads \cup {NoThread}]
    BY <1>a, <2>1 DEF Waited, TypeOK
  <2>. QED  BY <1>a, <2>1, <2>2 DEF Waited, TypeOK, Spinning, Places
<1>2. CASE WalkOn(t)
  <2>1. Walked(t)
    BY <1>a, <1>2, WalkEffect
  <2>2. cur' \in [Threads -> Threads \cup {NoThread}]
    BY <1>a, <2>1 DEF Walked, TypeOK
  <2>. QED  BY <1>a, <2>1, <2>2 DEF Walked, TypeOK
<1>3. CASE WalkEnd(t)
  BY <1>a, <1>3 DEF WalkEnd, Goto, Stop, TypeOK, SpinsExact, Spinning, Places, Panics, locks, graph, locals
<1>4. CASE WalkFound(t)
  <2>1. want[t] \in Locks /\ pc[t] = "walk"
    BY <1>a, <1>4 DEF WalkFound, SpinsExact
  <2>2. cur' \in [Threads -> Threads \cup {NoThread}] /\ pc' \in [Threads -> Places]
    BY <1>a, <1>4, <2>1 DEF WalkFound, Goto, TypeOK, Places, Spinning
  <2>. QED  BY <1>a, <1>4, <2>2 DEF WalkFound, TypeOK, locks, graph
<1>5. CASE Report(t)
  <2>1. Reported(t)
    BY <1>a, <1>5, ReportEffect
  <2>2. cur' \in [Threads -> Threads \cup {NoThread}]
    BY <1>a, <2>1 DEF Reported, TypeOK
  <2>. QED  BY <1>a, <2>1, <2>2 DEF Reported, TypeOK, Panics
<1>6. CASE LockSleep(t)
  <2>1. want[t] \in Locks /\ lk_wchan[want[t]] \in Seq(Threads)
    BY <1>a, <1>6 DEF LockSleep, TypeOK, SpinsExact
  <2>2. Asleep(lk_wchan[want[t]], t) \in Seq(Threads)
    BY <2>1 DEF Asleep
  <2>. QED  BY <1>a, <1>6, <2>1, <2>2 DEF LockSleep, Goto, TypeOK, Spinning, Places, Panics, locks, graph, locals
<1>7. CASE LockRetest(t)
  BY <1>a, <1>7 DEF LockRetest, Goto, Stop, TypeOK, SpinsExact, Spinning, Places, Panics, locks, graph, locals
<1>8. CASE LockTake(t)
  BY <1>a, <1>8 DEF LockTake, Goto, Stop, TypeOK, SpinsExact, Spinning, Places, Panics, locks, graph, locals
<1>9. CASE HangmanAcquire(t)
  <2>1. Acquired(t)
    BY <1>a, <1>9, AcquireEffect
  <2>. QED  BY <1>a, <2>1 DEF Acquired, TypeOK, SpinsExact, Spinning, Places, Panics, locks, graph, locals
<1>10. CASE HangmanRelease(t)
  <2>1. Released(t)
    BY <1>a, <1>10, ReleaseEffect
  <2>. QED  BY <1>a, <2>1 DEF Released, TypeOK, SpinsExact, Spinning, Places, Panics, locks, graph, locals
<1>11. CASE \E l \in Locks : LockAcquire(t, l)
  <2>1. PICK l \in Locks : LockAcquire(t, l)
    BY <1>11
  <2>2. /\ lk_lock' \in [Locks -> Threads \cup {NoThread}] /\ want' \in [Threads -> Locks \cup {NoLock}]
        /\ pc' \in [Threads -> Places]
    BY <1>a, <2>1 DEF LockAcquire, Goto, TypeOK, Places, Spinning
  <2>. QED  BY <1>a, <2>1, <2>2 DEF LockAcquire, TypeOK, graph
<1>12. CASE \E l \in Locks : LockRelease(t, l)
  <2>1. PICK l \in Locks : LockRelease(t, l)
    BY <1>12
  <2>2. PICK awake : /\ Release(t, l, awake)
                     /\ lk_wchan' \in [Locks -> Seq(Threads)]
                     /\ Lists(lk_wchan'[l], Sleepers(l) \ awake)
                     /\ \A k \in Locks \ {l} : lk_wchan'[k] = lk_wchan[k]
    BY <2>1, ReleaseWakes
  <2>. QED  BY <1>a, <2>2 DEF Release, Sleepers, TypeOK, Places, Spinning, Panics, locks, graph, locals
<1>. QED  BY <1>1, <1>2, <1>3, <1>4, <1>5, <1>6, <1>7, <1>8, <1>9, <1>10, <1>11, <1>12 DEF Step, Detector

\* The two kinds of spinlock.
LEMMA SpinStep ==
  ASSUME Control, NEW t \in Threads, Step(t)
  PROVE  SpinsExact' /\ WalkGuarded'
<1>a. Control /\ TypeOK /\ SpinsExact /\ WalkGuarded /\ NoThread \notin Threads /\ NoLock \notin Locks
  BY HangmanAssumption DEF Control, HangmanAssumption
<1>1. CASE HangmanWait(t)
  <2>1. Waited(t)
    BY <1>a, <1>1, WaitEffect
  <2>. QED  BY <1>a, <2>1 DEF Waited, TypeOK, SpinsExact, WalkGuarded, Spinning, locks, graph, locals
<1>2. CASE WalkOn(t)
  <2>1. Walked(t)
    BY <1>a, <1>2, WalkEffect
  <2>. QED  BY <1>a, <2>1 DEF Walked, TypeOK, SpinsExact, WalkGuarded, Spinning, locks, graph, locals
<1>3. CASE WalkEnd(t)
  BY <1>a, <1>3 DEF WalkEnd, Goto, Stop, TypeOK, SpinsExact, WalkGuarded, Spinning, locks, graph, locals
<1>4. CASE WalkFound(t)
  BY <1>a, <1>4 DEF WalkFound, Goto, Stop, TypeOK, SpinsExact, WalkGuarded, Spinning, locks, graph, locals
<1>5. CASE Report(t)
  <2>1. UNCHANGED <<lk_lock, lk_holder, lk_wchan, hangman_lock, l_holding, a_waiting, pc, want>>
    BY <1>a, <1>5, ReportEffect DEF Reported
  <2>. QED  BY <1>a, <2>1 DEF TypeOK, SpinsExact, WalkGuarded
<1>6. CASE LockSleep(t)
  BY <1>a, <1>6 DEF LockSleep, Goto, Stop, TypeOK, SpinsExact, WalkGuarded, Spinning, locks, graph, locals
<1>7. CASE LockRetest(t)
  BY <1>a, <1>7 DEF LockRetest, Goto, Stop, TypeOK, SpinsExact, WalkGuarded, Spinning, locks, graph, locals
<1>8. CASE LockTake(t)
  BY <1>a, <1>8 DEF LockTake, Goto, Stop, TypeOK, SpinsExact, WalkGuarded, Spinning, locks, graph, locals
<1>9. CASE HangmanAcquire(t)
  <2>1. Acquired(t)
    BY <1>a, <1>9, AcquireEffect
  <2>. QED  BY <1>a, <2>1 DEF Acquired, TypeOK, SpinsExact, WalkGuarded, Spinning, locks, graph, locals
<1>10. CASE HangmanRelease(t)
  <2>1. Released(t)
    BY <1>a, <1>10, ReleaseEffect
  <2>. QED  BY <1>a, <2>1 DEF Released, TypeOK, SpinsExact, WalkGuarded, Spinning, locks, graph, locals
<1>11. CASE \E l \in Locks : LockAcquire(t, l)
  BY <1>a, <1>11 DEF LockAcquire, Goto, Stop, TypeOK, SpinsExact, WalkGuarded, Spinning, locks, graph, locals
<1>12. CASE \E l \in Locks : LockRelease(t, l)
  <2>1. PICK l \in Locks : LockRelease(t, l)
    BY <1>12
  <2>2. PICK awake : /\ Release(t, l, awake)
                     /\ lk_wchan' \in [Locks -> Seq(Threads)]
                     /\ Lists(lk_wchan'[l], Sleepers(l) \ awake)
                     /\ \A k \in Locks \ {l} : lk_wchan'[k] = lk_wchan[k]
    BY <2>1, ReleaseWakes
  <2>. QED  BY <1>a, <2>2 DEF Release, Sleepers, TypeOK, SpinsExact, WalkGuarded, Spinning, locks, graph, locals
<1>. QED  BY <1>1, <1>2, <1>3, <1>4, <1>5, <1>6, <1>7, <1>8, <1>9, <1>10, <1>11, <1>12 DEF Step, Detector

\* What the threads wait for.
LEMMA EdgeStep ==
  ASSUME Control, NEW t \in Threads, Step(t)
  PROVE  EdgesExact'
<1>a. Control /\ TypeOK /\ SpinsExact /\ EdgesExact /\ NoThread \notin Threads /\ NoLock \notin Locks
  BY HangmanAssumption DEF Control, HangmanAssumption
<1>1. CASE HangmanWait(t)
  <2>1. Waited(t)
    BY <1>a, <1>1, WaitEffect
  <2>. QED  BY <1>a, <2>1 DEF Waited, TypeOK, SpinsExact, EdgesExact, InWait, Spinning, locks, graph, locals
<1>2. CASE WalkOn(t)
  <2>1. Walked(t)
    BY <1>a, <1>2, WalkEffect
  <2>. QED  BY <1>a, <2>1 DEF Walked, TypeOK, SpinsExact, EdgesExact, InWait, Spinning, locks, graph, locals
<1>3. CASE WalkEnd(t)
  BY <1>a, <1>3 DEF WalkEnd, Goto, Stop, TypeOK, SpinsExact, EdgesExact, InWait, Spinning, locks, graph, locals
<1>4. CASE WalkFound(t)
  BY <1>a, <1>4 DEF WalkFound, Goto, Stop, TypeOK, SpinsExact, EdgesExact, InWait, Spinning, locks, graph, locals
<1>5. CASE Report(t)
  <2>1. Reported(t)
    BY <1>a, <1>5, ReportEffect
  <2>. QED  BY <1>a, <2>1 DEF Reported, TypeOK, SpinsExact, EdgesExact, InWait, Spinning, locks, graph, locals
<1>6. CASE LockSleep(t)
  BY <1>a, <1>6 DEF LockSleep, Goto, Stop, TypeOK, SpinsExact, EdgesExact, InWait, Spinning, locks, graph, locals
<1>7. CASE LockRetest(t)
  BY <1>a, <1>7 DEF LockRetest, Goto, Stop, TypeOK, SpinsExact, EdgesExact, InWait, Spinning, locks, graph, locals
<1>8. CASE LockTake(t)
  BY <1>a, <1>8 DEF LockTake, Goto, Stop, TypeOK, SpinsExact, EdgesExact, InWait, Spinning, locks, graph, locals
<1>9. CASE HangmanAcquire(t)
  <2>1. Acquired(t)
    BY <1>a, <1>9, AcquireEffect
  <2>. QED  BY <1>a, <2>1 DEF Acquired, TypeOK, SpinsExact, EdgesExact, InWait, Spinning, locks, graph, locals
<1>10. CASE HangmanRelease(t)
  <2>1. Released(t)
    BY <1>a, <1>10, ReleaseEffect
  <2>. QED  BY <1>a, <2>1 DEF Released, TypeOK, SpinsExact, EdgesExact, InWait, Spinning, locks, graph, locals
<1>11. CASE \E l \in Locks : LockAcquire(t, l)
  BY <1>a, <1>11 DEF LockAcquire, Goto, Stop, TypeOK, SpinsExact, EdgesExact, InWait, Spinning, locks, graph, locals
<1>12. CASE \E l \in Locks : LockRelease(t, l)
  <2>1. PICK l \in Locks : LockRelease(t, l)
    BY <1>12
  <2>2. PICK awake : /\ Release(t, l, awake)
                     /\ lk_wchan' \in [Locks -> Seq(Threads)]
                     /\ Lists(lk_wchan'[l], Sleepers(l) \ awake)
                     /\ \A k \in Locks \ {l} : lk_wchan'[k] = lk_wchan[k]
    BY <2>1, ReleaseWakes
  <2>. QED  BY <1>a, <2>2 DEF Release, Sleepers, TypeOK, SpinsExact, EdgesExact, InWait, Spinning, locks, graph, locals
<1>. QED  BY <1>1, <1>2, <1>3, <1>4, <1>5, <1>6, <1>7, <1>8, <1>9, <1>10, <1>11, <1>12 DEF Step, Detector

\* Who has the locks.
LEMMA HolderStep ==
  ASSUME Control, NEW t \in Threads, Step(t)
  PROVE  HoldersExact'
<1>a. Control /\ TypeOK /\ SpinsExact /\ HoldersExact /\ NoThread \notin Threads /\ NoLock \notin Locks
  BY HangmanAssumption DEF Control, HangmanAssumption
<1>1. CASE HangmanWait(t)
  <2>1. Waited(t)
    BY <1>a, <1>1, WaitEffect
  <2>. QED  BY <1>a, <2>1 DEF Waited, TypeOK, SpinsExact, HoldersExact, Spinning, locks, graph, locals
<1>2. CASE WalkOn(t)
  <2>1. Walked(t)
    BY <1>a, <1>2, WalkEffect
  <2>. QED  BY <1>a, <2>1 DEF Walked, TypeOK, SpinsExact, HoldersExact, Spinning, locks, graph, locals
<1>3. CASE WalkEnd(t)
  BY <1>a, <1>3 DEF WalkEnd, Goto, Stop, TypeOK, SpinsExact, HoldersExact, Spinning, locks, graph, locals
<1>4. CASE WalkFound(t)
  BY <1>a, <1>4 DEF WalkFound, Goto, Stop, TypeOK, SpinsExact, HoldersExact, Spinning, locks, graph, locals
<1>5. CASE Report(t)
  <2>1. UNCHANGED <<lk_lock, lk_holder, lk_wchan, hangman_lock, l_holding, a_waiting, pc, want>>
    BY <1>a, <1>5, ReportEffect DEF Reported
  <2>. QED  BY <1>a, <2>1 DEF TypeOK, HoldersExact
<1>6. CASE LockSleep(t)
  BY <1>a, <1>6 DEF LockSleep, Goto, Stop, TypeOK, SpinsExact, HoldersExact, Spinning, locks, graph, locals
<1>7. CASE LockRetest(t)
  BY <1>a, <1>7 DEF LockRetest, Goto, Stop, TypeOK, SpinsExact, HoldersExact, Spinning, locks, graph, locals
<1>8. CASE LockTake(t)
  BY <1>a, <1>8 DEF LockTake, Goto, Stop, TypeOK, SpinsExact, HoldersExact, Spinning, locks, graph, locals
<1>9. CASE HangmanAcquire(t)
  <2>1. Acquired(t)
    BY <1>a, <1>9, AcquireEffect
  <2>. QED  BY <1>a, <2>1 DEF Acquired, TypeOK, SpinsExact, HoldersExact, Spinning, locks, graph, locals
<1>10. CASE HangmanRelease(t)
  <2>1. Released(t)
    BY <1>a, <1>10, ReleaseEffect
  <2>. QED  BY <1>a, <2>1 DEF Released, TypeOK, SpinsExact, HoldersExact, Spinning, locks, graph, locals
<1>11. CASE \E l \in Locks : LockAcquire(t, l)
  BY <1>a, <1>11 DEF LockAcquire, Goto, Stop, TypeOK, SpinsExact, HoldersExact, Spinning, locks, graph, locals
<1>12. CASE \E l \in Locks : LockRelease(t, l)
  <2>1. PICK l \in Locks : LockRelease(t, l)
    BY <1>12
  <2>2. PICK awake : /\ Release(t, l, awake)
                     /\ lk_wchan' \in [Locks -> Seq(Threads)]
                     /\ Lists(lk_wchan'[l], Sleepers(l) \ awake)
                     /\ \A k \in Locks \ {l} : lk_wchan'[k] = lk_wchan[k]
    BY <2>1, ReleaseWakes
  <2>. QED  BY <1>a, <2>2 DEF Release, Sleepers, TypeOK, SpinsExact, HoldersExact, Spinning, locks, graph, locals
<1>. QED  BY <1>1, <1>2, <1>3, <1>4, <1>5, <1>6, <1>7, <1>8, <1>9, <1>10, <1>11, <1>12 DEF Step, Detector

\* The wait channels.
LEMMA ChannelStep ==
  ASSUME Control, NEW t \in Threads, Step(t)
  PROVE  ChannelsExact'
<1>a. /\ Control /\ TypeOK /\ SpinsExact /\ ChannelsExact /\ NoThread \notin Threads /\ NoLock \notin Locks
  BY HangmanAssumption DEF Control, HangmanAssumption
<1>1. CASE LockSleep(t)
  <2>0. PICK l \in Locks : l = want[t]
    BY <1>a, <1>1 DEF LockSleep, SpinsExact
  <2>1. lk_wchan[l] \in Seq(Threads) /\ Lists(lk_wchan[l], Sleepers(l)) /\ t \notin Sleepers(l)
    BY <1>a, <1>1 DEF LockSleep, TypeOK, ChannelsExact, Sleepers
  <2>2. Lists(Asleep(lk_wchan[l], t), Sleepers(l) \cup {t})
    BY <2>1, SleepLists
  <2>3. /\ lk_wchan'[l] = Asleep(lk_wchan[l], t)
        /\ \A k \in Locks \ {l} : lk_wchan'[k] = lk_wchan[k]
    BY <1>a, <1>1, <2>0 DEF LockSleep, TypeOK
  <2>4. /\ Sleepers(l)' = Sleepers(l) \cup {t}
        /\ \A k \in Locks \ {l} : Sleepers(k)' = Sleepers(k)
    BY <1>a, <1>1, <2>0 DEF LockSleep, Goto, TypeOK, Sleepers, locals
  <2>5. ASSUME NEW k \in Locks PROVE Lists(lk_wchan'[k], Sleepers(k)')
    <3>1. CASE k = l
      BY <2>2, <2>3, <2>4, <3>1
    <3>2. CASE k # l
      <4>1. lk_wchan'[k] = lk_wchan[k] /\ Sleepers(k)' = Sleepers(k) /\ Lists(lk_wchan[k], Sleepers(k))
        BY <1>a, <2>3, <2>4, <3>2 DEF ChannelsExact
      <4>. QED  BY <4>1
    <3>. QED  BY <3>1, <3>2
  <2>. QED  BY <2>5 DEF ChannelsExact, Lists, On
<1>2. CASE \E l \in Locks : LockRelease(t, l)
  <2>1. PICK l \in Locks : LockRelease(t, l)
    BY <1>2
  <2>2. PICK awake : /\ Release(t, l, awake)
                     /\ lk_wchan' \in [Locks -> Seq(Threads)]
                     /\ Lists(lk_wchan'[l], Sleepers(l) \ awake)
                     /\ \A k \in Locks \ {l} : lk_wchan'[k] = lk_wchan[k]
    BY <2>1, ReleaseWakes
  <2>3. /\ Sleepers(l)' = Sleepers(l) \ awake
        /\ \A k \in Locks \ {l} : Sleepers(k)' = Sleepers(k)
    BY <1>a, <2>2 DEF Release, Sleepers, TypeOK
  <2>. QED  BY <1>a, <2>2, <2>3 DEF ChannelsExact, Lists, On
<1>3. CASE UNCHANGED lk_wchan /\ \A u \in Threads : pc[u] = "asleep" \/ pc'[u] = "asleep" => pc'[u] = pc[u] /\ want'[u] = want[u]
  <2>1. \A k \in Locks : Sleepers(k)' = Sleepers(k)
    BY <1>3 DEF Sleepers
  <2>. QED  BY <1>a, <1>3, <2>1 DEF ChannelsExact, Lists, On
<1>4. CASE HangmanWait(t) \/ Detector(t)
  <2>1. CASE HangmanWait(t)
    BY <1>a, <1>3, <2>1, WaitEffect DEF Waited, TypeOK
  <2>2. CASE WalkOn(t)
    BY <1>3, <2>2, WalkEffect DEF Walked
  <2>3. CASE WalkEnd(t) \/ WalkFound(t)
    BY <1>a, <1>3, <2>3 DEF WalkEnd, WalkFound, Goto, TypeOK, locks
  <2>4. CASE Report(t)
    <3>1. UNCHANGED <<lk_wchan, pc, want>>
      BY <2>4, ReportEffect DEF Reported
    <3>. QED  BY <1>3, <3>1
  <2>. QED  BY <1>4, <2>1, <2>2, <2>3, <2>4 DEF Detector
<1>5. CASE LockRetest(t) \/ LockTake(t)
  BY <1>a, <1>3, <1>5 DEF LockRetest, LockTake, Goto, TypeOK, locals
<1>6. CASE HangmanAcquire(t)
  BY <1>a, <1>3, <1>6, AcquireEffect DEF Acquired, TypeOK
<1>7. CASE HangmanRelease(t)
  BY <1>a, <1>3, <1>7, ReleaseEffect DEF Released, TypeOK
<1>8. CASE \E l \in Locks : LockAcquire(t, l)
  BY <1>a, <1>3, <1>8 DEF LockAcquire, Goto, TypeOK
<1>. QED  BY <1>1, <1>2, <1>4, <1>5, <1>6, <1>7, <1>8 DEF Step

LEMMA ControlStep ==
  ASSUME Control, NEW t \in Threads, Step(t)
  PROVE  Control'
BY TypeStep, SpinStep, EdgeStep, HolderStep, ChannelStep DEF Control

-----------------------------------------------------------------------------
(* The graph *)

\* Only three steps change the graph.
LEMMA GraphSteps ==
  ASSUME Control, NEW t \in Threads, Step(t)
  PROVE  UNCHANGED graph \/ WalkEnd(t) \/ Acquired(t) \/ Released(t)
<1>1. CASE HangmanWait(t)
  BY <1>1, WaitEffect DEF Waited, graph
<1>2. CASE WalkOn(t)
  BY <1>2, WalkEffect DEF Walked, graph
<1>3. CASE Report(t)
  <2>1. UNCHANGED <<l_holding, a_waiting>>
    BY <1>3, ReportEffect DEF Reported
  <2>. QED  BY <2>1 DEF graph
<1>4. CASE HangmanAcquire(t)
  BY <1>4, AcquireEffect
<1>5. CASE HangmanRelease(t)
  BY <1>5, ReleaseEffect
<1>6. CASE WalkFound(t) \/ LockSleep(t) \/ LockRetest(t) \/ LockTake(t)
  BY <1>6 DEF WalkFound, LockSleep, LockRetest, LockTake
<1>7. CASE \E l \in Locks : LockAcquire(t, l) \/ LockRelease(t, l)
  BY <1>7 DEF LockAcquire, LockRelease
<1>. QED  BY <1>1, <1>2, <1>3, <1>4, <1>5, <1>6, <1>7 DEF Step, Detector

\* The end of a walk: the lock has no holder to follow, or the last one on the
\* path runs, and is somebody else.  Adding the edge closes no cycle, because
\* a cycle through it would hold the whole path.
LEMMA WalkEndStep ==
  ASSUME Control, NoCycle, OnPath, NEW t \in Threads, WalkEnd(t)
  PROVE  NoCycle'
<1>1. /\ pc[t] = "walk" /\ cur[t] \in Threads \cup {NoThread} /\ NoThread \notin Threads
      /\ cur[t] # NoThread => cur[t] # t /\ a_waiting[cur[t]] = NoLock
      /\ a_waiting[t] = NoLock /\ a_waiting' = [a_waiting EXCEPT ![t] = want[t]]
      /\ UNCHANGED l_holding /\ a_waiting \in [Threads -> Locks \cup {NoLock}]
  BY HangmanAssumption DEF HangmanAssumption, WalkEnd, Control, TypeOK, EdgesExact, InWait
<1>. SUFFICES ASSUME NEW S \in SUBSET Threads, \A u \in S : Follows(u, S)', S # {}
              PROVE  FALSE
  BY DEF NoCycle, Follows
<1>2. \A u \in S \ {t} : Follows(u, S)
  BY <1>1 DEF Follows
<1>3. t \in S
  BY <1>2 DEF NoCycle
<1>4. l_holding[want[t]] \in S
  BY <1>1, <1>3 DEF Follows
<1>5. Closed(S)
  BY <1>1, <1>2 DEF Closed
<1>6. cur[t] \in S
  BY <1>1, <1>4, <1>5 DEF OnPath
<1>. QED  BY <1>1, <1>2, <1>6 DEF Follows

LEMMA NoCycleStep ==
  ASSUME Control, NoCycle, OnPath, NEW t \in Threads, Step(t)
  PROVE  NoCycle'
<1>1. CASE UNCHANGED graph
  BY <1>1 DEF NoCycle, Follows, graph
<1>2. CASE WalkEnd(t)
  BY <1>2, WalkEndStep
<1>3. CASE Acquired(t)
  <2>1. /\ want[t] \in Locks /\ l_holding' = [l_holding EXCEPT ![want[t]] = t]
        /\ a_waiting' = [a_waiting EXCEPT ![t] = NoLock]
        /\ a_waiting \in [Threads -> Locks \cup {NoLock}] /\ l_holding \in [Locks -> Threads \cup {NoThread}]
    BY <1>3 DEF Acquired, Control, TypeOK
  <2>. SUFFICES ASSUME NEW S \in SUBSET Threads, \A u \in S : Follows(u, S)'
                PROVE  S = {}
    BY DEF NoCycle, Follows
  <2>2. t \notin S
    BY <2>1 DEF Follows
  <2>3. ASSUME NEW u \in S PROVE Follows(u, S)
    BY <2>1, <2>2, <2>3 DEF Follows
  <2>. QED  BY <2>3 DEF NoCycle
<1>4. CASE Released(t)
  <2>1. /\ want[t] \in Locks /\ l_holding' = [l_holding EXCEPT ![want[t]] = NoThread]
        /\ UNCHANGED a_waiting /\ NoThread \notin Threads
        /\ a_waiting \in [Threads -> Locks \cup {NoLock}] /\ l_holding \in [Locks -> Threads \cup {NoThread}]
    BY <1>4, HangmanAssumption DEF Released, Control, TypeOK, HangmanAssumption
  <2>. SUFFICES ASSUME NEW S \in SUBSET Threads, \A u \in S : Follows(u, S)'
                PROVE  S = {}
    BY DEF NoCycle, Follows
  <2>2. ASSUME NEW u \in S PROVE Follows(u, S)
    BY <2>1 DEF Follows
  <2>. QED  BY <2>2 DEF NoCycle
<1>. QED  BY <1>1, <1>2, <1>3, <1>4, GraphSteps

-----------------------------------------------------------------------------
(* The walk and the report *)

\* A step of another thread leaves the locals of the detector alone, and the
\* graph too while the thread walks.
LEMMA OthersWalk ==
  ASSUME Control, NEW t \in Threads, Step(t), NEW u \in Threads \ {t}, pc'[u] \in {"walk", "report"}
  PROVE  /\ pc'[u] = pc[u] /\ want'[u] = want[u] /\ cur'[u] = cur[u]
         /\ pc[u] = "walk" => UNCHANGED graph
<1>a. Control /\ TypeOK /\ WalkGuarded /\ NoThread \notin Threads
  BY HangmanAssumption DEF Control, HangmanAssumption
<1>1. pc'[u] = pc[u] /\ want'[u] = want[u] /\ cur'[u] = cur[u]
  <2>1. CASE HangmanWait(t)
    BY <1>a, <2>1, WaitEffect DEF Waited, TypeOK
  <2>2. CASE WalkOn(t)
    BY <1>a, <2>2, WalkEffect DEF Walked, TypeOK
  <2>3. CASE Report(t)
    <3>1. /\ UNCHANGED <<pc, want>>
          /\ UNCHANGED cur \/ cur' = [cur EXCEPT ![t] = l_holding[a_waiting[cur[t]]]]
      BY <2>3, ReportEffect DEF Reported
    <3>. QED  BY <1>a, <3>1 DEF TypeOK
  <2>4. CASE HangmanAcquire(t)
    BY <1>a, <2>4, AcquireEffect DEF Acquired, TypeOK
  <2>5. CASE HangmanRelease(t)
    BY <1>a, <2>5, ReleaseEffect DEF Released, TypeOK
  <2>6. CASE WalkEnd(t) \/ WalkFound(t) \/ LockSleep(t) \/ LockRetest(t) \/ LockTake(t)
    BY <1>a, <2>6 DEF WalkEnd, WalkFound, LockSleep, LockRetest, LockTake, Goto, TypeOK, locals
  <2>7. CASE \E l \in Locks : LockAcquire(t, l)
    BY <1>a, <2>7 DEF LockAcquire, Goto, TypeOK
  <2>8. CASE \E l \in Locks : LockRelease(t, l)
    <3>1. PICK l \in Locks : LockRelease(t, l)
      BY <2>8
    <3>2. PICK awake : Release(t, l, awake)
      BY <3>1, ReleaseWakes
    <3>. QED  BY <1>a, <3>2 DEF Release, TypeOK
  <2>. QED  BY <2>1, <2>2, <2>3, <2>4, <2>5, <2>6, <2>7, <2>8 DEF Step, Detector
<1>2. CASE pc[u] = "walk"
  <2>1. hangman_lock = u
    BY <1>a, <1>2 DEF WalkGuarded
  <2>2. pc[t] # "walk" /\ hangman_lock # NoThread
    BY <1>a, <2>1 DEF WalkGuarded
  <2>. QED  BY <1>1, <2>2, GraphSteps DEF WalkEnd, Acquired, Released
<1>. QED  BY <1>1, <1>2

\* A thread walks after hangman_wait or a step of the walk, and reports after
\* the walk's last or a step of the report.
LEMMA WalkersStep ==
  ASSUME Control, NEW t \in Threads, Step(t), pc'[t] = "walk"
  PROVE  HangmanWait(t) \/ WalkOn(t)
<1>a. pc \in [Threads -> Places]
  BY DEF Control, TypeOK
<1>1. CASE HangmanAcquire(t) \/ HangmanRelease(t)
  BY <1>a, <1>1, AcquireEffect, ReleaseEffect DEF Acquired, Released
<1>2. CASE Report(t) \/ WalkFound(t)
  BY <1>a, <1>2, ReportEffect DEF Reported, WalkFound, Goto
<1>3. CASE \E l \in Locks : LockRelease(t, l)
  <2>1. PICK l \in Locks : LockRelease(t, l)
    BY <1>3
  <2>2. PICK awake : Release(t, l, awake)
    BY <2>1, ReleaseWakes
  <2>. QED  BY <1>a, <2>2 DEF Release
<1>4. CASE \E l \in Locks : LockAcquire(t, l)
  BY <1>a, <1>4 DEF LockAcquire, Goto
<1>5. CASE WalkEnd(t) \/ LockSleep(t) \/ LockRetest(t) \/ LockTake(t)
  BY <1>a, <1>5 DEF WalkEnd, LockSleep, LockRetest, LockTake, Goto
<1>. QED  BY <1>1, <1>2, <1>3, <1>4, <1>5 DEF Step, Detector

LEMMA ReportersStep ==
  ASSUME Control, NEW t \in Threads, Step(t), pc'[t] = "report"
  PROVE  WalkFound(t) \/ Report(t)
<1>a. pc \in [Threads -> Places]
  BY DEF Control, TypeOK
<1>1. CASE HangmanAcquire(t) \/ HangmanRelease(t)
  BY <1>a, <1>1, AcquireEffect, ReleaseEffect DEF Acquired, Released
<1>2. CASE HangmanWait(t) \/ WalkOn(t)
  BY <1>a, <1>2, WaitEffect, WalkEffect DEF Waited, Walked
<1>3. CASE \E l \in Locks : LockRelease(t, l)
  BY <1>a, <1>3, ReleaseWakes DEF Release
<1>4. CASE \E l \in Locks : LockAcquire(t, l)
  BY <1>a, <1>4 DEF LockAcquire, Goto
<1>5. CASE WalkEnd(t) \/ LockSleep(t) \/ LockRetest(t) \/ LockTake(t)
  BY <1>a, <1>5 DEF WalkEnd, LockSleep, LockRetest, LockTake, Goto
<1>. QED  BY <1>1, <1>2, <1>3, <1>4, <1>5 DEF Step, Detector

LEMMA OnPathStep ==
  ASSUME Control, OnPath, NEW t \in Threads, Step(t)
  PROVE  OnPath'
<1>. SUFFICES ASSUME NEW u \in Threads, pc'[u] = "walk", NEW S \in SUBSET Threads,
                     l_holding'[want'[u]] \in S, Closed(S)'
              PROVE  cur'[u] \in S
  BY DEF OnPath, Closed, Follows
<1>1. CASE u # t
  <2>1. pc[u] = "walk" /\ want'[u] = want[u] /\ cur'[u] = cur[u] /\ UNCHANGED <<l_holding, a_waiting>>
    BY <1>1, OthersWalk DEF graph
  <2>. QED  BY <2>1 DEF OnPath, Closed, Follows
<1>2. CASE u = t /\ HangmanWait(t)
  <2>1. Waited(t)
    BY <1>2, WaitEffect
  <2>. QED  BY <1>2, <2>1 DEF Waited, Control, TypeOK
<1>3. CASE u = t /\ WalkOn(t)
  <2>1. Walked(t)
    BY <1>3, WalkEffect
  <2>2. l_holding[want[t]] \in S /\ Closed(S) /\ pc[t] = "walk"
    BY <1>3, <2>1 DEF Walked, Closed, Follows
  <2>3. cur[t] \in S
    BY <2>2 DEF OnPath
  <2>4. a_waiting[cur[t]] # NoLock
    BY <2>1, HangmanAssumption DEF Walked, HangmanAssumption
  <2>. QED  BY <1>3, <2>1, <2>2, <2>3, <2>4 DEF Walked, Closed, Follows, Control, TypeOK
<1>. QED  BY <1>1, <1>2, <1>3, WalkersStep

\* What the walk has passed grows by the place it leaves.
LEMMA PathBehindStep ==
  ASSUME Control, PathBehind, NEW t \in Threads, Step(t)
  PROVE  PathBehind'
<1>. SUFFICES ASSUME NEW u \in Threads, pc'[u] = "walk", cur'[u] # NoThread
              PROVE  \E S \in SUBSET Threads :
                       u \notin S /\ l_holding'[want'[u]] \in S \cup {cur'[u]}
                       /\ \A v \in S : Follows(v, S \cup {cur[u]})'
  BY DEF PathBehind, Follows
<1>1. CASE u # t
  <2>1. pc[u] = "walk" /\ want'[u] = want[u] /\ cur'[u] = cur[u] /\ UNCHANGED <<l_holding, a_waiting>>
    BY <1>1, OthersWalk DEF graph
  <2>. QED  BY <2>1 DEF PathBehind, Follows
<1>2. CASE u = t /\ HangmanWait(t)
  <2>1. Waited(t)
    BY <1>2, WaitEffect
  <2>2. l_holding'[want'[u]] = cur'[u]
    BY <1>2, <2>1 DEF Waited, Control, TypeOK
  <2>3. {} \in SUBSET Threads /\ u \notin {} /\ l_holding'[want'[u]] \in {} \cup {cur'[u]}
    BY <2>2
  <2>. QED  BY <2>3
<1>3. CASE u = t /\ WalkOn(t)
  <2>1. Walked(t)
    BY <1>3, WalkEffect
  <2>2. cur[t] # NoThread /\ cur[t] \in Threads \ {t}
    BY <2>1, HangmanAssumption DEF Walked, HangmanAssumption
  <2>3. PICK S \in SUBSET Threads : t \notin S /\ l_holding[want[t]] \in S \cup {cur[t]}
                                    /\ \A v \in S : Follows(v, S \cup {cur[t]})
    BY <2>1, <2>2 DEF Walked, PathBehind
  <2>c. PICK c \in Threads : c = cur[t]
    BY <2>2
  <2>4. /\ cur'[t] = l_holding[a_waiting[c]] /\ a_waiting[c] # NoLock
        /\ UNCHANGED <<l_holding, a_waiting, want>>
    BY <2>1, <2>c, HangmanAssumption DEF Walked, HangmanAssumption, Control, TypeOK
  <2>. DEFINE T == S \cup {c}
  <2>5. t \notin T /\ T \in SUBSET Threads /\ l_holding'[want'[t]] \in T \cup {cur'[t]}
    BY <2>2, <2>3, <2>4, <2>c
  <2>6. \A v \in T : Follows(v, T \cup {cur[t]})'
    <3>1. \A v \in S : Follows(v, T)
      BY <2>3, <2>c
    <3>2. Follows(c, {cur'[t]})
      BY <2>4 DEF Follows
    <3>. QED  BY <2>4, <3>1, <3>2 DEF Follows
  <2>. QED  BY <1>3, <2>5, <2>6
<1>. QED  BY <1>1, <1>2, <1>3, WalkersStep

\* A report that begins has a cycle: what the walk has passed and its target.
LEMMA CycleBegins ==
  ASSUME Control, PathBehind, NEW t \in Threads, WalkFound(t)
  PROVE  \E S \in SUBSET Threads : t \notin S /\ {l_holding'[want'[t]], cur'[t]} \subseteq S \cup {t}
                                   /\ \A v \in S : Follows(v, S \cup {t})'
<1>1. /\ pc[t] = "walk" /\ cur[t] = t /\ t # NoThread
      /\ cur'[t] = l_holding[want[t]] /\ UNCHANGED <<l_holding, a_waiting, want>>
  BY HangmanAssumption DEF HangmanAssumption, WalkFound, Control, TypeOK, graph
<1>2. PICK S \in SUBSET Threads : t \notin S /\ l_holding[want[t]] \in S \cup {t}
                                  /\ \A v \in S : Follows(v, S \cup {t})
  BY <1>1 DEF PathBehind
<1>3. {l_holding'[want'[t]], cur'[t]} \subseteq S \cup {t} /\ \A v \in S : Follows(v, S \cup {t})'
  BY <1>1, <1>2 DEF Follows
<1>. QED  BY <1>2, <1>3

\* Nothing on the cycle changes, whoever runs: its members wait, what they wait
\* for is held, and the reporting thread releases nothing.
LEMMA CycleKept ==
  ASSUME Control, NEW t \in Threads, Step(t), NEW u \in Threads, NEW S \in SUBSET Threads,
         u \notin S, pc[u] = "report", pc'[u] = "report", want'[u] = want[u],
         l_holding[want[u]] \in S \cup {u}, \A v \in S : Follows(v, S \cup {u})
  PROVE  l_holding'[want[u]] \in S \cup {u} /\ \A v \in S : Follows(v, S \cup {u})'
<1>a. /\ a_waiting \in [Threads -> Locks \cup {NoLock}] /\ l_holding \in [Locks -> Threads \cup {NoThread}]
      /\ NoThread \notin Threads /\ want[u] \in Locks /\ pc[u] # "run"
  BY HangmanAssumption DEF HangmanAssumption, Control, TypeOK, SpinsExact
<1>1. CASE UNCHANGED graph
  BY <1>1 DEF Follows, graph
<1>2. CASE WalkEnd(t)
  <2>1. /\ a_waiting[t] = NoLock /\ a_waiting' = [a_waiting EXCEPT ![t] = want[t]]
        /\ UNCHANGED l_holding
    BY <1>2 DEF WalkEnd, Control, EdgesExact, InWait
  <2>. QED  BY <1>a, <2>1 DEF Follows
<1>3. CASE Acquired(t)
  <2>1. /\ want[t] \in Locks /\ l_holding[want[t]] = NoThread /\ a_waiting[t] = want[t]
        /\ l_holding' = [l_holding EXCEPT ![want[t]] = t]
        /\ a_waiting' = [a_waiting EXCEPT ![t] = NoLock]
    BY <1>3 DEF Acquired
  <2>. QED  BY <1>a, <2>1 DEF Follows
<1>4. CASE Released(t)
  <2>1. /\ want[t] \in Locks /\ l_holding[want[t]] = t /\ a_waiting[t] = NoLock /\ t # u
        /\ l_holding' = [l_holding EXCEPT ![want[t]] = NoThread] /\ UNCHANGED a_waiting
    BY <1>4 DEF Released
  <2>2. t \notin S
    BY <2>1 DEF Follows
  <2>. QED  BY <1>a, <2>1, <2>2 DEF Follows
<1>. QED  BY <1>1, <1>2, <1>3, <1>4, GraphSteps

LEMMA CycleStaysStep ==
  ASSUME Control, PathBehind, CycleStays, NEW t \in Threads, Step(t)
  PROVE  CycleStays'
<1>. SUFFICES ASSUME NEW u \in Threads, pc'[u] = "report"
              PROVE  \E S \in SUBSET Threads :
                       u \notin S /\ {l_holding'[want'[u]], cur'[u]} \subseteq S \cup {u}
                       /\ \A v \in S : Follows(v, S \cup {u})'
  BY DEF CycleStays, Follows
<1>1. CASE u # t
  <2>1. pc[u] = "report" /\ want'[u] = want[u] /\ cur'[u] = cur[u]
    BY <1>1, OthersWalk
  <2>2. PICK S \in SUBSET Threads : u \notin S /\ {l_holding[want[u]], cur[u]} \subseteq S \cup {u}
                                    /\ \A v \in S : Follows(v, S \cup {u})
    BY <2>1 DEF CycleStays
  <2>3. l_holding'[want[u]] \in S \cup {u} /\ \A v \in S : Follows(v, S \cup {u})'
    BY <2>1, <2>2, CycleKept
  <2>. QED  BY <2>1, <2>2, <2>3
<1>2. CASE u = t /\ WalkFound(t)
  BY <1>2, CycleBegins
<1>3. CASE u = t /\ Report(t)
  <2>1. Reported(t)
    BY <1>3, ReportEffect
  <2>2. pc[t] = "report" /\ UNCHANGED <<l_holding, a_waiting, want>>
    BY <2>1 DEF Reported
  <2>3. PICK S \in SUBSET Threads : t \notin S /\ {l_holding[want[t]], cur[t]} \subseteq S \cup {t}
                                    /\ \A v \in S : Follows(v, S \cup {t})
    BY <2>2 DEF CycleStays
  <2>4. cur'[t] \in S \cup {t}
    <3>1. CASE UNCHANGED cur
      BY <2>3, <3>1
    <3>2. CASE cur[t] \in Threads \ {t} /\ cur' = [cur EXCEPT ![t] = l_holding[a_waiting[cur[t]]]]
      <4>1. cur[t] \in S /\ cur'[t] = l_holding[a_waiting[cur[t]]]
        BY <2>3, <3>2 DEF Control, TypeOK
      <4>. QED  BY <2>3, <4>1 DEF Follows
    <3>. QED  BY <2>1, <3>1, <3>2 DEF Reported
  <2>5. \A v \in S : Follows(v, S \cup {t})'
    BY <2>2, <2>3 DEF Follows
  <2>. QED  BY <1>3, <2>2, <2>3, <2>4, <2>5
<1>. QED  BY <1>1, <1>2, <1>3, ReportersStep

\* The report reaches its target and finds nothing missing; the caller's
\* assertion holds because the graph has no cycle of one thread.
LEMMA PanicStep ==
  ASSUME Control, NoCycle, OnPath, CycleStays, panic = "none", NEW t \in Threads, Step(t)
  PROVE  OnlyDeadlock'
<1>a. NoThread \notin Threads
  BY HangmanAssumption DEF HangmanAssumption
<1>1. CASE Report(t)
  <2>1. Reported(t) /\ pc[t] = "report"
    BY <1>1, ReportEffect DEF Reported
  <2>2. PICK S \in SUBSET Threads : {l_holding[want[t]], cur[t]} \subseteq S \cup {t}
                                    /\ \A v \in S : Follows(v, S \cup {t})
    BY <2>1 DEF CycleStays
  <2>3. cur[t] = t \/ (cur[t] \in Threads /\ a_waiting[cur[t]] # NoLock)
    BY <2>2 DEF Follows
  <2>4. panic' \in {"none", "Deadlock."}
    BY <1>a, <2>1, <2>3 DEF Reported
  <2>. QED  BY <2>4 DEF OnlyDeadlock
<1>2. CASE WalkEnd(t)
  <2>1. /\ pc[t] = "walk" /\ want[t] \in Locks
        /\ cur[t] # NoThread => cur[t] # t /\ a_waiting[cur[t]] = NoLock
        /\ panic' = IF lk_holder[want[t]] = t THEN "assertion" ELSE panic
    BY <1>2 DEF WalkEnd, Control, SpinsExact
  <2>2. lk_holder[want[t]] # t
    <3>. SUFFICES ASSUME lk_holder[want[t]] = t PROVE FALSE
      OBVIOUS
    <3>1. l_holding[want[t]] = t
      BY <2>1 DEF Control, HoldersExact
    <3>2. Closed({t})
      BY <2>1 DEF Closed, Control, EdgesExact, InWait
    <3>3. cur[t] \in {t}
      BY <2>1, <3>1, <3>2 DEF OnPath
    <3>. QED  BY <1>a, <2>1, <3>3
  <2>. QED  BY <2>1, <2>2 DEF OnlyDeadlock
<1>3. CASE HangmanWait(t)
  BY <1>3, WaitEffect DEF Waited, OnlyDeadlock
<1>4. CASE HangmanAcquire(t)
  BY <1>4, AcquireEffect DEF Acquired, OnlyDeadlock
<1>5. CASE HangmanRelease(t)
  BY <1>5, ReleaseEffect DEF Released, OnlyDeadlock
<1>6. CASE WalkOn(t) \/ WalkFound(t) \/ LockSleep(t) \/ LockRetest(t) \/ LockTake(t)
  BY <1>6 DEF WalkOn, WalkFound, LockSleep, LockRetest, LockTake, OnlyDeadlock
<1>7. CASE \E l \in Locks : LockAcquire(t, l) \/ LockRelease(t, l)
  BY <1>7 DEF LockAcquire, LockRelease, OnlyDeadlock
<1>. QED  BY <1>1, <1>2, <1>3, <1>4, <1>5, <1>6, <1>7 DEF Step, Detector

-----------------------------------------------------------------------------
(* The theorems *)

LEMMA InitInv == Init => IInv
<1>. SUFFICES ASSUME Init PROVE IInv
  OBVIOUS
<1>1. TypeOK /\ SpinsExact /\ WalkGuarded /\ EdgesExact /\ HoldersExact
  BY HangmanAssumption, EmptyChannel DEF HangmanAssumption, Init, TypeOK, SpinsExact, WalkGuarded,
     EdgesExact, InWait, HoldersExact, Places, Spinning, Panics
<1>2. ChannelsExact
  <2>1. \A l \in Locks : Sleepers(l) = {}
    BY DEF Init, Sleepers
  <2>. QED  BY <2>1, EmptyChannel DEF Init, ChannelsExact
<1>3. NoCycle /\ OnPath /\ PathBehind /\ CycleStays /\ OnlyDeadlock
  BY DEF Init, NoCycle, Follows, OnPath, PathBehind, CycleStays, OnlyDeadlock
<1>. QED  BY <1>1, <1>2, <1>3 DEF IInv, Control

LEMMA StepInv == IInv /\ [Next]_vars => IInv'
<1>. SUFFICES ASSUME IInv, [Next]_vars PROVE IInv'
  OBVIOUS
<1>1. CASE UNCHANGED vars
  <2>. USE <1>1 DEF IInv, Control, vars
  <2>1. TypeOK' /\ SpinsExact' /\ WalkGuarded' /\ EdgesExact' /\ HoldersExact' /\ OnlyDeadlock'
    BY DEF TypeOK, SpinsExact, WalkGuarded, EdgesExact, HoldersExact, OnlyDeadlock
  <2>2. ChannelsExact'
    BY DEF ChannelsExact, Sleepers, Lists, On
  <2>3. NoCycle' /\ OnPath'
    BY DEF NoCycle, OnPath, Follows, Closed
  <2>4. PathBehind' /\ CycleStays'
    BY DEF PathBehind, CycleStays, Follows
  <2>. QED  BY <2>1, <2>2, <2>3, <2>4
<1>2. CASE panic = "none" /\ \E t \in Threads : Step(t)
  <2>1. PICK t \in Threads : Step(t)
    BY <1>2
  <2>2. Control'
    BY <2>1, ControlStep DEF IInv
  <2>3. NoCycle' /\ OnPath' /\ PathBehind' /\ CycleStays'
    BY <2>1, NoCycleStep, OnPathStep, PathBehindStep, CycleStaysStep DEF IInv
  <2>4. OnlyDeadlock'
    BY <1>2, <2>1, PanicStep DEF IInv
  <2>. QED  BY <2>2, <2>3, <2>4 DEF IInv
<1>. QED  BY <1>1, <1>2 DEF Next, Halted

LEMMA Invariance == Spec => []IInv
BY InitInv, StepInv, PTL DEF Spec

\* A thread in lock_acquire that waits for a lock another waiting thread holds
\* has its edge in the graph: stuck threads would be a cycle of it.
LEMMA NoStuckThreads == IInv => NoSilentDeadlock
<1>. SUFFICES ASSUME IInv, NEW S \in SUBSET Threads, Stuck(S) PROVE S = {}
  BY DEF NoSilentDeadlock
<1>1. ASSUME NEW u \in S PROVE Follows(u, S)
  <2>1. /\ Waits(u) /\ lk_holder[want[u]] \in S /\ Waits(lk_holder[want[u]])
    BY DEF Stuck
  <2>2. want[u] \in Locks /\ want[u] # NoLock /\ a_waiting[u] = want[u]
    BY <2>1, HangmanAssumption DEF HangmanAssumption, Waits, InWait, IInv, Control, SpinsExact, EdgesExact
  <2>3. l_holding[want[u]] = lk_holder[want[u]]
    BY <2>1, <2>2 DEF Waits, IInv, Control, HoldersExact
  <2>. QED  BY <2>1, <2>2, <2>3 DEF Follows
<1>. QED  BY <1>1 DEF IInv, NoCycle

\* The cycle of a report is one of real locks and threads that wait.
LEMMA TrueReports == IInv => ReportIsTrue
<1>. SUFFICES ASSUME IInv, NEW t \in Threads, pc[t] = "report" PROVE WouldBeStuck(t)
  BY DEF ReportIsTrue
<1>1. PICK S \in SUBSET Threads : t \notin S /\ {l_holding[want[t]], cur[t]} \subseteq S \cup {t}
                                  /\ \A v \in S : Follows(v, S \cup {t})
  BY DEF IInv, CycleStays
<1>2. ASSUME NEW v \in S PROVE a_waiting[v] = want[v] /\ pc[v] \in InWait /\ want[v] \in Locks
  BY <1>1, HangmanAssumption DEF HangmanAssumption, Follows, IInv, Control, SpinsExact, EdgesExact, InWait
<1>3. ASSUME NEW l \in Locks, l_holding[l] \in S \cup {t}
      PROVE  lk_holder[l] = l_holding[l] /\ ~(pc[l_holding[l]] = "record" /\ want[l_holding[l]] = l)
  BY <1>2, <1>3 DEF IInv, Control, HoldersExact, InWait
<1>4. ASSUME NEW v \in S PROVE Waits(v) /\ lk_holder[want[v]] \in S \cup {t}
  <2>1. l_holding[want[v]] \in S \cup {t} /\ want[v] \in Locks /\ pc[v] \in InWait
    BY <1>1, <1>2 DEF Follows
  <2>2. lk_holder[want[v]] = l_holding[want[v]]
    BY <1>3, <2>1
  <2>3. pc[v] = "record" => FALSE
    BY <1>3, <2>1, <2>2 DEF IInv, Control, HoldersExact
  <2>. QED  BY <2>1, <2>2, <2>3 DEF InWait, Waits
<1>5. lk_holder[want[t]] \in S \cup {t}
  <2>1. want[t] \in Locks
    BY DEF IInv, Control, SpinsExact
  <2>. QED  BY <1>1, <1>3, <2>1
<1>6. S \in SUBSET (Threads \ {t})
  BY <1>1
<1>. QED  BY <1>4, <1>5, <1>6 DEF WouldBeStuck

\* hangman_wait finds every deadlock of sleep locks before it exists: no set of
\* threads ever waits for locks that they hold themselves.
THEOREM DeadlocksFound == Spec => []NoSilentDeadlock
BY Invariance, NoStuckThreads, PTL

\* hangman_check reports only real cycles of locks and waiting threads.
THEOREM ReportsTrue == Spec => []ReportIsTrue
BY Invariance, TrueReports, PTL

\* The panics of hangman_wait, hangman_acquire and hangman_release, the
\* assertion of lock_acquire and a null pointer in the report cannot happen.
THEOREM NoOtherPanic == Spec => []OnlyDeadlock
<1>1. IInv => OnlyDeadlock
  BY DEF IInv
<1>. QED  BY <1>1, Invariance, PTL
=============================================================================
