---------------------------- MODULE MesaMonitor ----------------------------
(***************************************************************************)
(* What kern/include/synch.h promises of a lock with a condition variable: *)
(* at most one thread is inside, cv_wait gives the lock up and joins the   *)
(* waiters in one atomic step, cv_signal moves the longest waiter back to  *)
(* the entrance and cv_broadcast moves all of them.  The signaller keeps   *)
(* the lock, so a waiter re-enters later (Mesa semantics).                 *)
(***************************************************************************)
EXTENDS Sequences

CONSTANTS Thread,  \* threads that use the monitor
          Nobody   \* the holder of a free lock

VARIABLES holder,   \* the thread inside, or Nobody
          entering, \* threads that want to be inside
          waiters   \* threads in cv_wait, first to wait first

vars == <<holder, entering, waiters>>

Range(s) == {s[i] : i \in DOMAIN s}

Init == holder = Nobody /\ entering = {} /\ waiters = <<>>

Call(t) ==
  /\ holder # t /\ t \notin entering \cup Range(waiters)
  /\ entering' = entering \cup {t}
  /\ UNCHANGED <<holder, waiters>>

Enter(t) ==
  /\ holder = Nobody /\ t \in entering
  /\ holder' = t
  /\ entering' = entering \ {t}
  /\ UNCHANGED waiters

Leave(t) ==
  /\ holder = t
  /\ holder' = Nobody
  /\ UNCHANGED <<entering, waiters>>

Wait(t) ==
  /\ holder = t
  /\ holder' = Nobody
  /\ waiters' = Append(waiters, t)
  /\ UNCHANGED entering

Signal(t) ==
  /\ holder = t /\ waiters # <<>>
  /\ entering' = entering \cup {Head(waiters)}
  /\ waiters' = Tail(waiters)
  /\ UNCHANGED holder

Broadcast(t) ==
  /\ holder = t
  /\ entering' = entering \cup Range(waiters)
  /\ waiters' = <<>>
  /\ UNCHANGED holder

Next ==
  \E t \in Thread :
    Call(t) \/ Enter(t) \/ Leave(t) \/ Wait(t) \/ Signal(t) \/ Broadcast(t)

\* A free lock with threads at the entrance is taken by one of them.
Spec ==
  /\ Init /\ [][Next]_vars
  /\ WF_vars(\E t \in Thread : Enter(t))
=============================================================================
