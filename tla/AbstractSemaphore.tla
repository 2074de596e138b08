------------------------- MODULE AbstractSemaphore -------------------------
(***************************************************************************)
(* What kern/include/synch.h promises of a semaphore: a count, a P that    *)
(* blocks its caller until the count is positive and then takes one unit,  *)
(* and a V that adds one unit.  There is no wait channel and no wakeup     *)
(* here: a caller that can proceed may simply proceed.                     *)
(***************************************************************************)
EXTENDS Naturals

CONSTANTS Thread,       \* the threads that may call P
          InitialCount  \* initial_count of sem_create

VARIABLES count,    \* units available
          blocked   \* threads that called P and did not return yet

vars == <<count, blocked>>

Init == count = InitialCount /\ blocked = {}

\* A thread calls P.
Call(t) ==
  /\ t \notin blocked
  /\ blocked' = blocked \cup {t}
  /\ UNCHANGED count

\* P returns: it took a unit.
Return(t) ==
  /\ t \in blocked
  /\ count > 0
  /\ count' = count - 1
  /\ blocked' = blocked \ {t}

\* V, by anyone.
Give == count' = count + 1 /\ UNCHANGED blocked

Next == Give \/ \E t \in Thread : Call(t) \/ Return(t)

\* A semaphore at rest (count positive) with callers lets one of them go;
\* which one is not promised, and neither is any single caller's turn.
Spec ==
  /\ Init /\ [][Next]_vars
  /\ WF_vars(\E t \in Thread : Return(t))
=============================================================================
