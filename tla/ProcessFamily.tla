--------------------------- MODULE ProcessFamily ---------------------------
(***************************************************************************)
(* What fork, exit and wait promise a process (asst3), with no table, slot *)
(* or parent field: each process knows by pid the children it has forked   *)
(* and not yet waited for, and whether each runs or with what status it    *)
(* exited.  A wait for one that exited returns that status and forgets it. *)
(***************************************************************************)
EXTENDS Naturals, Functions

CONSTANTS Procs,    \* the processes, existing and possible
          kproc,    \* the kernel's
          Pids,     \* what a process can be called; 1 is the kernel
          Statuses, \* what a process can exit with
          NoStatus  \* the mark of a child that runs, or of no wait so far

VARIABLES pid,   \* the pid of each process, 0 if it has none
          kids,  \* for each process, its children's statuses by pid
          reply  \* the status the last wait of each process returned

famVars == <<pid, kids, reply>>

NoKids == [k \in {} |-> NoStatus]
InUse  == {pid[p] : p \in Procs} \cup UNION {DOMAIN kids[p] : p \in Procs}

FamilyInit ==
  /\ pid = [p \in Procs |-> IF p = kproc THEN 1 ELSE 0]
  /\ kids = [p \in Procs |-> NoKids]
  /\ reply = [p \in Procs |-> NoStatus]

Without(f, k) == Restrict(f, DOMAIN f \ {k})
With(f, k, s) == [x \in DOMAIN f \cup {k} |-> IF x = k THEN s ELSE f[x]]

\* A child is called by a pid nobody is called by and nobody waits for.
Spawn(p, q, k) ==
  /\ pid[p] # 0 /\ pid[q] = 0 /\ k \notin InUse
  /\ pid' = [pid EXCEPT ![q] = k]
  /\ kids' = [kids EXCEPT ![p] = With(@, k, NoStatus)]
  /\ UNCHANGED reply

\* A fork that failed leaves no child.
Unspawn(p, q) ==
  /\ pid[q] \in DOMAIN kids[p] /\ kids[p][pid[q]] = NoStatus
  /\ pid' = [pid EXCEPT ![q] = 0]
  /\ kids' = [kids EXCEPT ![p] = Without(@, pid[q])]
  /\ UNCHANGED reply

\* An exit is known to the parent, if that still runs and has not disowned the
\* child, and to nobody else; nobody waits for the children left behind.
Exit(q, s) ==
  /\ q # kproc /\ pid[q] # 0
  /\ pid' = [pid EXCEPT ![q] = 0]
  /\ kids' = [p \in Procs |-> IF p = q THEN NoKids
                              ELSE IF pid[q] \in DOMAIN kids[p] THEN With(kids[p], pid[q], s)
                              ELSE kids[p]]
  /\ reply' = [reply EXCEPT ![q] = NoStatus]

Reap(p, k) ==
  /\ k \in DOMAIN kids[p] /\ kids[p][k] # NoStatus
  /\ kids' = [kids EXCEPT ![p] = Without(@, k)]
  /\ reply' = [reply EXCEPT ![p] = kids[p][k]]
  /\ UNCHANGED pid

Disown(p, k) ==
  /\ k \in DOMAIN kids[p]
  /\ kids' = [kids EXCEPT ![p] = Without(@, k)]
  /\ UNCHANGED <<pid, reply>>

\* A call that fails, or a wait for a child that runs.
Fails == UNCHANGED famVars

FamilyNext == Fails \/
  \E p \in Procs :
    \/ \E q \in Procs, k \in Pids : Spawn(p, q, k)
    \/ \E q \in Procs : Unspawn(p, q)
    \/ \E s \in Statuses : Exit(p, s)
    \/ \E k \in Pids : Reap(p, k) \/ Disown(p, k)

FamilySpec == FamilyInit /\ [][FamilyNext]_famVars
=============================================================================
