------------------------------ MODULE Process ------------------------------
(***************************************************************************)
(* The process table and the life of a process in asst3: kern/proc/pid.c,  *)
(* the parts of proc.c and proc_syscalls.c that call it, the kernel menu's *)
(* common_prog and the fork and disown of waittest.                        *)
(*                                                                         *)
(* A user process has one thread.  What runs under pidlock is one step,    *)
(* and cv_wait releases it as it sleeps (Monitor shows both); a thread is  *)
(* preempted between any two steps.                                        *)
(***************************************************************************)
EXTENDS Naturals, FiniteSets, FiniteSetsExt

CONSTANTS Users,     \* the struct procs kmalloc can provide
          kproc,     \* the kernel's process, that of the menu
          Nobody,    \* a null struct proc
          PROCS_MAX, \* slots of the table
          PID_MAX,   \* highest pid
          Statuses,  \* exit statuses
          NoStatus   \* none

Procs == Users \cup {kproc}
INVALID_PID == 0
KERNEL_PID  == 1
PID_MIN     == 2

ASSUME ProcessAssumption ==
  /\ kproc \notin Users /\ Nobody \notin Procs /\ NoStatus \notin Statuses
  /\ IsFiniteSet(Users) /\ Statuses # {}
  /\ PROCS_MAX \in Nat /\ PROCS_MAX > 1
  \* The table's slots are all reached by the pids of a process.
  /\ PID_MAX \in Nat /\ PID_MAX >= PROCS_MAX + 1

Slots == 0..PROCS_MAX-1
Pids  == {KERNEL_PID} \cup (PID_MIN..PID_MAX)

VARIABLES
  pidinfo,          \* the table; an entry with pid 0 is a null pointer
  nextpid, nprocs,
  p_pid,            \* of each struct proc
  pc,               \* next step of its thread; "none" if there is no process
  via,              \* who called fork: sys_fork, common_prog or dofork; "none"
  newproc,          \* the process being made
  kid,              \* the child's pid that fork returns, or wait's argument
  status            \* what the last wait stored

tableVars == <<pidinfo, nextpid, nprocs>>
vars == <<pidinfo, nextpid, nprocs, p_pid, pc, via, newproc, kid, status>>

Info == [pid : Pids \cup {INVALID_PID}, ppid : Pids \cup {INVALID_PID},
         exited : BOOLEAN, status : Statuses \cup {NoStatus}]

NoInfo == [pid |-> INVALID_PID, ppid |-> INVALID_PID, exited |-> FALSE, status |-> NoStatus]

pidinfo_create(pid, ppid) == [NoInfo EXCEPT !.pid = pid, !.ppid = ppid]

TypeOK ==
  /\ pidinfo \in [Slots -> Info]
  /\ nextpid \in PID_MIN..PID_MAX /\ nprocs \in 0..PROCS_MAX
  /\ p_pid \in [Procs -> Pids \cup {INVALID_PID}]
  /\ pc \in [Procs -> {"none", "new", "run", "alloc", "copy", "unalloc", "forked",
                       "wait", "asleep", "woken", "exiting", "panic"}]
  /\ via \in [Procs -> {"none", "sys_fork", "common_prog", "dofork"}]
  /\ newproc \in [Procs -> Users \cup {Nobody}]
  /\ kid \in [Procs -> Pids \cup {INVALID_PID}]
  /\ status \in [Procs -> Statuses \cup {NoStatus}]

Init ==
  /\ pidinfo = [i \in Slots |-> IF i = KERNEL_PID THEN pidinfo_create(KERNEL_PID, INVALID_PID)
                                ELSE NoInfo]
  /\ nextpid = PID_MIN /\ nprocs = 1
  /\ p_pid = [p \in Procs |-> IF p = kproc THEN KERNEL_PID ELSE INVALID_PID]
  /\ pc = [p \in Procs |-> IF p = kproc THEN "run" ELSE "none"]
  /\ via = [p \in Procs |-> "none"]
  /\ newproc = [p \in Procs |-> Nobody]
  /\ kid = [p \in Procs |-> INVALID_PID]
  /\ status = [p \in Procs |-> NoStatus]

-----------------------------------------------------------------------------
(* The table, always used with pidlock held *)

Slot(k) == k % PROCS_MAX
Used(i) == pidinfo[i].pid # INVALID_PID

\* pi_get, where a null pointer is an entry without a pid
pi_get(k) == IF pidinfo[Slot(k)].pid = k THEN pidinfo[Slot(k)] ELSE NoInfo

\* Mutant: whose child it is does not matter.
IsChildOfAnybody(k, p) == pi_get(k).pid = k /\ k # p_pid[p]

IsChild(k, p) == pi_get(k).pid = k /\ pi_get(k).ppid = p_pid[p]

pi_put(k, info) == /\ pidinfo' = [pidinfo EXCEPT ![Slot(k)] = info]
                   /\ nprocs' = nprocs + 1

\* Mutant: an entry is dropped and still counted.
pi_dropCounted(k) == pidinfo' = [pidinfo EXCEPT ![Slot(k)] = NoInfo] /\ UNCHANGED nprocs

pi_drop(k) == /\ pidinfo' = [pidinfo EXCEPT ![Slot(k)] = NoInfo]
              /\ nprocs' = nprocs - 1

inc_nextpid(k) == IF k = PID_MAX THEN PID_MIN ELSE k + 1

\* nextpid after n calls of inc_nextpid
PidAfter(n) == PID_MIN + ((nextpid - PID_MIN + n) % (PID_MAX - PID_MIN + 1))

\* Mutant: the slot of nextpid is not looked at.
TurnsNone == {0}

\* pid_alloc's loop: how often it goes round, at most as often as it asserts.
Turns == {n \in 0..2*PROCS_MAX+4 : ~Used(Slot(PidAfter(n)))}

-----------------------------------------------------------------------------
(* fork: sys_fork, dofork of waittest, and common_prog's new program *)

Callers(p) == IF p = kproc THEN {"common_prog", "dofork"} ELSE {"sys_fork"}

\* The way back to the program, or to the menu; the arguments are forgotten.
Return(p) == /\ kid' = [kid EXCEPT ![p] = INVALID_PID]
             /\ via' = [via EXCEPT ![p] = "none"]

\* proc_create; out of memory changes nothing.
ProcCreate(p) ==
  /\ pc[p] = "run"
  /\ \E q \in Users, caller \in Callers(p) :
       /\ pc[q] = "none"
       /\ newproc' = [newproc EXCEPT ![p] = q]
       /\ via' = [via EXCEPT ![p] = caller]
       /\ pc' = [pc EXCEPT ![p] = "alloc", ![q] = "new"]
  /\ UNCHANGED <<tableVars, p_pid, kid, status>>

\* proc_destroy of a process that never ran; its parent goes on.
Discard(p) == /\ pc' = [pc EXCEPT ![p] = "run", ![newproc[p]] = "none"]
              /\ newproc' = [newproc EXCEPT ![p] = Nobody]
              /\ Return(p)

\* pid_alloc; the caller keeps the pid before the child can run.
PidAlloc(p) ==
  /\ pc[p] = "alloc" /\ nprocs # PROCS_MAX
  /\ LET pid == PidAfter(Min(Turns))
     IN /\ pi_put(pid, pidinfo_create(pid, p_pid[p]))
        /\ nextpid' = inc_nextpid(pid)
        /\ p_pid' = [p_pid EXCEPT ![newproc[p]] = pid]
        /\ kid' = [kid EXCEPT ![p] = pid]
  /\ pc' = [pc EXCEPT ![p] = "copy"]
  /\ UNCHANGED <<via, newproc, status>>

\* pid_alloc: EAGAIN
PidAllocFull(p) ==
  /\ pc[p] = "alloc" /\ nprocs = PROCS_MAX
  /\ Discard(p)
  /\ UNCHANGED <<tableVars, p_pid, status>>

\* pid_alloc: ENOMEM, when nextpid has moved to the free slot already
PidAllocNoMemory(p) ==
  /\ pc[p] = "alloc" /\ nprocs # PROCS_MAX
  /\ nextpid' = PidAfter(Min(Turns))
  /\ Discard(p)
  /\ UNCHANGED <<pidinfo, nprocs, p_pid, status>>

\* proc_fork: no memory for the address space or the file table; the kernel has
\* neither to copy.
CopyFails(p) ==
  /\ pc[p] = "copy" /\ via[p] = "sys_fork"
  /\ pc' = [pc EXCEPT ![p] = "unalloc"]
  /\ UNCHANGED <<tableVars, p_pid, via, newproc, kid, status>>

\* thread_fork: the child runs before its parent does anything more.
ThreadFork(p) ==
  /\ pc[p] = "copy"
  /\ pc' = [pc EXCEPT ![p] = "forked", ![newproc[p]] = "run"]
  /\ newproc' = [newproc EXCEPT ![p] = Nobody]
  /\ UNCHANGED <<tableVars, p_pid, via, kid, status>>

\* thread_fork failed.  sys_fork and dofork undo proc_fork; common_prog calls
\* proc_destroy, which asserts that the process has no pid.
ThreadForkFails(p) ==
  /\ pc[p] = "copy"
  /\ pc' = [pc EXCEPT ![p] = IF via[p] = "common_prog" THEN "panic" ELSE "unalloc"]
  /\ UNCHANGED <<tableVars, p_pid, via, newproc, kid, status>>

\* pid_unalloc and proc_destroy
PidUnalloc(p) ==
  /\ pc[p] = "unalloc"
  /\ pi_drop(kid[p])
  /\ p_pid' = [p_pid EXCEPT ![newproc[p]] = INVALID_PID]
  /\ Discard(p)
  /\ UNCHANGED <<nextpid, status>>

\* fork returns the pid; common_prog goes on to wait for it.
Forked(p) ==
  /\ pc[p] = "forked"
  /\ IF via[p] = "common_prog"
     THEN pc' = [pc EXCEPT ![p] = "wait"] /\ UNCHANGED <<via, kid>>
     ELSE pc' = [pc EXCEPT ![p] = "run"] /\ Return(p)
  /\ UNCHANGED <<tableVars, p_pid, newproc, status>>

-----------------------------------------------------------------------------
(* waitpid *)

\* A process waits for any pid but its own, whether it is a child's or not.
WaitCall(p) ==
  /\ pc[p] = "run"
  /\ \E k \in Pids \ {p_pid[p]} : kid' = [kid EXCEPT ![p] = k]
  /\ pc' = [pc EXCEPT ![p] = "wait"]
  /\ UNCHANGED <<tableVars, p_pid, via, newproc, status>>

\* ESRCH, EPERM
WaitFails(p) ==
  /\ pc[p] = "wait" /\ ~IsChild(kid[p], p)
  /\ pc' = [pc EXCEPT ![p] = "run"]
  /\ Return(p)
  /\ UNCHANGED <<tableVars, p_pid, newproc, status>>

\* WNOHANG, which the kernel does not use
WaitNoHang(p) ==
  /\ pc[p] = "wait" /\ p # kproc
  /\ IsChild(kid[p], p) /\ ~pi_get(kid[p]).exited
  /\ pc' = [pc EXCEPT ![p] = "run"]
  /\ Return(p)
  /\ UNCHANGED <<tableVars, p_pid, newproc, status>>

WaitSleeps(p) ==
  /\ pc[p] = "wait" /\ IsChild(kid[p], p) /\ ~pi_get(kid[p]).exited
  /\ pc' = [pc EXCEPT ![p] = "asleep"]
  /\ UNCHANGED <<tableVars, p_pid, via, newproc, kid, status>>

\* The child has exited: at once, or after the sleep, when nothing is looked at
\* again ("don't need to loop on this").
WaitReaps(p) ==
  /\ \/ pc[p] = "wait" /\ IsChild(kid[p], p) /\ pi_get(kid[p]).exited
     \/ pc[p] = "woken"
  /\ status' = [status EXCEPT ![p] = pidinfo[Slot(kid[p])].status]
  /\ pi_drop(kid[p])
  /\ pc' = [pc EXCEPT ![p] = "run"]
  /\ Return(p)
  /\ UNCHANGED <<nextpid, p_pid, newproc>>

\* pid_disown, of waittest
PidDisown(p) ==
  /\ pc[p] = "run" /\ p = kproc
  /\ \E k \in PID_MIN..PID_MAX :
       /\ IsChild(k, p)
       /\ IF pi_get(k).exited THEN pi_drop(k)
          ELSE /\ pidinfo' = [pidinfo EXCEPT ![Slot(k)].ppid = INVALID_PID]
               /\ UNCHANGED nprocs
  /\ UNCHANGED <<nextpid, p_pid, pc, via, newproc, kid, status>>

-----------------------------------------------------------------------------
(* exit *)

\* Mutant: the waiters are not woken.
BroadcastNone(us) == {}

\* cv_broadcast on our entry
Broadcast(us) == {w \in Procs : pc[w] = "asleep" /\ kid[w] = us}

\* Mutant: children that have exited keep their entries.
AfterExitKeepsChildren(info, us, s) ==
  IF info.pid = us
  THEN IF info.ppid = INVALID_PID THEN NoInfo ELSE [info EXCEPT !.exited = TRUE, !.status = s]
  ELSE IF info.ppid = us THEN [info EXCEPT !.ppid = INVALID_PID] ELSE info

\* Mutant: an exit status nobody waits for yet is dropped.
AfterExitDropsUnawaited(info, us, s) ==
  IF info.pid = us
  THEN IF Broadcast(us) = {} THEN NoInfo ELSE [info EXCEPT !.exited = TRUE, !.status = s]
  ELSE IF info.ppid = us
  THEN IF info.exited THEN NoInfo ELSE [info EXCEPT !.ppid = INVALID_PID]
  ELSE info

\* What pid_setexitstatus makes of an entry: the children are disowned, dropped
\* if they have exited; we are kept with our status if we have a parent.
AfterExit(info, us, s) ==
  IF info.pid = us
  THEN IF info.ppid = INVALID_PID THEN NoInfo ELSE [info EXCEPT !.exited = TRUE, !.status = s]
  ELSE IF info.ppid = us
  THEN IF info.exited THEN NoInfo ELSE [info EXCEPT !.ppid = INVALID_PID]
  ELSE info

\* pid_setexitstatus
PidSetExitStatus(p) ==
  /\ pc[p] = "run" /\ p # kproc
  /\ \E s \in Statuses : pidinfo' = [i \in Slots |-> AfterExit(pidinfo[i], p_pid[p], s)]
  /\ nprocs' = nprocs - Cardinality({i \in Slots : Used(i) /\ pidinfo'[i] = NoInfo})
  /\ pc' = [w \in Procs |-> IF w = p THEN "exiting"
                            ELSE IF w \in Broadcast(p_pid[p]) THEN "woken" ELSE pc[w]]
  /\ p_pid' = [p_pid EXCEPT ![p] = INVALID_PID]
  /\ status' = [status EXCEPT ![p] = NoStatus]
  /\ UNCHANGED <<nextpid, via, newproc, kid>>

\* proc_exit: leave the process, destroy it and end the thread
ProcDestroy(p) ==
  /\ pc[p] = "exiting"
  /\ pc' = [pc EXCEPT ![p] = "none"]
  /\ UNCHANGED <<tableVars, p_pid, via, newproc, kid, status>>

-----------------------------------------------------------------------------
(* The system *)

\* What a process decides to do, and what the kernel does about it.
Calls(p) == ProcCreate(p) \/ WaitCall(p) \/ PidDisown(p) \/ PidSetExitStatus(p)

Kernel(p) ==
  \/ PidAlloc(p) \/ PidAllocFull(p) \/ PidAllocNoMemory(p) \/ CopyFails(p)
  \/ ThreadFork(p) \/ ThreadForkFails(p) \/ PidUnalloc(p) \/ Forked(p)
  \/ WaitFails(p) \/ WaitNoHang(p) \/ WaitSleeps(p) \/ WaitReaps(p) \/ ProcDestroy(p)

Panicked == \E p \in Procs : pc[p] = "panic"

Next ==
  \/ ~Panicked /\ \E p \in Procs : Calls(p) \/ Kernel(p)
  \/ Panicked /\ UNCHANGED vars

\* A thread inside the kernel is scheduled; a program need not call anything.
Spec == Init /\ [][Next]_vars /\ \A p \in Procs : WF_vars(~Panicked /\ Kernel(p))

-----------------------------------------------------------------------------
(* Properties *)

\* nprocs counts the table's entries: pid_alloc's loop, which relies on it, finds
\* a free slot before the turn at which it asserts (the comment in pid_alloc).
LoopEnds ==
  /\ nprocs = Cardinality({i \in Slots : Used(i)})
  /\ nprocs # PROCS_MAX => Turns # {}

\* A process with a pid has an entry under it that says it still runs, so that
\* no two have the same, pid_setexitstatus finds itself (it asserts so) and what
\* it says about its children is about its own.
PidIsOwn ==
  \A p \in Procs : p_pid[p] # INVALID_PID =>
    /\ pi_get(p_pid[p]).pid = p_pid[p] /\ ~pi_get(p_pid[p]).exited
    /\ \A q \in Procs : p_pid[q] = p_pid[p] => q = p

\* No slot is lost: an entry belongs to a process or is the exit status of one,
\* kept for a parent that still exists (the comment at struct pidinfo).
NothingKeptForNobody ==
  \A i \in Slots : Used(i) =>
    LET info == pidinfo[i]
    IN IF info.exited
       THEN \E p \in Procs : p_pid[p] = info.ppid /\ p_pid[p] # INVALID_PID
       ELSE \E p \in Procs : p_pid[p] = info.pid

\* The pid that fork is about to return is a child's the caller can wait for,
\* though that child may be gone; undoing a fork finds a child that never ran
\* (pid_unalloc's assertions); common_prog's wait, whose error nobody looks at,
\* does not fail.
ForkNamesAChild ==
  \A p \in Procs :
    /\ (pc[p] = "forked" \/ (pc[p] = "wait" /\ via[p] = "common_prog")) => IsChild(kid[p], p)
    /\ pc[p] \in {"copy", "unalloc"} => IsChild(kid[p], p) /\ ~pi_get(kid[p]).exited

\* A waiter's entry is not dropped or given to another process while it sleeps,
\* nor before it has pidlock again; it is woken for no other reason than the exit
\* of its child (pid_wait does not loop and asserts it), and not left asleep.
WaiterSeesExit ==
  \A p \in Procs : pc[p] \in {"asleep", "woken"} =>
    /\ IsChild(kid[p], p)
    /\ pi_get(kid[p]).exited = (pc[p] = "woken")

\* fork, exit and wait are those of ProcessFamily: pids and slots are reused, but
\* never so that a parent waits for another's child, gets another's status, gets
\* one twice or misses one.
Kids(p) == IF p_pid[p] = INVALID_PID THEN {}
           ELSE {i \in Slots : Used(i) /\ pidinfo[i].ppid = p_pid[p]}

KidStatuses ==
  [p \in Procs |-> [k \in {pidinfo[i].pid : i \in Kids(p)} |-> pi_get(k).status]]

Family == INSTANCE ProcessFamily WITH pid <- p_pid, kids <- KidStatuses, reply <- status

ImplementsFamily == Family!FamilySpec

\* A wait for a child that has exited returns.
WaitReturns ==
  \A p \in Procs :
    (pc[p] \in {"wait", "asleep", "woken"} /\ pi_get(kid[p]).exited) ~> (pc[p] = "run" \/ Panicked)
=============================================================================
