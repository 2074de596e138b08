----------------------------- MODULE Scheduler -----------------------------
(***************************************************************************)
(* The threads and processors of kern/thread/thread.c: each processor has  *)
(* a run queue, a list of zombies and a thread whose stack it runs on, and *)
(* idles on the stack of the thread it switched away from last.  Threads   *)
(* are forked, yield, sleep on a wait channel, are woken from any          *)
(* processor, migrate between run queues, and exit.                        *)
(*                                                                         *)
(* A step is a processor's: what it does while it has a run queue's lock,  *)
(* except that thread_switch is cut in two where it lets go of the wait    *)
(* channel's lock, because a thread is then on the channel and its stack   *)
(* still in use.  Spinlocks keep interrupts off; they come only in a       *)
(* thread that runs ("run") and in cpu_idle ("idle").                      *)
(***************************************************************************)
EXTENDS WaitChannel, Functions

CONSTANTS NumCpus,  \* cpuarray_num(&allcpus)
          Threads,  \* thread structures there is memory for: the bound of thread_fork
          None      \* NULL, and a spinlock nobody has

Cpus == 0 .. NumCpus - 1

ASSUME SchedulerAssumption ==
  /\ NumCpus \in Nat \ {0}
  /\ None \notin Threads \cup Cpus

VARIABLES t_state,         \* thread->t_state, "none" without a thread, "new" before make_runnable
          t_cpu,           \* thread->t_cpu
          t_child,         \* local variable newthread of thread_fork
          c_curthread,     \* cpu->c_curthread: the thread whose stack the processor uses
          c_isidle,        \* cpu->c_isidle
          c_runqueue,      \* cpu->c_runqueue
          c_zombies,       \* cpu->c_zombies
          c_runqueue_lock, \* taken, by the processor itself in thread_switch
          wc_threads,      \* wchan->wc_threads, of one wait channel
          lk,              \* the processor that has its spinlock
          ipi,             \* the line mainbus_send_ipi raises
          pc,              \* where each processor is
          newstate,        \* argument of thread_switch, S_READY unless it says otherwise
          list,            \* wchan_wakeall's private list, wchan_wakeone's target
          mig              \* local variables of thread_consider_migration

threads == <<t_state, t_cpu, t_child>>
queues  == <<c_runqueue, wc_threads>>
vars == <<t_state, t_cpu, t_child, c_curthread, c_isidle, c_runqueue, c_zombies, c_runqueue_lock,
          wc_threads, lk, ipi, pc, newstate, list, mig>>

\* "switch" wants its run queue's lock in thread_switch, "placed" and "pick" have
\* it; "unidle" is back from cpu_idle; "waking" makes threads runnable;
\* "ipi" has handled the interrupt and not cleared it; "count", "take" and "send"
\* are thread_consider_migration.
Places == {"run", "switch", "placed", "pick", "idle", "unidle", "waking", "ipi",
           "count", "take", "send"}

NoMigration == [i |-> 0, my_count |-> 0, total_count |-> 0, one_share |-> 0,
                to_send |-> 0, victims |-> <<>>]

\* cpu_create: each processor starts on a thread of its own.
Init ==
  /\ c_curthread \in Injection(Cpus, Threads)
  /\ t_state = [t \in Threads |-> IF t \in Range(c_curthread) THEN "run" ELSE "none"]
  /\ t_cpu = [t \in Threads |-> IF t \in Range(c_curthread)
                               THEN CHOOSE c \in Cpus : c_curthread[c] = t ELSE 0]
  /\ t_child = [t \in Threads |-> None]
  /\ c_isidle = [c \in Cpus |-> FALSE]
  /\ c_runqueue = [c \in Cpus |-> <<>>]
  /\ c_zombies = [c \in Cpus |-> <<>>]
  /\ c_runqueue_lock = [c \in Cpus |-> FALSE]
  /\ wc_threads = <<>>
  /\ lk = None
  /\ ipi = [c \in Cpus |-> FALSE]
  /\ pc = [c \in Cpus |-> "run"]
  /\ newstate = [c \in Cpus |-> "ready"]
  /\ list = [c \in Cpus |-> <<>>]
  /\ mig = [c \in Cpus |-> NoMigration]

Goto(c, place) == pc' = [pc EXCEPT ![c] = place]

\* Where an interrupt handler returns to: the thread, or the loop around cpu_idle.
AfterInterrupt(c) == IF c_isidle[c] THEN "unidle" ELSE "run"

-----------------------------------------------------------------------------
(* thread_make_runnable *)

\* Mutation: no interrupt is sent.
MakeRunnableQuietly(c, target) ==
  LET targetcpu == t_cpu[target]
  IN /\ ~c_runqueue_lock[targetcpu]
     /\ t_state' = [t_state EXCEPT ![target] = "ready"]
     /\ c_runqueue' = [c_runqueue EXCEPT ![targetcpu] = Append(@, target)]
     /\ ipi' = ipi

\* Mutation: the lock is not taken.
MakeRunnableUnlocked(c, target) ==
  LET targetcpu == t_cpu[target]
  IN /\ t_state' = [t_state EXCEPT ![target] = "ready"]
     /\ c_runqueue' = [c_runqueue EXCEPT ![targetcpu] = Append(@, target)]
     /\ ipi' = [ipi EXCEPT ![targetcpu] = @ \/ (c_isidle[targetcpu] /\ targetcpu # c)]

\* thread_make_runnable, without the lock already; the processor that idles is
\* sent an interrupt.
MakeRunnable(c, target) ==
  LET targetcpu == t_cpu[target]
  IN /\ ~c_runqueue_lock[targetcpu]
     /\ t_state' = [t_state EXCEPT ![target] = "ready"]
     /\ c_runqueue' = [c_runqueue EXCEPT ![targetcpu] = Append(@, target)]
     /\ ipi' = [ipi EXCEPT ![targetcpu] = @ \/ (c_isidle[targetcpu] /\ targetcpu # c)]

-----------------------------------------------------------------------------
(* What a running thread calls *)

\* thread_fork up to its last call: the new thread is the caller's, and on its
\* processor.
Fork(c, t) ==
  LET cur == c_curthread[c]
  IN /\ pc[c] = "run" /\ t_child[cur] = None /\ t_state[t] = "none"
     /\ t_state' = [t_state EXCEPT ![t] = "new"]
     /\ t_cpu' = [t_cpu EXCEPT ![t] = t_cpu[cur]]
     /\ t_child' = [t_child EXCEPT ![cur] = t]
     /\ UNCHANGED <<c_curthread, c_isidle, queues, c_zombies, c_runqueue_lock, lk, ipi, pc,
                    newstate, list, mig>>

\* thread_fork makes it runnable; the caller may have moved in the meantime.
ForkRun(c) ==
  LET cur == c_curthread[c]
  IN /\ pc[c] = "run" /\ t_child[cur] # None
     /\ MakeRunnable(c, t_child[cur])
     /\ t_child' = [t_child EXCEPT ![cur] = None]
     /\ UNCHANGED <<t_cpu, c_curthread, c_isidle, c_zombies, c_runqueue_lock, wc_threads, lk, pc,
                    newstate, list, mig>>

\* A caller takes the channel's lock and calls wchan_sleep.
Sleep(c) ==
  /\ pc[c] = "run" /\ t_child[c_curthread[c]] = None /\ lk = None
  /\ lk' = c
  /\ newstate' = [newstate EXCEPT ![c] = "sleep"]
  /\ Goto(c, "switch")
  /\ UNCHANGED <<threads, c_curthread, c_isidle, queues, c_zombies, c_runqueue_lock, ipi, list, mig>>

\* thread_exit.
Exit(c) ==
  /\ pc[c] = "run" /\ t_child[c_curthread[c]] = None
  /\ newstate' = [newstate EXCEPT ![c] = "zombie"]
  /\ Goto(c, "switch")
  /\ UNCHANGED <<threads, c_curthread, c_isidle, queues, c_zombies, c_runqueue_lock, lk, ipi,
                 list, mig>>

\* wchan_wakeone and wchan_wakeall, called with the channel's lock by a thread
\* or by an interrupt handler: n threads leave the channel.
Wake(c, n) ==
  /\ pc[c] \in {"run", "idle"}
  /\ lk = None /\ wc_threads # <<>>
  /\ lk' = c
  /\ list' = [list EXCEPT ![c] = SubSeq(wc_threads, 1, n)]
  /\ wc_threads' = SubSeq(wc_threads, n + 1, Len(wc_threads))
  /\ Goto(c, "waking")
  /\ UNCHANGED <<threads, c_curthread, c_isidle, c_runqueue, c_zombies, c_runqueue_lock, ipi,
                 newstate, mig>>

\* ... and become runnable one after the other; then the lock is released.
WakeNext(c) ==
  /\ pc[c] = "waking"
  /\ MakeRunnable(c, Head(list[c]))
  /\ list' = [list EXCEPT ![c] = Tail(@)]
  /\ IF Tail(list[c]) = <<>>
     THEN lk' = None /\ Goto(c, AfterInterrupt(c))
     ELSE UNCHANGED <<lk, pc>>
  /\ UNCHANGED <<t_cpu, t_child, c_curthread, c_isidle, c_zombies, c_runqueue_lock, wc_threads,
                 newstate, mig>>

-----------------------------------------------------------------------------
(* thread_switch *)

\* Mutation: a thread that yields goes to the head of the queue.
PlaceFirst(c) ==
  LET cur == c_curthread[c]
  IN /\ c_runqueue' = [c_runqueue EXCEPT ![c] = IF newstate[c] = "ready" THEN <<cur>> \o @ ELSE @]
     /\ wc_threads' = IF newstate[c] = "sleep" THEN Append(wc_threads, cur) ELSE wc_threads
     /\ c_zombies' = [c_zombies EXCEPT ![c] = IF newstate[c] = "zombie" THEN Append(@, cur) ELSE @]

\* The switch that puts the thread in the right place.
Place(c) ==
  LET cur == c_curthread[c]
  IN /\ c_runqueue' = [c_runqueue EXCEPT ![c] = IF newstate[c] = "ready" THEN Append(@, cur) ELSE @]
     /\ wc_threads' = IF newstate[c] = "sleep" THEN Append(wc_threads, cur) ELSE wc_threads
     /\ c_zombies' = [c_zombies EXCEPT ![c] = IF newstate[c] = "zombie" THEN Append(@, cur) ELSE @]

\* thread_switch with nothing to do: nobody else to run.
SwitchBack(c) ==
  /\ pc[c] = "switch" /\ newstate[c] = "ready" /\ c_runqueue[c] = <<>>
  /\ Goto(c, "run")
  /\ UNCHANGED <<threads, c_curthread, c_isidle, queues, c_zombies, c_runqueue_lock, lk, ipi,
                 newstate, list, mig>>

\* ... otherwise it locks its run queue, puts the thread in the right place and
\* lets go of the channel's lock: from here on the thread can be woken.
SwitchAway(c) ==
  /\ pc[c] = "switch" /\ ~(newstate[c] = "ready" /\ c_runqueue[c] = <<>>)
  /\ Place(c)
  /\ lk' = IF newstate[c] = "sleep" THEN None ELSE lk
  /\ c_runqueue_lock' = [c_runqueue_lock EXCEPT ![c] = TRUE]
  /\ Goto(c, "placed")
  /\ UNCHANGED <<threads, c_curthread, c_isidle, ipi, newstate, list, mig>>

\* Only then does it set the thread's state, and is idle.
GoIdle(c) ==
  /\ pc[c] = "placed"
  /\ t_state' = [t_state EXCEPT ![c_curthread[c]] = newstate[c]]
  /\ c_isidle' = [c_isidle EXCEPT ![c] = TRUE]
  /\ newstate' = [newstate EXCEPT ![c] = "ready"]
  /\ Goto(c, "pick")
  /\ UNCHANGED <<t_cpu, t_child, c_curthread, queues, c_zombies, c_runqueue_lock, lk, ipi, list, mig>>

\* The loop finds no thread: the lock is released around cpu_idle.
PickNone(c) ==
  /\ pc[c] = "pick" /\ c_runqueue[c] = <<>>
  /\ c_runqueue_lock' = [c_runqueue_lock EXCEPT ![c] = FALSE]
  /\ Goto(c, "idle")
  /\ UNCHANGED <<threads, c_curthread, c_isidle, queues, c_zombies, lk, ipi, newstate, list, mig>>

\* ... or it finds one, and switches to its stack.  That thread, in the tail of
\* its own thread_switch or in thread_startup, releases the lock and destroys the
\* processor's zombies (exorcise) before it lets interrupts in.
PickNext(c) ==
  LET next == Head(c_runqueue[c])
      dead == On(c_zombies[c])
  IN /\ pc[c] = "pick" /\ c_runqueue[c] # <<>>
     /\ c_curthread' = [c_curthread EXCEPT ![c] = next]
     /\ t_state' = [t \in Threads |-> IF t \in dead THEN "none"
                                     ELSE IF t = next THEN "run" ELSE t_state[t]]
     /\ t_cpu' = [t \in Threads |-> IF t \in dead THEN 0 ELSE t_cpu[t]]
     /\ c_runqueue' = [c_runqueue EXCEPT ![c] = Tail(@)]
     /\ c_zombies' = [c_zombies EXCEPT ![c] = <<>>]
     /\ c_isidle' = [c_isidle EXCEPT ![c] = FALSE]
     /\ c_runqueue_lock' = [c_runqueue_lock EXCEPT ![c] = FALSE]
     /\ Goto(c, "run")
     /\ UNCHANGED <<t_child, wc_threads, lk, ipi, newstate, list, mig>>

\* The loop again, after cpu_idle.
Unidle(c) ==
  /\ pc[c] = "unidle"
  /\ c_runqueue_lock' = [c_runqueue_lock EXCEPT ![c] = TRUE]
  /\ Goto(c, "pick")
  /\ UNCHANGED <<threads, c_curthread, c_isidle, queues, c_zombies, lk, ipi, newstate, list, mig>>

-----------------------------------------------------------------------------
(* Interrupts *)

\* interprocessor_interrupt: being interrupted is what IPI_UNIDLE asks for.
Interrupt(c) ==
  /\ pc[c] \in {"run", "idle"} /\ ipi[c]
  /\ Goto(c, "ipi")
  /\ UNCHANGED <<threads, c_curthread, c_isidle, queues, c_zombies, c_runqueue_lock, lk, ipi,
                 newstate, list, mig>>

\* mainbus_interrupt lowers the line after the handler has returned.
ClearIpi(c) ==
  /\ pc[c] = "ipi"
  /\ ipi' = [ipi EXCEPT ![c] = FALSE]
  /\ Goto(c, AfterInterrupt(c))
  /\ UNCHANGED <<threads, c_curthread, c_isidle, queues, c_zombies, c_runqueue_lock, lk, newstate,
                 list, mig>>

\* thread_yield at the end of hardclock: on an idle processor thread_switch
\* returns at once.
YieldTo(c) == IF c_isidle[c] THEN "unidle" ELSE "switch"

\* hardclock on the ticks that do not migrate threads, and thread_yield as such.
Tick(c) ==
  /\ pc[c] \in {"run", "idle"}
  /\ Goto(c, YieldTo(c))
  /\ UNCHANGED <<threads, c_curthread, c_isidle, queues, c_zombies, c_runqueue_lock, lk, ipi,
                 newstate, list, mig>>

-----------------------------------------------------------------------------
(* thread_consider_migration *)

\* Leaves thread_consider_migration: its local variables are gone.
Leave(c) ==
  /\ mig' = [mig EXCEPT ![c] = NoMigration]
  /\ Goto(c, YieldTo(c))

\* DIVROUNDUP(total_count, numcpus)
OneShare(total) == (total + NumCpus - 1) \div NumCpus

\* The first loop counts queue i under its lock.  After the last one a processor
\* that has no more than its share has nothing to send.
CountQueue(c, i) ==
  LET n        == Len(c_runqueue[i])
      total    == mig[c].total_count + n
      my_count == IF i = c THEN n ELSE mig[c].my_count
      share    == OneShare(total)
  IN /\ ~c_runqueue_lock[i]
     /\ IF i + 1 < NumCpus
        THEN /\ mig' = [mig EXCEPT ![c].i = i + 1, ![c].total_count = total,
                                   ![c].my_count = my_count]
             /\ Goto(c, "count")
        ELSE IF my_count <= share THEN Leave(c)
        ELSE /\ mig' = [mig EXCEPT ![c] = [NoMigration EXCEPT !.one_share = share,
                                                              !.to_send = my_count - share]]
             /\ Goto(c, "take")
     /\ UNCHANGED <<threads, c_curthread, c_isidle, queues, c_zombies, c_runqueue_lock, lk, ipi,
                    newstate, list>>

\* hardclock on the ticks that migrate threads.
MigrateTick(c) == pc[c] \in {"run", "idle"} /\ CountQueue(c, 0)

Count(c) == pc[c] = "count" /\ CountQueue(c, mig[c].i)

\* The second loop's next processor, from i on: not itself.
NextOther(c, i) == IF i = c THEN i + 1 ELSE i

\* The last to_send threads of its queue become victims.
Take(c) ==
  LET q == c_runqueue[c]
      n == Len(q) - mig[c].to_send
  IN /\ pc[c] = "take"
     /\ c_runqueue' = [c_runqueue EXCEPT ![c] = SubSeq(q, 1, n)]
     /\ mig' = [mig EXCEPT ![c].victims = SubSeq(q, n + 1, Len(q)), ![c].i = NextOther(c, 0)]
     /\ Goto(c, "send")
     /\ UNCHANGED <<threads, c_curthread, c_isidle, c_zombies, c_runqueue_lock, wc_threads, lk, ipi,
                    newstate, list>>

Smaller(a, b) == IF a < b THEN a ELSE b

\* The same loop without a look at curthread, for when that is not among them
\* (as all of it, a mutation: curthread is sent like any other).
FillAny(v, to_send, room, cur) ==
  LET n == Smaller(room, to_send)
  IN [sent |-> SubSeq(v, 1, n), to_send |-> to_send - n, victims |-> SubSeq(v, n + 1, Len(v))]

\* What the loop over the victims does with room for that many of them: those it
\* sends, what is left of to_send, and the victims that stay.  If the loop gets to
\* a victim that is curthread, it puts that one last and counts it as sent.
Fill(v, to_send, room, cur) ==
  LET reached == {j \in 1 .. Smaller(room, to_send) : v[j] = cur}
  IN IF reached = {} THEN FillAny(v, to_send, room, cur)
     ELSE LET at   == CHOOSE j \in reached : TRUE
              rest == SubSeq(v, 1, at - 1) \o SubSeq(v, at + 1, Len(v))
              fill == FillAny(rest, to_send - 1, room, cur)
          IN [fill EXCEPT !.victims = Append(@, cur)]

\* One round of the second loop: processor i gets victims up to one_share, and
\* an interrupt if it idles.
Send(c) ==
  LET m == mig[c]
      i == m.i
      n == Len(c_runqueue[i])
      room == IF n < m.one_share THEN m.one_share - n ELSE 0
      f == Fill(m.victims, m.to_send, room, c_curthread[c])
  IN /\ pc[c] = "send" /\ i < NumCpus /\ m.to_send > 0 /\ ~c_runqueue_lock[i]
     /\ t_cpu' = [t \in Threads |-> IF t \in On(f.sent) THEN i ELSE t_cpu[t]]
     /\ c_runqueue' = [c_runqueue EXCEPT ![i] = @ \o f.sent]
     /\ ipi' = [ipi EXCEPT ![i] = @ \/ (c_isidle[i] /\ f.sent # <<>>)]
     /\ mig' = [mig EXCEPT ![c].i = NextOther(c, i + 1), ![c].to_send = f.to_send,
                           ![c].victims = f.victims]
     /\ UNCHANGED <<t_state, t_child, c_curthread, c_isidle, c_zombies, c_runqueue_lock, wc_threads,
                    lk, pc, newstate, list>>

\* Leftovers go back on its own queue.
Keep(c) ==
  /\ pc[c] = "send" /\ (mig[c].to_send = 0 \/ mig[c].i = NumCpus)
  /\ c_runqueue' = [c_runqueue EXCEPT ![c] = @ \o mig[c].victims]
  /\ Leave(c)
  /\ UNCHANGED <<threads, c_curthread, c_isidle, c_zombies, c_runqueue_lock, wc_threads, lk, ipi,
                 newstate, list>>

-----------------------------------------------------------------------------

Caller(c) == ForkRun(c) \/ Sleep(c) \/ Exit(c) \/ \E t \in Threads : Fork(c, t)

Waker(c) == \E n \in {1, Len(wc_threads)} : Wake(c, n)

Switch(c) == \/ SwitchBack(c) \/ SwitchAway(c) \/ GoIdle(c)
             \/ PickNone(c) \/ PickNext(c) \/ Unidle(c)

Migrate(c) == Count(c) \/ Take(c) \/ Send(c) \/ Keep(c)

Hardclock(c) == Tick(c) \/ MigrateTick(c)

Next == \E c \in Cpus :
  \/ Caller(c) \/ Waker(c) \/ WakeNext(c) \/ Switch(c)
  \/ Interrupt(c) \/ ClearIpi(c) \/ Hardclock(c) \/ Migrate(c)

Spec == Init /\ [][Next]_vars

-----------------------------------------------------------------------------
(* Properties *)

TypeOK ==
  /\ t_state \in [Threads -> {"none", "new", "ready", "run", "sleep", "zombie"}]
  /\ t_cpu \in [Threads -> Cpus]
  /\ t_child \in [Threads -> Threads \cup {None}]
  /\ c_curthread \in [Cpus -> Threads]
  /\ c_isidle \in [Cpus -> BOOLEAN]
  /\ c_runqueue \in [Cpus -> Seq(Threads)]
  /\ c_zombies \in [Cpus -> Seq(Threads)]
  /\ c_runqueue_lock \in [Cpus -> BOOLEAN]
  /\ wc_threads \in Seq(Threads)
  /\ lk \in Cpus \cup {None}
  /\ ipi \in [Cpus -> BOOLEAN]
  /\ pc \in [Cpus -> Places]
  /\ newstate \in [Cpus -> {"ready", "sleep", "zombie"}]
  /\ list \in [Cpus -> Seq(Threads)]
  /\ mig \in [Cpus -> [i : 0 .. NumCpus, my_count : Nat, total_count : Nat, one_share : Nat,
                       to_send : Nat, victims : Seq(Threads)]]

\* A processor runs, and idles, on a stack no other processor uses and nobody
\* has freed, although its thread may already be on a wait channel, on a run
\* queue or a zombie, and it stays the thread's t_cpu, which others write
\* (thread_switch and its "DEBUGASSERT(curthread->t_cpu == curcpu->c_self)"; the
\* assertions of exorcise and thread_destroy; the "bad things" of
\* thread_consider_migration's comment).
OwnStack ==
  \A c \in Cpus : /\ t_state[c_curthread[c]] # "none" /\ t_cpu[c_curthread[c]] = c
                  /\ \A d \in Cpus : c_curthread[c] = c_curthread[d] => c = d

\* No thread is lost, and none is in two places: every processor's ready threads
\* are on its run queue, or in hand in its thread_consider_migration, and its dead
\* ones on its list of zombies, each listed once; it runs one thread or, when it
\* idles, none; and who sleeps is on the channel, or in the hands of who wakes it
\* (thread_switch, thread_make_runnable, wchan_wakeall, thread_consider_migration).
Between(s, v, A) ==
  Lists(s, On(s)) /\ Lists(v, On(v)) /\ On(s) \cap On(v) = {} /\ On(s) \cup On(v) = A

\* A thread is in the state thread_switch is about to set.
StateOf(t) == LET c == t_cpu[t]
              IN IF pc[c] = "placed" /\ c_curthread[c] = t THEN newstate[c] ELSE t_state[t]

ThreadsOf(c, state) == {t \in Threads : t_cpu[t] = c /\ StateOf(t) = state}

Woken == IF lk = None THEN <<>> ELSE list[lk]

OnePlace ==
  /\ \A c \in Cpus :
       /\ Between(c_runqueue[c], mig[c].victims, ThreadsOf(c, "ready"))
       /\ Lists(c_zombies[c], ThreadsOf(c, "zombie"))
       /\ ThreadsOf(c, "run") = IF pc[c] = "placed" \/ c_isidle[c] THEN {} ELSE {c_curthread[c]}
  /\ Between(wc_threads, Woken, {t \in Threads : StateOf(t) = "sleep"})

\* A processor waits in cpu_idle only while there is nothing for it to run, or
\* with an interrupt on its way: no wakeup is lost between the last look at the
\* run queue and cpu_idle, or to the line being lowered late (thread_switch,
\* thread_make_runnable, ipi_send, mainbus_interrupt).
NoLostUnidle == \A c \in Cpus : pc[c] = "idle" /\ c_runqueue[c] # <<>> => ipi[c]

\* The thread at the head of a run queue is the next to run there: no yield,
\* wakeup or leftover gets before it, and thread_consider_migration, whose counts
\* are old by the time it uses them, does not take it away.
HeadIsNext ==
  [][\A c \in Cpus : c_runqueue[c] # <<>> =>
       LET head == Head(c_runqueue[c])
       IN \/ c_runqueue'[c] # <<>> /\ Head(c_runqueue'[c]) = head
          \/ c_curthread'[c] = head /\ t_state'[head] = "run"]_vars
=============================================================================
