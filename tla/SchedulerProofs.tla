-------------------------- MODULE SchedulerProofs --------------------------
(***************************************************************************)
(* The scheduler of Scheduler.tla, for every number of processors and      *)
(* every set of threads: each thread is in one place, each processor on a  *)
(* stack of its own, none idles beside a thread it was not told of, and    *)
(* the head of a run queue is the next to run there.                       *)
(***************************************************************************)
EXTENDS Scheduler, WaitChannelFacts

-----------------------------------------------------------------------------
(* The inductive invariant, part by part *)

\* What a processor's place says about its flags, its locks and what it has in
\* hand.
Fits(c) ==
  /\ pc[c] \in {"pick", "idle", "unidle"} => c_isidle[c]
  /\ pc[c] \in {"run", "switch", "placed"} => ~c_isidle[c]
  /\ c_runqueue_lock[c] <=> pc[c] \in {"placed", "pick"}
  /\ newstate[c] # "ready" => pc[c] \in {"switch", "placed"}
  /\ lk = c <=> pc[c] = "waking" \/ (pc[c] = "switch" /\ newstate[c] = "sleep")
  /\ list[c] # <<>> <=> pc[c] = "waking"
  /\ mig[c].victims # <<>> => pc[c] = "send"

Control == TypeOK /\ \A c \in Cpus : Fits(c)

\* thread_consider_migration: while it counts and takes, its own queue only
\* grows, so that it never takes more than is there, nor the head.
Migration ==
  \A c \in Cpus :
    LET m == mig[c]
    IN /\ pc[c] \notin {"count", "take", "send"} => m = NoMigration
       /\ pc[c] = "count" => m.i < NumCpus /\ m.my_count <= Len(c_runqueue[c])
                             /\ m.my_count <= m.total_count
       /\ pc[c] = "take" => m.one_share > 0 /\ m.to_send + m.one_share <= Len(c_runqueue[c])
       /\ pc[c] = "send" => m.i # c /\ m.to_send <= Len(m.victims)

\* A thread being forked has no other parent, and runs nowhere yet.
Children ==
  \A u, t \in Threads : t_child[u] = t =>
    t_state[t] = "new" /\ \A v \in Threads : t_child[v] = t => v = u

\* A processor's stack is that of a thread of its own that was made runnable.
Stacks ==
  \A c \in Cpus : t_cpu[c_curthread[c]] = c /\ t_state[c_curthread[c]] \notin {"none", "new"}

IInv == Control /\ Migration /\ Children /\ Stacks /\ OnePlace /\ NoLostUnidle

-----------------------------------------------------------------------------
(* Lists of threads, cut and joined *)

\* A list in which nobody is twice.
Once(s) == Lists(s, On(s))

\* The two parts of a list have nobody in common and together list the same.
LEMMA Cut ==
  ASSUME NEW S, NEW s \in Seq(S), Once(s), NEW n \in 0 .. Len(s)
  PROVE  /\ SubSeq(s, 1, n) \in Seq(S) /\ Len(SubSeq(s, 1, n)) = n
         /\ SubSeq(s, n + 1, Len(s)) \in Seq(S) /\ Len(SubSeq(s, n + 1, Len(s))) = Len(s) - n
         /\ \A k \in 1 .. n : SubSeq(s, 1, n)[k] = s[k]
         /\ Between(SubSeq(s, 1, n), SubSeq(s, n + 1, Len(s)), On(s))
<1>. DEFINE a == SubSeq(s, 1, n)
            b == SubSeq(s, n + 1, Len(s))
<1>1. /\ a \in Seq(S) /\ Len(a) = n /\ \A k \in 1 .. n : a[k] = s[k]
      /\ b \in Seq(S) /\ Len(b) = Len(s) - n /\ \A k \in 1 .. Len(s) - n : b[k] = s[n + k]
      /\ Len(s) \in Nat
  OBVIOUS
<1>. HIDE DEF a, b
<1>2. \A i, j \in 1 .. Len(s) : s[i] = s[j] => i = j
  BY DEF Once, Lists
<1>3. Once(a)
  BY <1>1, <1>2 DEF Once, Lists
<1>4. Once(b)
  <2>. SUFFICES ASSUME NEW i \in 1 .. Len(b), NEW j \in 1 .. Len(b), b[i] = b[j]
       PROVE  i = j
    BY DEF Once, Lists
  <2>1. n + i \in 1 .. Len(s) /\ n + j \in 1 .. Len(s) /\ s[n + i] = s[n + j]
    BY <1>1
  <2>. QED  BY <1>2, <2>1
<1>5. On(a) \cap On(b) = {}
  <2>. SUFFICES ASSUME NEW i \in 1 .. Len(a), NEW j \in 1 .. Len(b), a[i] = b[j]
       PROVE  FALSE
    BY DEF On
  <2>1. i \in 1 .. Len(s) /\ n + j \in 1 .. Len(s) /\ s[i] = s[n + j] /\ i # n + j
    BY <1>1
  <2>. QED  BY <1>2, <2>1
<1>6. On(a) \cup On(b) = On(s)
  <2>1. ASSUME NEW i \in 1 .. Len(a) PROVE a[i] \in On(s)
    BY <1>1 DEF On
  <2>2. ASSUME NEW j \in 1 .. Len(b) PROVE b[j] \in On(s)
    <3>1. n + j \in 1 .. Len(s) /\ b[j] = s[n + j]
      BY <1>1
    <3>. QED  BY <3>1 DEF On
  <2>3. ASSUME NEW i \in 1 .. Len(s) PROVE s[i] \in On(a) \cup On(b)
    <3>1. CASE i <= n
      BY <1>1, <3>1 DEF On
    <3>2. CASE i > n
      <4>1. i - n \in 1 .. Len(b) /\ b[i - n] = s[i]
        BY <1>1, <3>2
      <4>. QED  BY <4>1 DEF On
    <3>. QED  BY <1>1, <3>1, <3>2
  <2>. QED  BY <2>1, <2>2, <2>3 DEF On
<1>. QED  BY <1>1, <1>3, <1>4, <1>5, <1>6 DEF Between, Once, a, b

\* Lists with nobody in common make one list when joined.
LEMMA Joined ==
  ASSUME NEW S, NEW a \in Seq(S), NEW b \in Seq(S), NEW A, Between(a, b, A)
  PROVE  /\ a \o b \in Seq(S) /\ Len(a \o b) = Len(a) + Len(b) /\ Lists(a \o b, A)
         /\ \A k \in 1 .. Len(a) : (a \o b)[k] = a[k]
<1>. DEFINE s == a \o b
<1>1. /\ s \in Seq(S) /\ Len(s) = Len(a) + Len(b) /\ Len(a) \in Nat /\ Len(b) \in Nat
      /\ \A k \in 1 .. Len(a) : s[k] = a[k]
      /\ \A k \in 1 .. Len(b) : s[Len(a) + k] = b[k]
  OBVIOUS
<1>. HIDE DEF s
<1>2. ASSUME NEW i \in 1 .. Len(s)
      PROVE  \/ i \in 1 .. Len(a) /\ s[i] = a[i]
             \/ i - Len(a) \in 1 .. Len(b) /\ s[i] = b[i - Len(a)]
  <2>1. CASE i <= Len(a)
    BY <1>1, <2>1
  <2>2. CASE i > Len(a)
    <3>1. i - Len(a) \in 1 .. Len(b) /\ Len(a) + (i - Len(a)) = i
      BY <1>1, <2>2
    <3>. QED  BY <1>1, <3>1
  <2>. QED  BY <1>1, <2>1, <2>2
<1>3. On(s) = A
  <2>1. ASSUME NEW i \in 1 .. Len(s) PROVE s[i] \in A
    BY <1>2 DEF On, Between
  <2>2. ASSUME NEW i \in 1 .. Len(a) PROVE a[i] \in On(s)
    BY <1>1 DEF On
  <2>3. ASSUME NEW i \in 1 .. Len(b) PROVE b[i] \in On(s)
    <3>1. Len(a) + i \in 1 .. Len(s) /\ s[Len(a) + i] = b[i]
      BY <1>1
    <3>. QED  BY <3>1 DEF On
  <2>. QED  BY <2>1, <2>2, <2>3 DEF On, Between
<1>4. ASSUME NEW i \in 1 .. Len(s), NEW j \in 1 .. Len(s), s[i] = s[j] PROVE i = j
  <2>1. \A k \in 1 .. Len(a), l \in 1 .. Len(b) : a[k] # b[l]
    BY DEF Between, On
  <2>2. /\ \A k, l \in 1 .. Len(a) : a[k] = a[l] => k = l
        /\ \A k, l \in 1 .. Len(b) : b[k] = b[l] => k = l
    BY DEF Between, Lists
  <2>3. CASE i \in 1 .. Len(a) /\ s[i] = a[i]
    <3>1. j \in 1 .. Len(a) /\ s[j] = a[j]
      BY <1>2, <1>4, <2>1, <2>3
    <3>. QED  BY <1>4, <2>2, <2>3, <3>1
  <2>4. CASE i - Len(a) \in 1 .. Len(b) /\ s[i] = b[i - Len(a)]
    <3>1. j - Len(a) \in 1 .. Len(b) /\ s[j] = b[j - Len(a)]
      BY <1>2, <1>4, <2>1, <2>4
    <3>2. i - Len(a) = j - Len(a)
      BY <1>4, <2>2, <2>4, <3>1
    <3>. QED  BY <1>1, <3>2
  <2>. QED  BY <1>2, <2>3, <2>4
<1>. QED  BY <1>1, <1>3, <1>4 DEF Lists, s

\* A list without the thread at one place.
LEMMA Without ==
  ASSUME NEW S, NEW s \in Seq(S), Once(s), NEW at \in 1 .. Len(s)
  PROVE  LET rest == SubSeq(s, 1, at - 1) \o SubSeq(s, at + 1, Len(s))
         IN rest \in Seq(S) /\ Len(rest) = Len(s) - 1 /\ Lists(rest, On(s) \ {s[at]})
<1>. DEFINE a == SubSeq(s, 1, at - 1)
            b == SubSeq(s, at + 1, Len(s))
<1>1. /\ a \in Seq(S) /\ Len(a) = at - 1 /\ \A k \in 1 .. at - 1 : a[k] = s[k]
      /\ b \in Seq(S) /\ Len(b) = Len(s) - at /\ \A k \in 1 .. Len(s) - at : b[k] = s[at + k]
      /\ Len(s) \in Nat /\ at \in 0 .. Len(s) /\ at - 1 \in 0 .. Len(s)
  OBVIOUS
<1>2. Once(a) /\ Once(b)
  BY <1>1, Cut DEF Between, Once
<1>. HIDE DEF a, b
<1>3. \A i, j \in 1 .. Len(s) : s[i] = s[j] => i = j
  BY DEF Once, Lists
<1>4. On(a) \cap On(b) = {}
  <2>. SUFFICES ASSUME NEW i \in 1 .. Len(a), NEW j \in 1 .. Len(b), a[i] = b[j]
       PROVE  FALSE
    BY DEF On
  <2>1. i \in 1 .. Len(s) /\ at + j \in 1 .. Len(s) /\ s[i] = s[at + j] /\ i # at + j
    BY <1>1
  <2>. QED  BY <1>3, <2>1
<1>5. On(a) \cup On(b) = On(s) \ {s[at]}
  <2>1. ASSUME NEW i \in 1 .. Len(a) PROVE a[i] \in On(s) \ {s[at]}
    <3>1. i \in 1 .. Len(s) /\ a[i] = s[i] /\ i # at
      BY <1>1
    <3>. QED  BY <1>3, <3>1 DEF On
  <2>2. ASSUME NEW j \in 1 .. Len(b) PROVE b[j] \in On(s) \ {s[at]}
    <3>1. at + j \in 1 .. Len(s) /\ b[j] = s[at + j] /\ at + j # at
      BY <1>1
    <3>. QED  BY <1>3, <3>1 DEF On
  <2>3. ASSUME NEW i \in 1 .. Len(s), s[i] # s[at] PROVE s[i] \in On(a) \cup On(b)
    <3>1. CASE i < at
      BY <1>1, <3>1 DEF On
    <3>2. CASE i > at
      <4>1. i - at \in 1 .. Len(b) /\ b[i - at] = s[i]
        BY <1>1, <3>2
      <4>. QED  BY <4>1 DEF On
    <3>. QED  BY <1>1, <2>3, <3>1, <3>2
  <2>. QED  BY <2>1, <2>2, <2>3 DEF On
<1>6. Between(a, b, On(s) \ {s[at]})
  BY <1>2, <1>4, <1>5 DEF Between, Once
<1>7. a \o b \in Seq(S) /\ Len(a \o b) = Len(a) + Len(b) /\ Lists(a \o b, On(s) \ {s[at]})
  BY <1>1, <1>6, Joined
<1>8. Len(a) + Len(b) = Len(s) - 1
  BY <1>1
<1>. QED  BY <1>7, <1>8 DEF a, b

\* What the loop over the victims leaves: nobody gets lost, curthread stays.
LEMMA FilledAny ==
  ASSUME NEW v \in Seq(Threads), Once(v), NEW k \in 0 .. Len(v), NEW room \in Nat, NEW cur
  PROVE  LET f == FillAny(v, k, room, cur)
             n == Smaller(room, k)
         IN /\ f.sent \in Seq(Threads) /\ f.victims \in Seq(Threads)
            /\ Between(f.victims, f.sent, On(v))
            /\ f.to_send \in 0 .. k /\ f.to_send <= Len(f.victims)
            /\ On(f.sent) = {v[j] : j \in 1 .. n}
            /\ f = [sent |-> f.sent, to_send |-> f.to_send, victims |-> f.victims]
<1>. DEFINE n == Smaller(room, k)
            f == FillAny(v, k, room, cur)
            a == SubSeq(v, 1, n)
            b == SubSeq(v, n + 1, Len(v))
<1>1. n \in 0 .. k /\ n \in 0 .. Len(v) /\ Len(v) \in Nat
  BY DEF Smaller
<1>. HIDE DEF n
<1>2. /\ a \in Seq(Threads) /\ Len(a) = n /\ \A j \in 1 .. n : a[j] = v[j]
      /\ b \in Seq(Threads) /\ Len(b) = Len(v) - n /\ Between(a, b, On(v))
  BY <1>1, Cut
<1>3. f.sent = a /\ f.victims = b /\ f.to_send = k - n
      /\ f = [sent |-> a, to_send |-> k - n, victims |-> b]
  BY DEF FillAny, n
<1>. HIDE DEF a, b, f
<1>4. On(a) = {v[j] : j \in 1 .. n}
  BY <1>2 DEF On
<1>5. Between(b, a, On(v))
  BY <1>2 DEF Between
<1>6. k - n \in 0 .. k /\ k - n <= Len(b)
  BY <1>1, <1>2
<1>. QED  BY <1>2, <1>3, <1>4, <1>5, <1>6 DEF f, n

LEMMA Filled ==
  ASSUME NEW v \in Seq(Threads), Once(v), NEW k \in 0 .. Len(v), NEW room \in Nat,
         NEW cur \in Threads
  PROVE  LET f == Fill(v, k, room, cur)
         IN /\ f.sent \in Seq(Threads) /\ f.victims \in Seq(Threads)
            /\ Between(f.victims, f.sent, On(v)) /\ cur \notin On(f.sent)
            /\ f.to_send \in 0 .. k /\ f.to_send <= Len(f.victims)
<1>. DEFINE reached == {j \in 1 .. Smaller(room, k) : v[j] = cur}
<1>1. CASE reached = {}
  <2>1. Fill(v, k, room, cur) = FillAny(v, k, room, cur)
    BY <1>1 DEF Fill
  <2>2. cur \notin {v[j] : j \in 1 .. Smaller(room, k)}
    BY <1>1
  <2>. HIDE DEF reached
  <2>. QED  BY <2>1, <2>2, FilledAny
<1>2. CASE reached # {}
  <2>. DEFINE at   == CHOOSE j \in reached : TRUE
              rest == SubSeq(v, 1, at - 1) \o SubSeq(v, at + 1, Len(v))
              fill == FillAny(rest, k - 1, room, cur)
  <2>1. at \in 1 .. Len(v) /\ v[at] = cur /\ k \in 1 .. Len(v)
    <3>1. at \in reached
      BY <1>2
    <3>2. \A j \in reached : j \in 1 .. Len(v) /\ v[j] = cur /\ k \in 1 .. Len(v)
      BY DEF Smaller
    <3>. QED  BY <3>1, <3>2
  <2>2. Fill(v, k, room, cur) = [fill EXCEPT !.victims = Append(@, cur)]
    BY <1>2 DEF Fill
  <2>. HIDE DEF at, reached
  <2>3. rest \in Seq(Threads) /\ Len(rest) = Len(v) - 1 /\ Lists(rest, On(v) \ {cur})
    BY <2>1, Without
  <2>. HIDE DEF rest
  <2>4. Once(rest) /\ On(rest) = On(v) \ {cur} /\ k - 1 \in 0 .. Len(rest)
    BY <2>1, <2>3 DEF Once, Lists
  <2>5. /\ fill.sent \in Seq(Threads) /\ fill.victims \in Seq(Threads)
        /\ Between(fill.victims, fill.sent, On(v) \ {cur})
        /\ fill.to_send \in 0 .. k - 1 /\ fill.to_send <= Len(fill.victims)
        /\ fill = [sent |-> fill.sent, to_send |-> fill.to_send, victims |-> fill.victims]
    <3>. DEFINE less == k - 1
    <3>1. less \in 0 .. Len(rest)
      BY <2>4
    <3>. HIDE DEF less
    <3>2. LET f == FillAny(rest, less, room, cur)
          IN /\ f.sent \in Seq(Threads) /\ f.victims \in Seq(Threads)
             /\ Between(f.victims, f.sent, On(rest))
             /\ f.to_send \in 0 .. less /\ f.to_send <= Len(f.victims)
             /\ f = [sent |-> f.sent, to_send |-> f.to_send, victims |-> f.victims]
      BY <2>3, <2>4, <3>1, FilledAny
    <3>. QED  BY <2>4, <3>2 DEF less
  <2>. HIDE DEF fill
  <2>. DEFINE f == Fill(v, k, room, cur)
  <2>6. f.sent = fill.sent /\ f.to_send = fill.to_send /\ f.victims = Asleep(fill.victims, cur)
    BY <2>2, <2>5 DEF Asleep
  <2>. HIDE DEF f
  <2>7. cur \notin On(fill.victims) /\ cur \notin On(fill.sent) /\ cur \in On(v)
    BY <2>1, <2>5 DEF Between, On
  <2>8. /\ Asleep(fill.victims, cur) \in Seq(Threads)
        /\ Lists(Asleep(fill.victims, cur), On(fill.victims) \cup {cur})
    BY <2>5, <2>7, SleepLists DEF Between
  <2>9. Len(Asleep(fill.victims, cur)) = Len(fill.victims) + 1 /\ Len(fill.victims) \in Nat
    BY <2>5 DEF Asleep
  <2>10. Between(f.victims, f.sent, On(v))
    BY <2>5, <2>6, <2>7, <2>8 DEF Between, Lists
  <2>11. f.to_send \in 0 .. k /\ f.to_send <= Len(f.victims)
    BY <2>5, <2>6, <2>9
  <2>. QED  BY <2>5, <2>6, <2>7, <2>8, <2>10, <2>11 DEF f
<1>. QED  BY <1>1, <1>2

-----------------------------------------------------------------------------
(* Every step keeps a processor's place, flags and locks together *)

\* What a step of one processor leaves to the others.
Others(c) ==
  /\ \A d \in Cpus \ {c} :
       /\ pc'[d] = pc[d] /\ c_isidle'[d] = c_isidle[d] /\ newstate'[d] = newstate[d]
       /\ c_runqueue_lock'[d] = c_runqueue_lock[d] /\ list'[d] = list[d] /\ mig'[d] = mig[d]
  /\ lk' = lk \/ (lk \in {None, c} /\ lk' \in {None, c})

LEMMA ControlStep ==
  ASSUME Control, NEW c \in Cpus, Others(c), TypeOK', Fits(c)'
  PROVE  Control'
<1>. SUFFICES ASSUME NEW d \in Cpus, d # c PROVE Fits(d)'
  BY DEF Control
<1>1. lk' = d <=> lk = d
  <2>1. d # None
    BY SchedulerAssumption
  <2>2. lk' = lk \/ (lk \in {None, c} /\ lk' \in {None, c})
    BY DEF Others
  <2>. QED  BY <2>1, <2>2
<1>. QED  BY <1>1 DEF Others, Control, Fits

LEMMA SleepFits ==
  ASSUME Control, NEW c \in Cpus, Sleep(c) \/ Exit(c) \/ SwitchBack(c)
  PROVE  Control'
<1>. USE DEF Control, TypeOK, Goto, Places, threads, queues
<1>1. CASE Sleep(c)
  <2>1. TypeOK'
    BY <1>1 DEF Sleep
  <2>2. Others(c)
    BY <1>1 DEF Sleep, Others
  <2>3. /\ pc[c] = "run" /\ pc'[c] = "switch" /\ newstate'[c] = "sleep" /\ lk' = c
        /\ UNCHANGED <<c_isidle, c_runqueue_lock, list, mig>>
    BY <1>1 DEF Sleep
  <2>4. Fits(c)
    OBVIOUS
  <2>5. Fits(c)'
    BY ONLY <2>3, <2>4 DEF Fits
  <2>. QED  BY <2>1, <2>2, <2>5, ControlStep
<1>2. CASE Exit(c)
  <2>1. TypeOK'
    BY <1>2 DEF Exit
  <2>2. Others(c)
    BY <1>2 DEF Exit, Others
  <2>3. Fits(c)'
    BY <1>2 DEF Exit, Fits
  <2>. QED  BY <2>1, <2>2, <2>3, ControlStep
<1>3. CASE SwitchBack(c)
  <2>1. TypeOK'
    BY <1>3 DEF SwitchBack
  <2>2. Others(c)
    BY <1>3 DEF SwitchBack, Others
  <2>3. Fits(c)'
    BY <1>3 DEF SwitchBack, Fits
  <2>. QED  BY <2>1, <2>2, <2>3, ControlStep
<1>. QED  BY <1>1, <1>2, <1>3

LEMMA LoopFits ==
  ASSUME Control, NEW c \in Cpus, PickNone(c) \/ Unidle(c) \/ GoIdle(c)
  PROVE  Control'
<1>. USE DEF Control, TypeOK, Goto, Places, threads, queues
<1>1. CASE PickNone(c)
  <2>1. TypeOK'
    BY <1>1 DEF PickNone
  <2>2. Others(c)
    BY <1>1 DEF PickNone, Others
  <2>3. Fits(c)'
    BY <1>1 DEF PickNone, Fits
  <2>. QED  BY <2>1, <2>2, <2>3, ControlStep
<1>2. CASE Unidle(c)
  <2>1. TypeOK'
    BY <1>2 DEF Unidle
  <2>2. Others(c)
    BY <1>2 DEF Unidle, Others
  <2>3. Fits(c)'
    BY <1>2 DEF Unidle, Fits
  <2>. QED  BY <2>1, <2>2, <2>3, ControlStep
<1>3. CASE GoIdle(c)
  <2>1. TypeOK'
    BY <1>3 DEF GoIdle
  <2>2. Others(c)
    BY <1>3 DEF GoIdle, Others
  <2>3. Fits(c)'
    BY <1>3 DEF GoIdle, Fits
  <2>. QED  BY <2>1, <2>2, <2>3, ControlStep
<1>. QED  BY <1>1, <1>2, <1>3

LEMMA InterruptFits ==
  ASSUME Control, NEW c \in Cpus, Interrupt(c) \/ ClearIpi(c) \/ Tick(c)
  PROVE  Control'
<1>. USE DEF Control, TypeOK, Goto, Places, threads, queues
<1>1. CASE Interrupt(c)
  <2>1. TypeOK'
    BY <1>1 DEF Interrupt
  <2>2. Others(c)
    BY <1>1 DEF Interrupt, Others
  <2>3. Fits(c)'
    BY <1>1 DEF Interrupt, Fits
  <2>. QED  BY <2>1, <2>2, <2>3, ControlStep
<1>2. CASE ClearIpi(c)
  <2>1. TypeOK'
    BY <1>2 DEF ClearIpi, AfterInterrupt
  <2>2. Others(c)
    BY <1>2 DEF ClearIpi, Others
  <2>3. Fits(c)'
    BY <1>2 DEF ClearIpi, AfterInterrupt, Fits
  <2>. QED  BY <2>1, <2>2, <2>3, ControlStep
<1>3. CASE Tick(c)
  <2>1. TypeOK'
    BY <1>3 DEF Tick, YieldTo
  <2>2. Others(c)
    BY <1>3 DEF Tick, Others
  <2>3. Fits(c)'
    BY <1>3 DEF Tick, YieldTo, Fits
  <2>. QED  BY <2>1, <2>2, <2>3, ControlStep
<1>. QED  BY <1>1, <1>2, <1>3

\* Processors are numbered from 0.
LEMMA Numbers ==
  /\ Cpus \subseteq Nat /\ 0 \in Cpus
  /\ \A i \in Cpus : i + 1 \in 0 .. NumCpus
  /\ \A i \in 0 .. NumCpus : i < NumCpus => i \in Cpus
  BY SchedulerAssumption DEF Cpus

\* A share of something is something.
LEMMA Share ==
  ASSUME NEW n \in Nat
  PROVE  OneShare(n) \in Nat /\ (n > 0 => OneShare(n) > 0)
<1>1. ASSUME NEW a \in Nat, NEW b \in Nat \ {0}
      PROVE  (a + b - 1) \div b \in Nat /\ (a > 0 => (a + b - 1) \div b > 0)
  <2>1. a + b - 1 \in Nat
    OBVIOUS
  <2>2. ASSUME NEW k \in Nat PROVE k \div b \in Nat
    OBVIOUS
  <2>3. ASSUME a > 0 PROVE (a + b - 1) \div b > 0
    BY <2>3
  <2>. QED  BY <2>1, <2>2, <2>3
<1>. QED  BY <1>1, SchedulerAssumption DEF OneShare

Migrations == [i : 0 .. NumCpus, my_count : Nat, total_count : Nat, one_share : Nat,
               to_send : Nat, victims : Seq(Threads)]

LEMMA NoneMigrates == NoMigration \in Migrations /\ NoMigration.victims = <<>>
  BY SchedulerAssumption DEF NoMigration, Migrations

\* One step of the loops of thread_consider_migration that count.
LEMMA Counted ==
  ASSUME Control, Migration, NEW c \in Cpus, MigrateTick(c) \/ Count(c)
  PROVE  \E i \in Cpus : /\ CountQueue(c, i)
                         /\ \/ i = 0 /\ pc[c] \in {"run", "idle"}
                            \/ i = mig[c].i /\ pc[c] = "count"
<1>1. CASE MigrateTick(c)
  BY <1>1, Numbers DEF MigrateTick
<1>2. CASE Count(c)
  <2>1. mig[c].i \in 0 .. NumCpus /\ mig[c].i < NumCpus
    BY <1>2 DEF Control, TypeOK, Migration, Count
  <2>. QED  BY <1>2, <2>1, Numbers DEF Count
<1>. QED  BY <1>1, <1>2

LEMMA CountFits ==
  ASSUME Control, Migration, NEW c \in Cpus, MigrateTick(c) \/ Count(c)
  PROVE  Control'
<1>1. PICK i \in Cpus : CountQueue(c, i) /\ pc[c] \in {"run", "idle", "count"}
                        /\ mig[c].victims = <<>>
  <2>1. PICK i \in Cpus : CountQueue(c, i) /\ pc[c] \in {"run", "idle", "count"}
    BY Counted
  <2>. QED  BY <2>1 DEF Control, Fits
<1>. DEFINE n == Len(c_runqueue[i])
            total == mig[c].total_count + n
            my_count == IF i = c THEN n ELSE mig[c].my_count
            share == OneShare(total)
<1>2. /\ n \in Nat /\ mig[c].total_count \in Nat /\ mig[c].my_count \in Nat
      /\ mig \in [Cpus -> Migrations] /\ pc \in [Cpus -> Places]
  <2>1. mig \in [Cpus -> Migrations] /\ pc \in [Cpus -> Places]
    BY DEF Control, TypeOK, Migrations
  <2>2. mig[c].total_count \in Nat /\ mig[c].my_count \in Nat
    BY <2>1 DEF Migrations
  <2>3. c_runqueue[i] \in Seq(Threads)
    BY DEF Control, TypeOK
  <2>. QED  BY <2>1, <2>2, <2>3
<1>3. total \in Nat /\ my_count \in Nat
  BY <1>2
<1>4. share \in Nat
  BY <1>3, Share
<1>5. /\ mig' = [mig EXCEPT ![c] = mig'[c]] /\ mig'[c] \in Migrations /\ mig'[c].victims = <<>>
      /\ pc' = [pc EXCEPT ![c] = pc'[c]] /\ pc'[c] \in {"count", "take", "unidle", "switch"}
      /\ pc'[c] = "unidle" => c_isidle[c]
      /\ pc'[c] = "switch" => ~c_isidle[c]
  <2>1. CASE i + 1 < NumCpus
    <3>1. mig' = [mig EXCEPT ![c].i = i + 1, ![c].total_count = total, ![c].my_count = my_count]
          /\ Goto(c, "count")
      BY <1>1, <2>1 DEF CountQueue
    <3>. HIDE DEF total, my_count
    <3>. QED  BY <1>1, <1>2, <1>3, <3>1, Numbers DEF Migrations, Goto
  <2>2. CASE ~(i + 1 < NumCpus) /\ my_count <= share
    <3>1. Leave(c)
      BY <1>1, <2>2 DEF CountQueue
    <3>. QED  BY <1>2, <3>1, NoneMigrates DEF Leave, Goto, YieldTo
  <2>3. CASE ~(i + 1 < NumCpus) /\ ~(my_count <= share)
    <3>1. mig' = [mig EXCEPT ![c] = [NoMigration EXCEPT !.one_share = share,
                                                        !.to_send = my_count - share]]
          /\ Goto(c, "take")
      BY <1>1, <2>3 DEF CountQueue
    <3>2. my_count - share \in Nat
      BY <1>3, <1>4, <2>3
    <3>. HIDE DEF total, my_count, share
    <3>. QED  BY <1>2, <1>4, <3>1, <3>2, NoneMigrates DEF Migrations, Goto
  <2>. QED  BY <2>1, <2>2, <2>3
<1>6. UNCHANGED <<t_state, t_cpu, t_child, c_curthread, c_isidle, c_runqueue, wc_threads,
                  c_zombies, c_runqueue_lock, lk, ipi, newstate, list>>
  BY <1>1 DEF CountQueue, threads, queues
<1>. HIDE DEF n, total, my_count, share
<1>7. TypeOK'
  <2>1. mig' \in [Cpus -> Migrations]
    BY <1>2, <1>5
  <2>2. pc' \in [Cpus -> Places]
    BY <1>2, <1>5 DEF Places
  <2>. QED  BY <1>6, <2>1, <2>2 DEF Control, TypeOK, Migrations
<1>8. Others(c)
  <2>1. \A d \in Cpus \ {c} : pc'[d] = pc[d] /\ mig'[d] = mig[d]
    BY <1>2, <1>5
  <2>. QED  BY <1>6, <2>1 DEF Others
<1>9. Fits(c)'
  <2>1. Fits(c)
    BY DEF Control
  <2>. QED  BY <1>1, <1>5, <1>6, <2>1 DEF Fits
<1>. QED  BY <1>7, <1>8, <1>9, ControlStep

\* thread_make_runnable, on what it writes.
LEMMA RunnableTypes ==
  ASSUME TypeOK, NEW c \in Cpus, NEW t \in Threads, MakeRunnable(c, t)
  PROVE  /\ t_state' \in [Threads -> {"none", "new", "ready", "run", "sleep", "zombie"}]
         /\ c_runqueue' \in [Cpus -> Seq(Threads)]
         /\ ipi' \in [Cpus -> BOOLEAN]
<1>1. t_cpu[t] \in Cpus
  BY DEF TypeOK
<1>2. Append(c_runqueue[t_cpu[t]], t) \in Seq(Threads)
  BY <1>1 DEF TypeOK
<1>. QED  BY <1>1, <1>2 DEF TypeOK, MakeRunnable

LEMMA ForkFits ==
  ASSUME Control, NEW c \in Cpus, ForkRun(c) \/ \E t \in Threads : Fork(c, t)
  PROVE  Control'
<1>1. CASE ForkRun(c)
  <2>1. t_child[c_curthread[c]] \in Threads /\ c_curthread[c] \in Threads
    BY <1>1 DEF Control, TypeOK, ForkRun
  <2>2. TypeOK'
    BY <1>1, <2>1, RunnableTypes DEF Control, TypeOK, ForkRun
  <2>3. Others(c)
    BY <1>1 DEF ForkRun, Others
  <2>4. Fits(c)'
    BY <1>1 DEF Control, ForkRun, Fits
  <2>. QED  BY <2>2, <2>3, <2>4, ControlStep
<1>2. ASSUME NEW t \in Threads, Fork(c, t) PROVE Control'
  <2>2. TypeOK'
    BY <1>2 DEF Control, TypeOK, Fork, queues
  <2>3. Others(c)
    BY <1>2 DEF Fork, Others
  <2>4. Fits(c)'
    BY <1>2 DEF Control, Fork, Fits
  <2>. QED  BY <2>2, <2>3, <2>4, ControlStep
<1>. QED  BY <1>1, <1>2

LEMMA WakeFits ==
  ASSUME Control, NEW c \in Cpus, NEW n \in {1, Len(wc_threads)}, Wake(c, n)
  PROVE  /\ Control' /\ n \in 1 .. Len(wc_threads)
         /\ list'[c] = SubSeq(wc_threads, 1, n) /\ lk' = c /\ c # None
<1>1. wc_threads \in Seq(Threads) /\ n \in 1 .. Len(wc_threads) /\ Len(wc_threads) \in Nat
  <2>1. wc_threads \in Seq(Threads) /\ wc_threads # <<>>
    BY DEF Control, TypeOK, Wake
  <2>. QED  BY <2>1
<1>. DEFINE a == SubSeq(wc_threads, 1, n)
            b == SubSeq(wc_threads, n + 1, Len(wc_threads))
<1>2. a \in Seq(Threads) /\ Len(a) = n /\ b \in Seq(Threads)
  BY <1>1
<1>3. /\ list' = [list EXCEPT ![c] = a] /\ wc_threads' = b /\ pc' = [pc EXCEPT ![c] = "waking"]
      /\ lk = None /\ lk' = c /\ pc[c] \in {"run", "idle"}
      /\ UNCHANGED <<t_state, t_cpu, t_child, c_curthread, c_isidle, c_runqueue, c_zombies,
                     c_runqueue_lock, ipi, newstate, mig>>
  BY DEF Wake, Goto, threads
<1>. HIDE DEF a, b
<1>4. TypeOK'
  BY <1>2, <1>3 DEF Control, TypeOK, Places
<1>5. Others(c)
  BY <1>3 DEF Control, TypeOK, Others
<1>6. list'[c] = a /\ a # <<>> /\ c # None /\ pc'[c] = "waking"
  BY <1>1, <1>2, <1>3, SchedulerAssumption DEF Control, TypeOK
<1>7. Fits(c)'
  BY <1>3, <1>6 DEF Control, Fits
<1>. QED  BY <1>1, <1>3, <1>4, <1>5, <1>6, <1>7, ControlStep DEF a

LEMMA WakeNextFits ==
  ASSUME Control, NEW c \in Cpus, WakeNext(c)
  PROVE  Control' /\ lk = c /\ list[c] # <<>> /\ Head(list[c]) \in Threads /\ list[c] \in Seq(Threads)
<1>1. lk = c /\ list[c] # <<>> /\ list[c] \in Seq(Threads)
  BY DEF Control, TypeOK, Fits, WakeNext
<1>2. Head(list[c]) \in Threads /\ Tail(list[c]) \in Seq(Threads)
  BY <1>1
<1>3. /\ list' = [list EXCEPT ![c] = Tail(list[c])]
      /\ pc' = [pc EXCEPT ![c] = pc'[c]] /\ pc[c] = "waking"
      /\ \/ Tail(list[c]) = <<>> /\ lk' = None /\ pc'[c] = AfterInterrupt(c)
         \/ Tail(list[c]) # <<>> /\ lk' = lk /\ pc'[c] = pc[c]
      /\ UNCHANGED <<t_cpu, t_child, c_curthread, c_isidle, c_zombies, c_runqueue_lock, wc_threads,
                     newstate, mig>>
  BY DEF WakeNext, Control, TypeOK, Goto
<1>4. TypeOK'
  <2>1. pc' \in [Cpus -> Places]
    BY <1>3 DEF Control, TypeOK, Places, AfterInterrupt
  <2>2. list' \in [Cpus -> Seq(Threads)] /\ lk' \in Cpus \cup {None}
    BY <1>1, <1>2, <1>3 DEF Control, TypeOK
  <2>. QED  BY <1>2, <1>3, <2>1, <2>2, RunnableTypes DEF Control, TypeOK, WakeNext
<1>5. Others(c)
  BY <1>1, <1>3 DEF Control, TypeOK, Others
<1>6. Fits(c)'
  <2>1. Fits(c) /\ list'[c] = Tail(list[c]) /\ lk' \in {c, None} /\ c # None
    BY <1>1, <1>3, SchedulerAssumption DEF Control, TypeOK
  <2>. QED  BY <1>1, <1>3, <2>1 DEF Fits, AfterInterrupt
<1>. QED  BY <1>1, <1>2, <1>4, <1>5, <1>6, ControlStep

LEMMA SwitchAwayFits ==
  ASSUME Control, NEW c \in Cpus, SwitchAway(c)
  PROVE  Control'
<1>1. /\ pc' = [pc EXCEPT ![c] = "placed"] /\ pc[c] = "switch"
      /\ c_runqueue_lock' = [c_runqueue_lock EXCEPT ![c] = TRUE]
      /\ lk' = IF newstate[c] = "sleep" THEN None ELSE lk
      /\ UNCHANGED <<t_state, t_cpu, t_child, c_curthread, c_isidle, ipi, newstate, list, mig>>
  BY DEF SwitchAway, Goto, threads
<1>2. c_runqueue' \in [Cpus -> Seq(Threads)]
  <2>1. c_runqueue[c] \in Seq(Threads) /\ Append(c_runqueue[c], c_curthread[c]) \in Seq(Threads)
    BY DEF Control, TypeOK
  <2>. QED  BY <2>1 DEF SwitchAway, Place, Control, TypeOK
<1>3. c_zombies' \in [Cpus -> Seq(Threads)]
  <2>1. c_zombies[c] \in Seq(Threads) /\ Append(c_zombies[c], c_curthread[c]) \in Seq(Threads)
    BY DEF Control, TypeOK
  <2>. QED  BY <2>1 DEF SwitchAway, Place, Control, TypeOK
<1>4. wc_threads' \in Seq(Threads)
  BY DEF SwitchAway, Place, Control, TypeOK
<1>5. TypeOK'
  BY <1>1, <1>2, <1>3, <1>4 DEF Control, TypeOK, Places
<1>6. Others(c)
  BY <1>1 DEF Control, TypeOK, Fits, Others
<1>7. Fits(c)'
  BY <1>1, SchedulerAssumption DEF Control, TypeOK, Fits
<1>. QED  BY <1>5, <1>6, <1>7, ControlStep

LEMMA PickNextFits ==
  ASSUME Control, NEW c \in Cpus, PickNext(c)
  PROVE  Control' /\ Head(c_runqueue[c]) \in Threads
<1>1. c_runqueue[c] \in Seq(Threads) /\ c_runqueue[c] # <<>>
  BY DEF PickNext, Control, TypeOK
<1>2. Head(c_runqueue[c]) \in Threads /\ Tail(c_runqueue[c]) \in Seq(Threads)
  BY <1>1
<1>3. 0 \in Cpus
  BY Numbers
<1>4. TypeOK'
  <2>. USE DEF PickNext, Control, TypeOK
  <2>1. t_state' \in [Threads -> {"none", "new", "ready", "run", "sleep", "zombie"}]
    OBVIOUS
  <2>2. t_cpu' \in [Threads -> Cpus]
    BY <1>3
  <2>3. c_curthread' \in [Cpus -> Threads] /\ c_runqueue' \in [Cpus -> Seq(Threads)]
    BY <1>2
  <2>5. c_zombies' \in [Cpus -> Seq(Threads)]
    BY EmptyChannel
  <2>4. c_isidle' \in [Cpus -> BOOLEAN] /\ c_runqueue_lock' \in [Cpus -> BOOLEAN]
        /\ pc' \in [Cpus -> Places]
    BY DEF Goto, Places
  <2>. QED  BY <2>1, <2>2, <2>3, <2>4, <2>5
<1>5. Others(c)
  BY DEF PickNext, Control, TypeOK, Goto, Others
<1>6. Fits(c)'
  BY DEF PickNext, Control, TypeOK, Goto, Fits
<1>. QED  BY <1>2, <1>4, <1>5, <1>6, ControlStep
LEMMA NextOtherIs ==
  ASSUME NEW c \in Cpus, NEW i \in Nat, i < NumCpus
  PROVE  NextOther(c, i) \in 0 .. NumCpus /\ NextOther(c, i) # c
  BY SchedulerAssumption DEF NextOther, Cpus

\* thread_consider_migration takes what is there.
LEMMA TakeFits ==
  ASSUME Control, Migration, OnePlace, NEW c \in Cpus, Take(c)
  PROVE  LET q == c_runqueue[c]
             n == Len(q) - mig[c].to_send
         IN /\ Control'
            /\ q \in Seq(Threads) /\ Once(q) /\ n \in 0 .. Len(q) /\ n > 0
            /\ c_runqueue' = [c_runqueue EXCEPT ![c] = SubSeq(q, 1, n)]
            /\ mig'[c].victims = SubSeq(q, n + 1, Len(q))
            /\ mig'[c].to_send = Len(mig'[c].victims) /\ mig'[c].i # c
            /\ mig[c].victims = <<>>
<1>. DEFINE q == c_runqueue[c]
            n == Len(q) - mig[c].to_send
            i == NextOther(c, 0)
<1>1. q \in Seq(Threads) /\ Len(q) \in Nat /\ Once(q) /\ mig \in [Cpus -> Migrations]
  <2>1. q \in Seq(Threads) /\ mig \in [Cpus -> Migrations]
    BY DEF Control, TypeOK, Migrations
  <2>2. Once(q)
    BY DEF OnePlace, Between, Once
  <2>. QED  BY <2>1, <2>2
<1>2. n \in 0 .. Len(q) /\ n > 0 /\ mig[c].to_send \in Nat
  <2>1. mig[c].one_share \in Nat /\ mig[c].to_send \in Nat
    BY <1>1 DEF Migrations
  <2>2. mig[c].one_share > 0 /\ mig[c].to_send + mig[c].one_share <= Len(q)
    BY DEF Take, Migration
  <2>. QED  BY <1>1, <2>1, <2>2
<1>3. i \in 0 .. NumCpus /\ i # c
  BY NextOtherIs, SchedulerAssumption
<1>. DEFINE a == SubSeq(q, 1, n)
            b == SubSeq(q, n + 1, Len(q))
<1>4. a \in Seq(Threads) /\ b \in Seq(Threads) /\ Len(b) = mig[c].to_send
  BY <1>1, <1>2
<1>5. /\ c_runqueue' = [c_runqueue EXCEPT ![c] = a]
      /\ mig' = [mig EXCEPT ![c].victims = b, ![c].i = i]
      /\ pc' = [pc EXCEPT ![c] = "send"] /\ pc[c] = "take"
      /\ UNCHANGED <<threads, c_curthread, c_isidle, c_zombies, c_runqueue_lock, wc_threads, lk,
                     ipi, newstate, list>>
  BY DEF Take, Goto
<1>. HIDE DEF i, a, b, n
<1>6. /\ mig' = [mig EXCEPT ![c] = mig'[c]] /\ mig'[c] \in Migrations
      /\ mig'[c].victims = b /\ mig'[c].i = i /\ mig'[c].to_send = mig[c].to_send
  BY <1>1, <1>3, <1>4, <1>5 DEF Migrations
<1>7. TypeOK'
  <2>1. mig' \in [Cpus -> Migrations]
    BY <1>1, <1>6
  <2>2. c_runqueue' \in [Cpus -> Seq(Threads)] /\ pc' \in [Cpus -> Places]
    BY <1>4, <1>5 DEF Control, TypeOK, Places
  <2>. QED  BY <1>5, <2>1, <2>2 DEF Control, TypeOK, Migrations, threads
<1>8. Others(c)
  <2>1. \A d \in Cpus \ {c} : mig'[d] = mig[d]
    BY <1>1, <1>6
  <2>2. \A d \in Cpus \ {c} : pc'[d] = pc[d]
    BY <1>5 DEF Control, TypeOK
  <2>. QED  BY <1>5, <2>1, <2>2 DEF Others
<1>9. Fits(c)'
  BY <1>5, <1>6 DEF Control, TypeOK, Fits
<1>10. mig[c].victims = <<>>
  BY <1>5 DEF Control, Fits
<1>. QED  BY <1>1, <1>2, <1>3, <1>4, <1>5, <1>6, <1>7, <1>8, <1>9, <1>10, ControlStep
          DEF a, b, n

\* One round of the loop that sends, in terms of what it sends and what it keeps.
LEMMA SendFits ==
  ASSUME Control, Migration, OnePlace, NEW c \in Cpus, Send(c)
  PROVE  \E i \in Cpus, sent \in Seq(Threads), left \in Seq(Threads) :
           /\ Control' /\ i # c /\ pc[i] \notin {"placed", "pick"} /\ pc[c] = "send"
           /\ Between(left, sent, On(mig[c].victims)) /\ c_curthread[c] \notin On(sent)
           /\ t_cpu' = [t \in Threads |-> IF t \in On(sent) THEN i ELSE t_cpu[t]]
           /\ c_runqueue' = [c_runqueue EXCEPT ![i] = @ \o sent]
           /\ ipi' = [ipi EXCEPT ![i] = @ \/ (c_isidle[i] /\ sent # <<>>)]
           /\ mig' = [mig EXCEPT ![c] = mig'[c]]
           /\ mig'[c].victims = left /\ mig'[c].to_send <= Len(left) /\ mig'[c].i # c
           /\ UNCHANGED <<t_state, t_child, c_curthread, c_isidle, c_zombies, c_runqueue_lock,
                          wc_threads, lk, pc, newstate, list>>
<1>. DEFINE m == mig[c]
            i == m.i
            n == Len(c_runqueue[i])
            room == IF n < m.one_share THEN m.one_share - n ELSE 0
            f == Fill(m.victims, m.to_send, room, c_curthread[c])
<1>1. /\ mig \in [Cpus -> Migrations] /\ m \in Migrations /\ pc[c] = "send" /\ i < NumCpus
      /\ ~c_runqueue_lock[i] /\ m.to_send <= Len(m.victims) /\ i # c
  BY DEF Control, TypeOK, Migrations, Migration, Send
<1>2. /\ i \in Cpus /\ m.one_share \in Nat /\ m.victims \in Seq(Threads) /\ Len(m.victims) \in Nat
      /\ m.to_send \in 0 .. Len(m.victims)
  BY <1>1, Numbers DEF Migrations
<1>3. n \in Nat /\ room \in Nat
  <2>1. c_runqueue[i] \in Seq(Threads)
    BY <1>2 DEF Control, TypeOK
  <2>. QED  BY <1>2, <2>1
<1>4. Once(m.victims)
  BY DEF OnePlace, Between, Once
<1>5. c_curthread[c] \in Threads
  BY DEF Control, TypeOK
<1>6. /\ f.sent \in Seq(Threads) /\ f.victims \in Seq(Threads)
      /\ Between(f.victims, f.sent, On(m.victims)) /\ c_curthread[c] \notin On(f.sent)
      /\ f.to_send \in 0 .. m.to_send /\ f.to_send <= Len(f.victims)
  <2>. HIDE DEF m, room
  <2>. QED  BY <1>2, <1>3, <1>4, <1>5, Filled
<1>7. /\ t_cpu' = [t \in Threads |-> IF t \in On(f.sent) THEN i ELSE t_cpu[t]]
      /\ c_runqueue' = [c_runqueue EXCEPT ![i] = @ \o f.sent]
      /\ ipi' = [ipi EXCEPT ![i] = @ \/ (c_isidle[i] /\ f.sent # <<>>)]
      /\ mig' = [mig EXCEPT ![c].i = NextOther(c, i + 1), ![c].to_send = f.to_send,
                            ![c].victims = f.victims]
      /\ UNCHANGED <<t_state, t_child, c_curthread, c_isidle, c_zombies, c_runqueue_lock,
                     wc_threads, lk, pc, newstate, list>>
  BY DEF Send
<1>. HIDE DEF f, room, n
<1>8. NextOther(c, i + 1) \in 0 .. NumCpus /\ NextOther(c, i + 1) # c
  BY <1>1, <1>2, Numbers, SchedulerAssumption DEF NextOther, Cpus
<1>9. /\ mig' = [mig EXCEPT ![c] = mig'[c]] /\ mig'[c] \in Migrations /\ mig'[c].victims = f.victims
      /\ mig'[c].to_send = f.to_send /\ mig'[c].i = NextOther(c, i + 1)
  <2>. DEFINE k == NextOther(c, i + 1)
  <2>1. k \in 0 .. NumCpus /\ mig' = [mig EXCEPT ![c].i = k, ![c].to_send = f.to_send,
                                                ![c].victims = f.victims]
    BY <1>7, <1>8
  <2>2. f.to_send \in Nat
    BY <1>2, <1>6
  <2>. HIDE DEF k, i
  <2>3. mig'[c] = [mig[c] EXCEPT !.i = k, !.to_send = f.to_send, !.victims = f.victims]
        /\ mig' = [mig EXCEPT ![c] = mig'[c]]
    BY <1>1, <2>1
  <2>. QED  BY <1>1, <1>6, <2>1, <2>2, <2>3 DEF Migrations, k
<1>. HIDE DEF i, m
<1>10. TypeOK'
  <2>1. mig' \in [Cpus -> Migrations]
    BY <1>1, <1>9
  <2>2. t_cpu' \in [Threads -> Cpus] /\ ipi' \in [Cpus -> BOOLEAN]
    BY <1>2, <1>7 DEF Control, TypeOK
  <2>3. c_runqueue[i] \o f.sent \in Seq(Threads)
    BY <1>2, <1>6 DEF Control, TypeOK
  <2>4. c_runqueue' \in [Cpus -> Seq(Threads)]
    BY <1>7, <2>3 DEF Control, TypeOK
  <2>. QED  BY <1>7, <2>1, <2>2, <2>4 DEF Control, TypeOK, Migrations
<1>11. Others(c)
  <2>1. \A d \in Cpus \ {c} : mig'[d] = mig[d]
    BY <1>1, <1>9
  <2>. QED  BY <1>7, <2>1 DEF Others
<1>12. Fits(c)'
  BY <1>1, <1>7 DEF Control, TypeOK, Fits
<1>13. pc[i] \notin {"placed", "pick"}
  BY <1>1, <1>2 DEF Control, Fits
<1>14. Control'
  BY <1>10, <1>11, <1>12, ControlStep
<1>15. mig'[c].to_send <= Len(mig'[c].victims) /\ mig'[c].i # c
  BY <1>6, <1>8, <1>9
<1>16. Between(f.victims, f.sent, On(mig[c].victims)) /\ i # c
  BY <1>1, <1>6 DEF m
<1>. QED  BY <1>1, <1>2, <1>6, <1>7, <1>9, <1>13, <1>14, <1>15, <1>16

\* Leftovers go behind what has come in the meantime.
LEMMA KeepFits ==
  ASSUME Control, OnePlace, NEW c \in Cpus, Keep(c)
  PROVE  /\ Control' /\ pc[c] = "send"
         /\ c_runqueue[c] \in Seq(Threads) /\ mig[c].victims \in Seq(Threads)
         /\ c_runqueue' = [c_runqueue EXCEPT ![c] = @ \o mig[c].victims]
         /\ mig' = [mig EXCEPT ![c] = NoMigration] /\ pc'[c] = YieldTo(c)
<1>1. /\ c_runqueue' = [c_runqueue EXCEPT ![c] = @ \o mig[c].victims]
      /\ mig' = [mig EXCEPT ![c] = NoMigration]
      /\ pc' = [pc EXCEPT ![c] = YieldTo(c)] /\ pc[c] = "send"
      /\ UNCHANGED <<threads, c_curthread, c_isidle, c_zombies, c_runqueue_lock, wc_threads, lk,
                     ipi, newstate, list>>
  BY DEF Keep, Leave, Goto
<1>2. c_runqueue[c] \in Seq(Threads) /\ mig[c].victims \in Seq(Threads)
  <2>1. mig \in [Cpus -> Migrations]
    BY DEF Control, TypeOK, Migrations
  <2>. QED  BY <2>1 DEF Control, TypeOK, Migrations
<1>3. c_runqueue[c] \o mig[c].victims \in Seq(Threads)
  BY <1>2
<1>4. pc'[c] = YieldTo(c)
  BY <1>1 DEF Control, TypeOK
<1>5. TypeOK'
  <2>1. mig' \in [Cpus -> Migrations]
    BY <1>1, NoneMigrates DEF Control, TypeOK, Migrations
  <2>2. c_runqueue' \in [Cpus -> Seq(Threads)] /\ pc' \in [Cpus -> Places]
    BY <1>1, <1>3 DEF Control, TypeOK, Places, YieldTo
  <2>. QED  BY <1>1, <2>1, <2>2 DEF Control, TypeOK, Migrations, threads
<1>6. Others(c)
  BY <1>1 DEF Control, TypeOK, Others
<1>7. Fits(c)'
  <2>1. mig'[c].victims = <<>>
    BY <1>1, NoneMigrates DEF Control, TypeOK
  <2>. QED  BY <1>1, <1>4, <2>1 DEF Control, TypeOK, Fits, YieldTo
<1>. QED  BY <1>1, <1>2, <1>4, <1>5, <1>6, <1>7, ControlStep
-----------------------------------------------------------------------------
(* Steps that move no thread *)

\* What they leave alone.
Quiet ==
  /\ UNCHANGED <<t_state, t_cpu, t_child, c_curthread, c_runqueue, c_zombies, wc_threads, c_isidle>>
  /\ Woken' = Woken
  /\ \A d \in Cpus : /\ mig'[d].victims = mig[d].victims
                     /\ pc'[d] = "placed" <=> pc[d] = "placed"
                     /\ pc[d] = "placed" => newstate'[d] = newstate[d]

\* Nobody is moved if all threads and lists stay as they are, as far as OnePlace
\* looks at them.
LEMMA PlacesKept ==
  ASSUME OnePlace,
         UNCHANGED <<t_cpu, c_curthread, c_runqueue, c_zombies, wc_threads>>, Woken' = Woken,
         \A t \in Threads : StateOf(t)' = StateOf(t),
         \A d \in Cpus : /\ mig'[d].victims = mig[d].victims
                         /\ pc'[d] = "placed" \/ c_isidle'[d] <=> pc[d] = "placed" \/ c_isidle[d]
  PROVE  OnePlace'
<1>1. \A d, s : ThreadsOf(d, s)' = ThreadsOf(d, s)
  BY DEF ThreadsOf
<1>2. {t \in Threads : StateOf(t) = "sleep"}' = {t \in Threads : StateOf(t) = "sleep"}
  OBVIOUS
<1>3. Between(wc_threads, Woken, {t \in Threads : StateOf(t) = "sleep"})'
  BY <1>2 DEF OnePlace, Between
<1>4. ASSUME NEW d \in Cpus
      PROVE  /\ Between(c_runqueue[d], mig[d].victims, ThreadsOf(d, "ready"))'
             /\ Lists(c_zombies[d], ThreadsOf(d, "zombie"))'
             /\ (ThreadsOf(d, "run") = IF pc[d] = "placed" \/ c_isidle[d] THEN {}
                                       ELSE {c_curthread[d]})'
  BY <1>1 DEF OnePlace, Between
<1>. QED  BY <1>3, <1>4 DEF OnePlace

LEMMA QuietKeeps ==
  ASSUME Control, Children, Stacks, OnePlace, Quiet
  PROVE  Children' /\ Stacks' /\ OnePlace'
<1>1. Children' /\ Stacks'
  BY DEF Quiet, Children, Stacks
<1>2. ASSUME NEW t \in Threads PROVE StateOf(t)' = StateOf(t)
  <2>1. t_cpu[t] \in Cpus
    BY DEF Control, TypeOK
  <2>. QED  BY <2>1 DEF Quiet, StateOf
<1>3. OnePlace'
  BY <1>2, PlacesKept DEF Quiet
<1>. QED  BY <1>1, <1>3

\* thread_consider_migration is where it was, with a run queue no shorter.
LEMMA MigrationKept ==
  ASSUME Migration, NEW c \in Cpus,
         pc'[c] \notin {"count", "take", "send"}, mig'[c] = NoMigration,
         \A d \in Cpus \ {c} : /\ pc'[d] = pc[d] /\ mig'[d] = mig[d]
                               /\ Len(c_runqueue[d]) \in Nat /\ Len(c_runqueue'[d]) \in Nat
                               /\ mig[d] \in Migrations
                               /\ Len(c_runqueue[d]) <= Len(c_runqueue'[d])
  PROVE  Migration'
<1>. SUFFICES ASSUME NEW d \in Cpus, d # c
     PROVE  LET m == mig'[d]
            IN /\ pc'[d] \notin {"count", "take", "send"} => m = NoMigration
               /\ pc'[d] = "count" => m.i < NumCpus /\ m.my_count <= Len(c_runqueue'[d])
                                      /\ m.my_count <= m.total_count
               /\ pc'[d] = "take" => m.one_share > 0 /\ m.to_send + m.one_share <= Len(c_runqueue'[d])
               /\ pc'[d] = "send" => m.i # d /\ m.to_send <= Len(m.victims)
  BY DEF Migration
<1>1. mig[d].my_count \in Nat /\ mig[d].to_send + mig[d].one_share \in Nat
  BY DEF Migrations
<1>. QED  BY <1>1 DEF Migration

\* As a lemma on types, for the one above.
LEMMA Lengths ==
  ASSUME Control
  PROVE  \A d \in Cpus : Len(c_runqueue[d]) \in Nat /\ mig[d] \in Migrations
<1>1. \A d \in Cpus : c_runqueue[d] \in Seq(Threads)
  BY DEF Control, TypeOK
<1>2. \A d \in Cpus : mig[d] \in Migrations
  BY DEF Control, TypeOK, Migrations
<1>. QED  BY <1>1, <1>2

\* The steps of thread_switch, and of an interrupt, that only change a
\* processor's place.
LEMMA QuietSteps ==
  ASSUME IInv, NEW c \in Cpus,
         \/ Sleep(c) \/ Exit(c) \/ SwitchBack(c) \/ PickNone(c) \/ Unidle(c)
         \/ Interrupt(c) \/ ClearIpi(c) \/ Tick(c)
  PROVE  IInv'
<1>1. Control /\ Control'
  BY SleepFits, LoopFits, InterruptFits DEF IInv
<1>2. /\ UNCHANGED <<t_state, t_cpu, t_child, c_curthread, c_runqueue, c_zombies, wc_threads,
                     c_isidle, list, mig>>
      /\ \A d \in Cpus \ {c} : pc'[d] = pc[d] /\ newstate'[d] = newstate[d] /\ ipi'[d] = ipi[d]
      /\ pc[c] \notin {"placed", "count", "take", "send"}
      /\ pc'[c] \notin {"placed", "count", "take", "send"}
      /\ lk' = lk \/ (lk \in {None, c} /\ lk' \in {None, c})
      /\ pc'[c] = "idle" => c_runqueue[c] = <<>>
  <2>. USE DEF Control, TypeOK, Goto, threads, queues
  <2>1. CASE Sleep(c)
    BY <1>1, <2>1 DEF Sleep
  <2>2. CASE Exit(c)
    BY <1>1, <2>2 DEF Exit
  <2>3. CASE SwitchBack(c)
    BY <1>1, <2>3 DEF SwitchBack
  <2>4. CASE PickNone(c)
    BY <1>1, <2>4 DEF PickNone
  <2>5. CASE Unidle(c)
    BY <1>1, <2>5 DEF Unidle
  <2>6. CASE Interrupt(c)
    BY <1>1, <2>6 DEF Interrupt
  <2>7. CASE ClearIpi(c)
    BY <1>1, <2>7 DEF ClearIpi, AfterInterrupt
  <2>8. CASE Tick(c)
    BY <1>1, <2>8 DEF Tick, YieldTo
  <2>. QED  BY <2>1, <2>2, <2>3, <2>4, <2>5, <2>6, <2>7, <2>8
<1>3. Quiet
  <2>1. Woken' = Woken
    <3>1. CASE lk' = lk
      BY <1>2, <3>1 DEF Woken
    <3>2. CASE lk' # lk
      <4>1. list[c] = <<>>
        <5>1. Fits(c) /\ Fits(c)'
          BY <1>1 DEF Control
        <5>. QED  BY <1>2, <3>2, <5>1, SchedulerAssumption DEF Fits
      <4>. QED  BY <1>2, <3>2, <4>1 DEF Woken
    <3>. QED  BY <3>1, <3>2
  <2>. QED  BY <1>2, <2>1 DEF Quiet
<1>4. Children' /\ Stacks' /\ OnePlace'
  BY <1>3, QuietKeeps DEF IInv
<1>5. Migration'
  <2>1. mig'[c] = NoMigration
    BY <1>2 DEF IInv, Migration
  <2>. QED  BY <1>1, <1>2, <2>1, Lengths, MigrationKept DEF IInv
<1>6. NoLostUnidle'
  BY <1>2 DEF IInv, NoLostUnidle
<1>. QED  BY <1>1, <1>4, <1>5, <1>6 DEF IInv
\* The loop that counts: what it has seen of its own queue is still there.
LEMMA CountSteps ==
  ASSUME IInv, NEW c \in Cpus, MigrateTick(c) \/ Count(c)
  PROVE  IInv'
<1>1. Control /\ Control' /\ Migration
  BY CountFits DEF IInv
<1>2. PICK i \in Cpus : /\ CountQueue(c, i)
                        /\ \/ i = 0 /\ pc[c] \in {"run", "idle"}
                           \/ i = mig[c].i /\ pc[c] = "count"
  BY <1>1, Counted
<1>. DEFINE n == Len(c_runqueue[i])
            total == mig[c].total_count + n
            my_count == IF i = c THEN n ELSE mig[c].my_count
            share == OneShare(total)
<1>3. /\ UNCHANGED <<t_state, t_cpu, t_child, c_curthread, c_isidle, c_runqueue, wc_threads,
                     c_zombies, c_runqueue_lock, lk, ipi, newstate, list>>
      /\ mig \in [Cpus -> Migrations] /\ pc \in [Cpus -> Places]
      /\ mig[c] \in Migrations /\ n \in Nat /\ Len(c_runqueue[c]) \in Nat
  BY <1>1, <1>2, Lengths DEF CountQueue, threads, queues, Control, TypeOK, Migrations
<1>4. /\ total \in Nat /\ my_count \in Nat /\ share \in Nat
      /\ my_count <= Len(c_runqueue[c]) /\ my_count <= total
      /\ total > 0 => share > 0
  <2>1. mig[c].total_count \in Nat /\ mig[c].my_count \in Nat
    BY <1>3 DEF Migrations
  <2>2. mig[c].my_count <= Len(c_runqueue[c]) /\ mig[c].my_count <= mig[c].total_count
    <3>1. CASE pc[c] = "count"
      BY <1>1, <3>1 DEF Migration
    <3>2. CASE pc[c] # "count"
      <4>1. mig[c] = NoMigration
        BY <1>1, <1>2, <3>2 DEF Migration
      <4>2. mig[c].my_count = 0 /\ mig[c].total_count = 0
        BY <4>1 DEF NoMigration
      <4>. QED  BY <1>3, <4>2
    <3>. QED  BY <3>1, <3>2
  <2>3. total \in Nat
    BY <1>3, <2>1
  <2>4. my_count \in Nat /\ my_count <= Len(c_runqueue[c]) /\ my_count <= total
    BY <1>3, <2>1, <2>2
  <2>. HIDE DEF total
  <2>. QED  BY <2>3, <2>4, Share
<1>. HIDE DEF total, my_count, share, n
<1>5. \/ /\ i + 1 < NumCpus
         /\ mig' = [mig EXCEPT ![c].i = i + 1, ![c].total_count = total, ![c].my_count = my_count]
         /\ pc' = [pc EXCEPT ![c] = "count"]
      \/ /\ mig' = [mig EXCEPT ![c] = NoMigration] /\ pc' = [pc EXCEPT ![c] = YieldTo(c)]
      \/ /\ ~(my_count <= share)
         /\ mig' = [mig EXCEPT ![c] = [NoMigration EXCEPT !.one_share = share,
                                                         !.to_send = my_count - share]]
         /\ pc' = [pc EXCEPT ![c] = "take"]
  BY <1>2 DEF CountQueue, Leave, Goto, n, total, my_count, share
<1>6. /\ \A d \in Cpus \ {c} : pc'[d] = pc[d] /\ mig'[d] = mig[d]
      /\ pc'[c] \in {"count", "switch", "unidle", "take"}
  BY <1>3, <1>5 DEF YieldTo
<1>7. /\ pc'[c] \in {"switch", "unidle"} => mig'[c] = NoMigration
      /\ pc'[c] = "count" => mig'[c].i < NumCpus /\ mig'[c].my_count <= Len(c_runqueue[c])
                             /\ mig'[c].my_count <= mig'[c].total_count
      /\ pc'[c] = "take" => /\ mig'[c].one_share > 0
                            /\ mig'[c].to_send + mig'[c].one_share <= Len(c_runqueue[c])
      /\ mig'[c].victims = <<>>
  <2>1. CASE /\ i + 1 < NumCpus
             /\ mig' = [mig EXCEPT ![c].i = i + 1, ![c].total_count = total,
                                   ![c].my_count = my_count]
             /\ pc' = [pc EXCEPT ![c] = "count"]
    <3>1. mig[c].victims = <<>>
      BY <1>1, <1>2 DEF Control, Fits
    <3>2. mig'[c].i = i + 1 /\ mig'[c].my_count = my_count /\ mig'[c].total_count = total
          /\ mig'[c].victims = mig[c].victims /\ pc'[c] = "count"
      BY <1>3, <2>1 DEF Migrations
    <3>. QED  BY <1>4, <2>1, <3>1, <3>2
  <2>2. CASE mig' = [mig EXCEPT ![c] = NoMigration] /\ pc' = [pc EXCEPT ![c] = YieldTo(c)]
    BY <1>3, <2>2, NoneMigrates DEF YieldTo
  <2>3. CASE /\ ~(my_count <= share)
             /\ mig' = [mig EXCEPT ![c] = [NoMigration EXCEPT !.one_share = share,
                                                             !.to_send = my_count - share]]
             /\ pc' = [pc EXCEPT ![c] = "take"]
    <3>1. mig'[c].one_share = share /\ mig'[c].to_send = my_count - share
          /\ mig'[c].victims = <<>> /\ pc'[c] = "take"
      BY <1>3, <2>3 DEF NoMigration
    <3>. QED  BY <1>3, <1>4, <2>3, <3>1
  <2>. QED  BY <1>5, <2>1, <2>2, <2>3
<1>8. Migration'
  <2>. SUFFICES ASSUME NEW d \in Cpus, d # c
       PROVE  LET m == mig'[d]
              IN /\ pc'[d] \notin {"count", "take", "send"} => m = NoMigration
                 /\ pc'[d] = "count" => m.i < NumCpus /\ m.my_count <= Len(c_runqueue'[d])
                                        /\ m.my_count <= m.total_count
                 /\ pc'[d] = "take" => m.one_share > 0 /\ m.to_send + m.one_share <= Len(c_runqueue'[d])
                 /\ pc'[d] = "send" => m.i # d /\ m.to_send <= Len(m.victims)
    BY <1>3, <1>6, <1>7 DEF Migration
  <2>. QED  BY <1>1, <1>3, <1>6 DEF Migration
<1>9. Quiet
  <2>1. mig[c].victims = <<>> /\ pc[c] # "placed"
    BY <1>1, <1>2 DEF Control, Fits
  <2>. QED  BY <1>3, <1>6, <1>7, <2>1 DEF Quiet, Woken
<1>10. Children' /\ Stacks' /\ OnePlace'
  BY <1>9, QuietKeeps DEF IInv
<1>11. NoLostUnidle'
  BY <1>3, <1>6 DEF IInv, NoLostUnidle
<1>. QED  BY <1>1, <1>8, <1>10, <1>11 DEF IInv

\* The thread has been put in its place; now its state says so.
LEMMA GoIdleStep ==
  ASSUME IInv, NEW c \in Cpus, GoIdle(c)
  PROVE  IInv'
<1>1. Control /\ Control' /\ Stacks
  BY LoopFits DEF IInv
<1>. DEFINE cur == c_curthread[c]
<1>2. /\ pc[c] = "placed" /\ pc' = [pc EXCEPT ![c] = "pick"]
      /\ t_state' = [t_state EXCEPT ![cur] = newstate[c]]
      /\ c_isidle' = [c_isidle EXCEPT ![c] = TRUE]
      /\ newstate' = [newstate EXCEPT ![c] = "ready"]
      /\ UNCHANGED <<t_cpu, t_child, c_curthread, c_runqueue, c_zombies, wc_threads, lk, ipi, list, mig>>
  BY DEF GoIdle, Goto, queues
<1>3. /\ pc'[c] = "pick" /\ c_isidle'[c] /\ t_state'[cur] = newstate[c]
      /\ newstate[c] \in {"ready", "sleep", "zombie"} /\ cur \in Threads
      /\ t_cpu[cur] = c /\ t_state[cur] \notin {"none", "new"}
      /\ \A d \in Cpus \ {c} : /\ pc'[d] = pc[d] /\ c_isidle'[d] = c_isidle[d]
                               /\ newstate'[d] = newstate[d]
      /\ \A t \in Threads \ {cur} : t_state'[t] = t_state[t]
  BY <1>1, <1>2 DEF Control, TypeOK, Stacks
<1>4. ASSUME NEW t \in Threads PROVE StateOf(t)' = StateOf(t)
  <2>1. t_cpu[t] \in Cpus
    BY <1>1 DEF Control, TypeOK
  <2>2. CASE t = cur
    BY <1>2, <1>3, <2>2 DEF StateOf
  <2>3. CASE t # cur /\ t_cpu[t] = c
    BY <1>2, <1>3, <2>3 DEF StateOf
  <2>4. CASE t_cpu[t] # c
    BY <1>2, <1>3, <2>1, <2>4 DEF StateOf
  <2>. QED  BY <2>2, <2>3, <2>4
<1>5. OnePlace'
  <2>1. Woken' = Woken
    BY <1>2 DEF Woken
  <2>. QED  BY <1>2, <1>3, <1>4, <2>1, PlacesKept DEF IInv
<1>6. Migration'
  <2>1. mig'[c] = NoMigration
    BY <1>2 DEF IInv, Migration
  <2>. QED  BY <1>1, <1>2, <1>3, <2>1, Lengths, MigrationKept DEF IInv
<1>7. Children'
  BY <1>2, <1>3 DEF IInv, Children
<1>8. Stacks'
  <2>. SUFFICES ASSUME NEW d \in Cpus
       PROVE  t_cpu[c_curthread[d]] = d /\ t_state'[c_curthread[d]] \notin {"none", "new"}
    BY <1>2 DEF Stacks
  <2>1. c_curthread[d] \in Threads
    BY <1>1 DEF Control, TypeOK
  <2>. QED  BY <1>1, <1>3, <2>1 DEF Stacks
<1>9. NoLostUnidle'
  BY <1>2, <1>3 DEF IInv, NoLostUnidle
<1>. QED  BY <1>1, <1>5, <1>6, <1>7, <1>8, <1>9 DEF IInv
-----------------------------------------------------------------------------
(* Steps that move a thread *)

\* OnePlace, for one processor and for the channel.
PlacesOn(c) ==
  /\ Between(c_runqueue[c], mig[c].victims, ThreadsOf(c, "ready"))
  /\ Lists(c_zombies[c], ThreadsOf(c, "zombie"))
  /\ ThreadsOf(c, "run") = IF pc[c] = "placed" \/ c_isidle[c] THEN {} ELSE {c_curthread[c]}

Sleepers == {t \in Threads : StateOf(t) = "sleep"}

LEMMA PlacesOnKept ==
  ASSUME NEW d \in Cpus, PlacesOn(d),
         \A s \in {"ready", "zombie", "run"} : ThreadsOf(d, s)' = ThreadsOf(d, s),
         /\ c_runqueue'[d] = c_runqueue[d] /\ mig'[d].victims = mig[d].victims
         /\ c_zombies'[d] = c_zombies[d] /\ c_curthread'[d] = c_curthread[d]
         /\ pc'[d] = "placed" \/ c_isidle'[d] <=> pc[d] = "placed" \/ c_isidle[d]
  PROVE  PlacesOn(d)'
<1>1. /\ ThreadsOf(d, "ready")' = ThreadsOf(d, "ready")
      /\ ThreadsOf(d, "zombie")' = ThreadsOf(d, "zombie")
      /\ ThreadsOf(d, "run")' = ThreadsOf(d, "run")
  OBVIOUS
<1>. QED  BY <1>1 DEF PlacesOn, Between

\* In a step that leaves its thread's processor alone a thread stays in its state.
LEMMA StateKept ==
  ASSUME NEW t \in Threads, t_state'[t] = t_state[t], t_cpu'[t] = t_cpu[t],
         LET d == t_cpu[t]
         IN /\ c_curthread'[d] = c_curthread[d] /\ newstate'[d] = newstate[d]
            /\ pc'[d] = "placed" <=> pc[d] = "placed"
  PROVE  StateOf(t)' = StateOf(t)
  BY DEF StateOf

\* wchan_wakeone and wchan_wakeall take threads from the channel.
LEMMA WakeStep ==
  ASSUME IInv, NEW c \in Cpus, Waker(c)
  PROVE  IInv'
<1>1. PICK n \in {1, Len(wc_threads)} : Wake(c, n)
  BY DEF Waker
<1>2. /\ Control /\ Control' /\ n \in 0 .. Len(wc_threads) /\ wc_threads \in Seq(Threads)
      /\ list'[c] = SubSeq(wc_threads, 1, n) /\ lk' = c /\ c # None
  <2>1. Control /\ wc_threads \in Seq(Threads)
    BY DEF IInv, Control, TypeOK
  <2>2. /\ Control' /\ n \in 1 .. Len(wc_threads)
        /\ list'[c] = SubSeq(wc_threads, 1, n) /\ lk' = c /\ c # None
    BY <1>1, <2>1, WakeFits
  <2>. QED  BY <2>1, <2>2
<1>3. /\ pc' = [pc EXCEPT ![c] = "waking"] /\ pc[c] \in {"run", "idle"} /\ lk = None
      /\ wc_threads' = SubSeq(wc_threads, n + 1, Len(wc_threads))
      /\ UNCHANGED <<t_state, t_cpu, t_child, c_curthread, c_isidle, c_runqueue, c_zombies,
                     ipi, newstate, mig>>
  BY <1>1 DEF Wake, Goto, threads
<1>4. pc'[c] = "waking" /\ \A d \in Cpus \ {c} : pc'[d] = pc[d]
  BY <1>2, <1>3 DEF Control, TypeOK
<1>5. ASSUME NEW t \in Threads PROVE StateOf(t)' = StateOf(t)
  <2>1. t_cpu[t] \in Cpus
    BY <1>2 DEF Control, TypeOK
  <2>. QED  BY <1>3, <1>4, <2>1, StateKept
<1>6. ASSUME NEW d \in Cpus PROVE PlacesOn(d)'
  <2>1. PlacesOn(d)
    BY DEF IInv, OnePlace, PlacesOn
  <2>2. \A s : ThreadsOf(d, s)' = ThreadsOf(d, s)
    BY <1>3, <1>5 DEF ThreadsOf
  <2>. QED  BY <1>3, <1>4, <2>1, <2>2, PlacesOnKept
<1>7. Between(wc_threads, Woken, Sleepers)'
  <2>1. Between(wc_threads, <<>>, Sleepers)
    BY <1>3 DEF IInv, OnePlace, Woken, Sleepers
  <2>2. Once(wc_threads) /\ On(wc_threads) = Sleepers
    BY <2>1, EmptyChannel DEF Between, Once, Lists
  <2>3. Between(list'[c], wc_threads', Sleepers)
    BY <1>2, <1>3, <2>2, Cut
  <2>4. Sleepers' = Sleepers /\ Woken' = list'[c]
    BY <1>2, <1>5 DEF Sleepers, Woken
  <2>. QED  BY <2>3, <2>4 DEF Between
<1>8. OnePlace'
  BY <1>6, <1>7 DEF OnePlace, PlacesOn, Sleepers
<1>9. Migration'
  <2>1. mig'[c] = NoMigration
    BY <1>3 DEF IInv, Migration
  <2>. QED  BY <1>2, <1>3, <1>4, <2>1, Lengths, MigrationKept DEF IInv
<1>10. Children' /\ Stacks'
  BY <1>3 DEF IInv, Children, Stacks
<1>11. NoLostUnidle'
  BY <1>3, <1>4 DEF IInv, NoLostUnidle
<1>. QED  BY <1>2, <1>8, <1>9, <1>10, <1>11 DEF IInv

\* thread_fork makes a thread that is nowhere yet.
LEMMA ForkStep ==
  ASSUME IInv, NEW c \in Cpus, NEW x \in Threads, Fork(c, x)
  PROVE  IInv'
<1>1. Control /\ Control' /\ Stacks /\ Children
  BY ForkFits DEF IInv
<1>. DEFINE cur == c_curthread[c]
<1>2. /\ pc[c] = "run" /\ t_child[cur] = None /\ t_state[x] = "none"
      /\ t_state' = [t_state EXCEPT ![x] = "new"]
      /\ t_cpu' = [t_cpu EXCEPT ![x] = t_cpu[cur]]
      /\ t_child' = [t_child EXCEPT ![cur] = x]
      /\ UNCHANGED <<c_curthread, c_isidle, c_runqueue, wc_threads, c_zombies, lk, ipi, pc,
                     newstate, list, mig>>
  BY DEF Fork, queues
<1>3. /\ cur \in Threads /\ t_cpu[cur] = c /\ t_state'[x] = "new" /\ t_cpu'[x] = c
      /\ t_child'[cur] = x
      /\ \A t \in Threads \ {x} : t_state'[t] = t_state[t] /\ t_cpu'[t] = t_cpu[t]
      /\ \A t \in Threads \ {cur} : t_child'[t] = t_child[t]
  BY <1>1, <1>2 DEF Control, TypeOK, Stacks
<1>4. ASSUME NEW d \in Cpus PROVE c_curthread[d] \in Threads \ {x}
  BY <1>1, <1>2 DEF Control, TypeOK, Stacks
<1>5. ASSUME NEW t \in Threads \ {x} PROVE StateOf(t)' = StateOf(t)
  BY <1>2, <1>3, StateKept
<1>6. StateOf(x) = "none" /\ StateOf(x)' = "new"
  <2>1. t_cpu[x] \in Cpus
    BY <1>1 DEF Control, TypeOK
  <2>. QED  BY <1>2, <1>3, <1>4, <2>1 DEF StateOf
<1>7. ASSUME NEW d \in Cpus PROVE PlacesOn(d)'
  <2>1. PlacesOn(d)
    BY DEF IInv, OnePlace, PlacesOn
  <2>2. ASSUME NEW s \in {"ready", "zombie", "run"} PROVE ThreadsOf(d, s)' = ThreadsOf(d, s)
    BY <1>3, <1>5, <1>6 DEF ThreadsOf
  <2>. QED  BY <1>2, <2>1, <2>2, PlacesOnKept
<1>8. Between(wc_threads, Woken, Sleepers)'
  <2>1. Between(wc_threads, Woken, Sleepers)
    BY DEF IInv, OnePlace, Sleepers
  <2>2. Sleepers' = Sleepers
    BY <1>5, <1>6 DEF Sleepers
  <2>. QED  BY <1>2, <2>1, <2>2 DEF Between, Woken
<1>9. OnePlace'
  BY <1>7, <1>8 DEF OnePlace, PlacesOn, Sleepers
<1>10. Migration'
  BY <1>2 DEF IInv, Migration
<1>11. Children'
  <2>. SUFFICES ASSUME NEW u \in Threads, NEW t \in Threads, t_child'[u] = t
       PROVE  t_state'[t] = "new" /\ \A v \in Threads : t_child'[v] = t => v = u
    BY DEF Children
  <2>1. \A v \in Threads : t_child[v] # x
    BY <1>1, <1>2 DEF Children
  <2>2. CASE t = x
    BY <1>3, <2>1, <2>2
  <2>3. CASE t # x
    BY <1>1, <1>3, <2>3 DEF Children
  <2>. QED  BY <2>2, <2>3
<1>12. Stacks'
  <2>. SUFFICES ASSUME NEW d \in Cpus
       PROVE  t_cpu'[c_curthread[d]] = d /\ t_state'[c_curthread[d]] \notin {"none", "new"}
    BY <1>2 DEF Stacks
  <2>. QED  BY <1>1, <1>3, <1>4 DEF Stacks
<1>13. NoLostUnidle'
  BY <1>2 DEF IInv, NoLostUnidle
<1>. QED  BY <1>1, <1>9, <1>10, <1>11, <1>12, <1>13 DEF IInv
\* thread_make_runnable puts a thread on its processor's run queue, from nowhere
\* or from a wait channel; no processor is between two places then, there.
LEMMA Readied ==
  ASSUME IInv, NEW c \in Cpus, NEW x \in Threads, MakeRunnable(c, x), t_state[x] \in {"new", "sleep"},
         UNCHANGED <<t_cpu, c_curthread, c_isidle, c_zombies, newstate, mig>>,
         \A d \in Cpus : pc'[d] = "placed" <=> pc[d] = "placed",
         pc[c] \notin {"count", "take", "send"}, \A d \in Cpus \ {c} : pc'[d] = pc[d],
         pc'[c] \notin {"count", "take", "send", "idle"}
  PROVE  /\ StateOf(x) = t_state[x] /\ StateOf(x)' = "ready" /\ t_state'[x] = "ready"
         /\ \A t \in Threads \ {x} : StateOf(t)' = StateOf(t) /\ t_state'[t] = t_state[t]
         /\ \A d \in Cpus : PlacesOn(d)'
         /\ Migration' /\ Stacks' /\ NoLostUnidle'
<1>. DEFINE e == t_cpu[x]
            q == c_runqueue[e]
<1>1. /\ e \in Cpus /\ q \in Seq(Threads) /\ Control /\ Stacks /\ Migration /\ NoLostUnidle
      /\ t_state \in [Threads -> {"none", "new", "ready", "run", "sleep", "zombie"}]
      /\ c_runqueue \in [Cpus -> Seq(Threads)] /\ ipi \in [Cpus -> BOOLEAN]
  BY DEF IInv, Control, TypeOK
<1>2. /\ ~c_runqueue_lock[e] /\ t_state' = [t_state EXCEPT ![x] = "ready"]
      /\ c_runqueue' = [c_runqueue EXCEPT ![e] = Append(q, x)]
      /\ ipi' = [ipi EXCEPT ![e] = @ \/ (c_isidle[e] /\ e # c)]
  BY DEF MakeRunnable
<1>3. pc[e] \notin {"placed", "pick"} /\ pc'[e] # "placed"
  BY <1>1, <1>2 DEF Control, Fits
<1>4. t_state'[x] = "ready" /\ \A t \in Threads \ {x} : t_state'[t] = t_state[t]
  BY <1>1, <1>2
<1>5. StateOf(x) = t_state[x] /\ StateOf(x)' = "ready"
  BY <1>3, <1>4 DEF StateOf
<1>6. ASSUME NEW t \in Threads \ {x} PROVE StateOf(t)' = StateOf(t)
  <2>1. t_cpu[t] \in Cpus
    BY <1>1 DEF Control, TypeOK
  <2>. QED  BY <1>4, <2>1, StateKept
<1>7. ASSUME NEW d \in Cpus PROVE PlacesOn(d)'
  <2>1. PlacesOn(d)
    BY DEF IInv, OnePlace, PlacesOn
  <2>2. ASSUME NEW s \in {"zombie", "run"} PROVE ThreadsOf(d, s)' = ThreadsOf(d, s)
    BY <1>5, <1>6 DEF ThreadsOf
  <2>3. CASE d # e
    <3>1. ThreadsOf(d, "ready")' = ThreadsOf(d, "ready")
      BY <1>5, <1>6, <2>3 DEF ThreadsOf
    <3>2. c_runqueue'[d] = c_runqueue[d]
      BY <1>1, <1>2, <2>3
    <3>. QED  BY <2>1, <2>2, <3>1, <3>2, PlacesOnKept
  <2>4. CASE d = e
    <3>1. x \notin ThreadsOf(e, "ready") /\ ThreadsOf(e, "ready")' = ThreadsOf(e, "ready") \cup {x}
      BY <1>5, <1>6 DEF ThreadsOf
    <3>2. Between(q, mig[e].victims, ThreadsOf(e, "ready"))
      BY <2>1, <2>4 DEF PlacesOn
    <3>3. Lists(q, On(q)) /\ x \notin On(q) /\ x \notin On(mig[e].victims)
      BY <3>1, <3>2 DEF Between
    <3>4. Lists(Append(q, x), On(q) \cup {x})
      BY <1>1, <3>3, SleepLists DEF Asleep
    <3>5. On(Append(q, x)) = On(q) \cup {x} /\ c_runqueue'[e] = Append(q, x)
      BY <1>1, <1>2, <3>4 DEF Lists
    <3>6. Between(c_runqueue[e], mig[e].victims, ThreadsOf(e, "ready"))'
      BY <3>1, <3>2, <3>3, <3>4, <3>5 DEF Between
    <3>7. ThreadsOf(d, "zombie")' = ThreadsOf(d, "zombie") /\ ThreadsOf(d, "run")' = ThreadsOf(d, "run")
      BY <2>2
    <3>. QED  BY <2>1, <2>4, <3>6, <3>7 DEF PlacesOn
  <2>. QED  BY <2>3, <2>4
<1>8. ASSUME NEW d \in Cpus
      PROVE  Len(c_runqueue[d]) \in Nat /\ Len(c_runqueue'[d]) \in Nat
             /\ Len(c_runqueue[d]) <= Len(c_runqueue'[d])
  <2>1. Append(q, x) \in Seq(Threads) /\ Len(Append(q, x)) = Len(q) + 1 /\ Len(q) \in Nat
    BY <1>1
  <2>2. CASE d = e
    BY <1>1, <1>2, <2>1, <2>2
  <2>3. CASE d # e
    BY <1>1, <1>2, <2>3
  <2>. QED  BY <2>2, <2>3
<1>9. Migration'
  <2>1. mig'[c] = NoMigration
    BY <1>1 DEF Migration
  <2>. QED  BY <1>1, <1>8, <2>1, Lengths, MigrationKept
<1>10. Stacks'
  <2>. SUFFICES ASSUME NEW d \in Cpus
       PROVE  t_cpu[c_curthread[d]] = d /\ t_state'[c_curthread[d]] \notin {"none", "new"}
    BY DEF Stacks
  <2>1. c_curthread[d] \in Threads
    BY <1>1 DEF Control, TypeOK
  <2>. QED  BY <1>1, <1>4, <2>1 DEF Stacks
<1>11. NoLostUnidle'
  <2>. SUFFICES ASSUME NEW d \in Cpus, pc'[d] = "idle", c_runqueue'[d] # <<>> PROVE ipi'[d]
    BY DEF NoLostUnidle
  <2>1. d # c /\ pc[d] = "idle" /\ c_isidle[d]
    BY <1>1 DEF Control, Fits
  <2>2. CASE d = e
    BY <1>1, <1>2, <2>1, <2>2
  <2>3. CASE d # e
    BY <1>1, <1>2, <2>1, <2>3 DEF NoLostUnidle
  <2>. QED  BY <2>2, <2>3
<1>. QED  BY <1>4, <1>5, <1>6, <1>7, <1>9, <1>10, <1>11

LEMMA ForkRunStep ==
  ASSUME IInv, NEW c \in Cpus, ForkRun(c)
  PROVE  IInv'
<1>1. Control /\ Control' /\ Children
  BY ForkFits DEF IInv
<1>. DEFINE cur == c_curthread[c]
<1>2. PICK x \in Threads : x = t_child[cur] /\ x # None /\ cur \in Threads
  BY <1>1 DEF Control, TypeOK, ForkRun
<1>3. t_state[x] = "new" /\ \A v \in Threads : t_child[v] = x => v = cur
  BY <1>1, <1>2 DEF Children
<1>4. /\ pc[c] = "run" /\ MakeRunnable(c, x) /\ t_child' = [t_child EXCEPT ![cur] = None]
      /\ UNCHANGED <<t_cpu, c_curthread, c_isidle, c_zombies, wc_threads, lk, pc,
                     newstate, list, mig>>
  BY <1>2 DEF ForkRun
<1>5. /\ StateOf(x) = t_state[x] /\ StateOf(x)' = "ready" /\ t_state'[x] = "ready"
      /\ \A t \in Threads \ {x} : StateOf(t)' = StateOf(t) /\ t_state'[t] = t_state[t]
      /\ \A d \in Cpus : PlacesOn(d)'
      /\ Migration' /\ Stacks' /\ NoLostUnidle'
  BY <1>2, <1>3, <1>4, Readied
<1>6. Between(wc_threads, Woken, Sleepers)'
  <2>1. Between(wc_threads, Woken, Sleepers)
    BY DEF IInv, OnePlace, Sleepers
  <2>2. Sleepers' = Sleepers
    BY <1>3, <1>5 DEF Sleepers
  <2>. QED  BY <1>4, <2>1, <2>2 DEF Between, Woken
<1>7. OnePlace'
  BY <1>5, <1>6 DEF OnePlace, PlacesOn, Sleepers
<1>8. Children'
  <2>. SUFFICES ASSUME NEW u \in Threads, NEW t \in Threads, t_child'[u] = t
       PROVE  t_state'[t] = "new" /\ \A v \in Threads : t_child'[v] = t => v = u
    BY DEF Children
  <2>1. t_child \in [Threads -> Threads \cup {None}]
    BY <1>1 DEF Control, TypeOK
  <2>2. u # cur /\ t_child[u] = t /\ \A v \in Threads : t_child'[v] = t => t_child[v] = t
    BY <1>2, <1>4, <2>1, SchedulerAssumption
  <2>3. t # x
    BY <1>3, <2>2
  <2>. QED  BY <1>1, <1>5, <2>2, <2>3 DEF Children
<1>. QED  BY <1>1, <1>5, <1>7, <1>8 DEF IInv

LEMMA WakeNextStep ==
  ASSUME IInv, NEW c \in Cpus, WakeNext(c)
  PROVE  IInv'
<1>1. PICK x \in Threads :
        /\ Control /\ Control' /\ lk = c /\ list[c] # <<>> /\ x = Head(list[c])
        /\ list[c] \in Seq(Threads) /\ c # None
  BY WakeNextFits, SchedulerAssumption DEF IInv
<1>2. Between(wc_threads, list[c], Sleepers)
  BY <1>1 DEF IInv, OnePlace, Sleepers, Woken
<1>3. x \in On(list[c]) /\ Lists(Tail(list[c]), On(list[c]) \ {x})
  <2>1. Lists(list[c], On(list[c]))
    BY <1>2 DEF Between
  <2>. QED  BY <1>1, <2>1, WakeLists DEF Woke, AfterWakeOne
<1>4. StateOf(x) = "sleep" /\ x \notin On(wc_threads)
  BY <1>2, <1>3 DEF Between, Sleepers
<1>5. /\ pc[c] = "waking" /\ MakeRunnable(c, x) /\ list' = [list EXCEPT ![c] = Tail(@)]
      /\ \/ Tail(list[c]) = <<>> /\ lk' = None /\ pc' = [pc EXCEPT ![c] = AfterInterrupt(c)]
         \/ lk' = lk /\ pc' = pc
      /\ UNCHANGED <<t_cpu, t_child, c_curthread, c_isidle, c_zombies, wc_threads, newstate, mig>>
  BY <1>1 DEF WakeNext, Goto
<1>6. t_state[x] = "sleep"
  <2>1. t_cpu[x] \in Cpus
    BY <1>1 DEF Control, TypeOK
  <2>2. pc[t_cpu[x]] # "placed"
    BY <1>1, <1>5, <2>1 DEF MakeRunnable, Control, Fits
  <2>. QED  BY <1>4, <2>2 DEF StateOf
<1>7. /\ \A d \in Cpus : pc'[d] = "placed" <=> pc[d] = "placed"
      /\ \A d \in Cpus \ {c} : pc'[d] = pc[d]
      /\ pc'[c] \in {"waking", "run", "unidle"}
  BY <1>1, <1>5 DEF Control, TypeOK, AfterInterrupt
<1>8. /\ StateOf(x)' = "ready" /\ t_state'[x] = "ready"
      /\ \A t \in Threads \ {x} : StateOf(t)' = StateOf(t) /\ t_state'[t] = t_state[t]
      /\ \A d \in Cpus : PlacesOn(d)'
      /\ Migration' /\ Stacks' /\ NoLostUnidle'
  BY <1>1, <1>5, <1>6, <1>7, Readied
<1>9. Between(wc_threads, Woken, Sleepers)'
  <2>1. Sleepers' = Sleepers \ {x}
    BY <1>4, <1>8 DEF Sleepers
  <2>2. Woken' = Tail(list[c])
    BY <1>1, <1>5 DEF Control, TypeOK, Woken
  <2>3. Between(wc_threads, Tail(list[c]), Sleepers \ {x})
    BY <1>2, <1>3, <1>4 DEF Between, Lists
  <2>. QED  BY <1>5, <2>1, <2>2, <2>3 DEF Between
<1>10. OnePlace'
  BY <1>8, <1>9 DEF OnePlace, PlacesOn, Sleepers
<1>11. Children'
  BY <1>5, <1>6, <1>8 DEF IInv, Children
<1>. QED  BY <1>1, <1>8, <1>10, <1>11 DEF IInv
\* thread_switch puts the running thread on a list: the channel's, its run queue
\* or the zombies.
LEMMA SwitchAwayStep ==
  ASSUME IInv, NEW c \in Cpus, SwitchAway(c)
  PROVE  IInv'
<1>1. Control /\ Control' /\ Stacks
  BY SwitchAwayFits DEF IInv
<1>2. PICK cur \in Threads : cur = c_curthread[c] /\ t_cpu[cur] = c
  BY <1>1 DEF Control, TypeOK, Stacks
<1>3. /\ pc' = [pc EXCEPT ![c] = "placed"] /\ pc[c] = "switch" /\ ~c_isidle[c]
      /\ newstate[c] \in {"ready", "sleep", "zombie"}
      /\ UNCHANGED <<t_state, t_cpu, t_child, c_curthread, c_isidle, ipi, newstate, list, mig>>
  BY <1>1 DEF SwitchAway, Goto, threads, Control, TypeOK, Fits
<1>4. pc'[c] = "placed" /\ \A d \in Cpus \ {c} : pc'[d] = pc[d]
  BY <1>1, <1>3 DEF Control, TypeOK
<1>5. /\ c_runqueue \in [Cpus -> Seq(Threads)] /\ c_zombies \in [Cpus -> Seq(Threads)]
      /\ wc_threads \in Seq(Threads)
      /\ c_runqueue' = [c_runqueue EXCEPT ![c] = IF newstate[c] = "ready" THEN Append(@, cur) ELSE @]
      /\ wc_threads' = IF newstate[c] = "sleep" THEN Append(wc_threads, cur) ELSE wc_threads
      /\ c_zombies' = [c_zombies EXCEPT ![c] = IF newstate[c] = "zombie" THEN Append(@, cur) ELSE @]
  BY <1>1, <1>2 DEF SwitchAway, Place, Control, TypeOK
<1>6. ThreadsOf(c, "run") = {cur} /\ StateOf(cur) = "run"
  <2>1. ThreadsOf(c, "run") = {cur}
    BY <1>2, <1>3 DEF IInv, OnePlace
  <2>. QED  BY <2>1 DEF ThreadsOf
<1>7. StateOf(cur)' = newstate[c]
  BY <1>2, <1>3, <1>4 DEF StateOf
<1>8. ASSUME NEW t \in Threads \ {cur} PROVE StateOf(t)' = StateOf(t)
  <2>1. t_cpu[t] \in Cpus
    BY <1>1 DEF Control, TypeOK
  <2>. QED  BY <1>2, <1>3, <1>4, <2>1 DEF StateOf
<1>9. ASSUME NEW d \in Cpus, d # c PROVE PlacesOn(d)'
  <2>1. PlacesOn(d)
    BY DEF IInv, OnePlace, PlacesOn
  <2>2. ASSUME NEW s \in {"ready", "zombie", "run"} PROVE ThreadsOf(d, s)' = ThreadsOf(d, s)
    BY <1>2, <1>3, <1>8, <1>9 DEF ThreadsOf
  <2>3. c_runqueue'[d] = c_runqueue[d] /\ c_zombies'[d] = c_zombies[d]
    BY <1>5, <1>9
  <2>. QED  BY <1>3, <1>4, <1>9, <2>1, <2>2, <2>3, PlacesOnKept
<1>10. PlacesOn(c)'
  <2>1. PlacesOn(c)
    BY DEF IInv, OnePlace, PlacesOn
  <2>2. ThreadsOf(c, "run")' = {}
    BY <1>3, <1>6, <1>7, <1>8 DEF ThreadsOf
  <2>3. Between(c_runqueue[c], mig[c].victims, ThreadsOf(c, "ready"))'
    <3>. DEFINE q == c_runqueue[c]
    <3>1. Between(q, mig[c].victims, ThreadsOf(c, "ready")) /\ cur \notin ThreadsOf(c, "ready")
      BY <1>6, <2>1 DEF PlacesOn, ThreadsOf
    <3>2. CASE newstate[c] # "ready"
      <4>1. ThreadsOf(c, "ready")' = ThreadsOf(c, "ready")
        BY <1>3, <1>6, <1>7, <1>8, <3>2 DEF ThreadsOf
      <4>2. c_runqueue'[c] = q
        BY <1>5, <3>2
      <4>. QED  BY <1>3, <3>1, <4>1, <4>2 DEF Between
    <3>3. CASE newstate[c] = "ready"
      <4>1. ThreadsOf(c, "ready")' = ThreadsOf(c, "ready") \cup {cur}
        BY <1>2, <1>3, <1>7, <1>8, <3>3 DEF ThreadsOf
      <4>2. c_runqueue'[c] = Append(q, cur)
        BY <1>5, <3>3
      <4>3. Lists(q, On(q)) /\ cur \notin On(q) /\ cur \notin On(mig[c].victims)
        BY <3>1 DEF Between
      <4>4. Lists(Append(q, cur), On(q) \cup {cur})
        BY <1>5, <4>3, SleepLists DEF Asleep
      <4>5. On(Append(q, cur)) = On(q) \cup {cur}
        BY <4>4 DEF Lists
      <4>. QED  BY <1>3, <3>1, <4>1, <4>2, <4>3, <4>4, <4>5 DEF Between
    <3>. QED  BY <3>2, <3>3
  <2>4. Lists(c_zombies[c], ThreadsOf(c, "zombie"))'
    <3>. DEFINE z == c_zombies[c]
    <3>1. Lists(z, ThreadsOf(c, "zombie")) /\ cur \notin ThreadsOf(c, "zombie")
      BY <1>6, <2>1 DEF PlacesOn, ThreadsOf
    <3>2. CASE newstate[c] # "zombie"
      <4>1. ThreadsOf(c, "zombie")' = ThreadsOf(c, "zombie")
        BY <1>3, <1>6, <1>7, <1>8, <3>2 DEF ThreadsOf
      <4>2. c_zombies'[c] = z
        BY <1>5, <3>2
      <4>. QED  BY <3>1, <4>1, <4>2
    <3>3. CASE newstate[c] = "zombie"
      <4>1. ThreadsOf(c, "zombie")' = ThreadsOf(c, "zombie") \cup {cur}
        BY <1>2, <1>3, <1>7, <1>8, <3>3 DEF ThreadsOf
      <4>2. c_zombies'[c] = Append(z, cur)
        BY <1>5, <3>3
      <4>3. Lists(Append(z, cur), ThreadsOf(c, "zombie") \cup {cur})
        BY <1>5, <3>1, SleepLists DEF Asleep
      <4>. QED  BY <4>1, <4>2, <4>3
    <3>. QED  BY <3>2, <3>3
  <2>. QED  BY <1>4, <2>2, <2>3, <2>4 DEF PlacesOn
<1>11. Between(wc_threads, Woken, Sleepers)'
  <2>1. Between(wc_threads, Woken, Sleepers) /\ cur \notin Sleepers
    BY <1>6 DEF IInv, OnePlace, Sleepers
  <2>2. CASE newstate[c] # "sleep"
    <3>1. Sleepers' = Sleepers
      BY <1>6, <1>7, <1>8, <2>2 DEF Sleepers
    <3>2. Woken' = Woken /\ wc_threads' = wc_threads
      BY <1>3, <1>5, <2>2 DEF SwitchAway, Woken
    <3>. QED  BY <2>1, <3>1, <3>2 DEF Between
  <2>3. CASE newstate[c] = "sleep"
    <3>1. Sleepers' = Sleepers \cup {cur}
      BY <1>7, <1>8, <2>3 DEF Sleepers
    <3>2. Woken = <<>> /\ Woken' = <<>>
      BY <1>1, <1>3, <2>3 DEF SwitchAway, Woken, Control, Fits
    <3>3. Lists(wc_threads, On(wc_threads)) /\ cur \notin On(wc_threads)
      BY <2>1 DEF Between
    <3>4. Lists(Append(wc_threads, cur), On(wc_threads) \cup {cur})
      BY <1>5, <3>3, SleepLists DEF Asleep
    <3>5. On(Append(wc_threads, cur)) = On(wc_threads) \cup {cur} /\ wc_threads' = Append(wc_threads, cur)
      BY <1>5, <2>3, <3>4 DEF Lists
    <3>6. On(<<>>) = {}
      BY EmptyChannel DEF Lists
    <3>. QED  BY <2>1, <3>1, <3>2, <3>4, <3>5, <3>6 DEF Between
  <2>. QED  BY <2>2, <2>3
<1>12. OnePlace'
  <2>1. \A d \in Cpus : PlacesOn(d)'
    BY <1>9, <1>10
  <2>. QED  BY <1>11, <2>1 DEF OnePlace, PlacesOn, Sleepers
<1>13. Migration'
  <2>1. mig'[c] = NoMigration
    BY <1>3 DEF IInv, Migration
  <2>2. \A d \in Cpus \ {c} : c_runqueue'[d] = c_runqueue[d]
    BY <1>5
  <2>. QED  BY <1>1, <1>3, <1>4, <2>1, <2>2, Lengths, MigrationKept DEF IInv
<1>14. Children' /\ Stacks'
  BY <1>3 DEF IInv, Children, Stacks
<1>15. NoLostUnidle'
  <2>1. \A d \in Cpus \ {c} : c_runqueue'[d] = c_runqueue[d]
    BY <1>5
  <2>. QED  BY <1>3, <1>4, <2>1 DEF IInv, NoLostUnidle
<1>. QED  BY <1>1, <1>12, <1>13, <1>14, <1>15 DEF IInv

\* The next thread runs, and destroys the zombies it finds.
LEMMA PickNextStep ==
  ASSUME IInv, NEW c \in Cpus, PickNext(c)
  PROVE  IInv'
<1>1. Control /\ Control' /\ Stacks /\ PlacesOn(c)
  BY PickNextFits DEF IInv, OnePlace, PlacesOn
<1>2. PICK next \in Threads : next = Head(c_runqueue[c])
  BY <1>1, PickNextFits
<1>3. PICK dead \in SUBSET Threads : dead = On(c_zombies[c])
  <2>1. On(c_zombies[c]) \subseteq Threads
    BY <1>1 DEF PlacesOn, Lists, ThreadsOf
  <2>. QED  BY <2>1
<1>4. /\ pc[c] = "pick" /\ c_runqueue[c] # <<>> /\ pc' = [pc EXCEPT ![c] = "run"]
      /\ c_curthread' = [c_curthread EXCEPT ![c] = next]
      /\ t_state' = [t \in Threads |-> IF t \in dead THEN "none"
                                      ELSE IF t = next THEN "run" ELSE t_state[t]]
      /\ t_cpu' = [t \in Threads |-> IF t \in dead THEN 0 ELSE t_cpu[t]]
      /\ c_runqueue' = [c_runqueue EXCEPT ![c] = Tail(@)]
      /\ c_zombies' = [c_zombies EXCEPT ![c] = <<>>]
      /\ c_isidle' = [c_isidle EXCEPT ![c] = FALSE]
      /\ UNCHANGED <<t_child, wc_threads, lk, ipi, newstate, list, mig>>
  BY <1>2, <1>3 DEF PickNext, Goto
<1>5. /\ pc'[c] = "run" /\ c_curthread'[c] = next /\ c_runqueue'[c] = Tail(c_runqueue[c])
      /\ c_zombies'[c] = <<>> /\ ~c_isidle'[c]
      /\ \A d \in Cpus \ {c} : /\ pc'[d] = pc[d] /\ c_curthread'[d] = c_curthread[d]
                               /\ c_runqueue'[d] = c_runqueue[d] /\ c_zombies'[d] = c_zombies[d]
                               /\ c_isidle'[d] = c_isidle[d]
  BY <1>1, <1>4 DEF Control, TypeOK
<1>6. c_isidle[c] /\ mig[c].victims = <<>>
  BY <1>1, <1>4 DEF Control, Fits
<1>7. dead = ThreadsOf(c, "zombie")
  BY <1>1, <1>3 DEF PlacesOn, Lists
<1>8. /\ Between(c_runqueue[c], <<>>, ThreadsOf(c, "ready"))
      /\ Lists(c_runqueue[c], ThreadsOf(c, "ready"))
  <2>1. Between(c_runqueue[c], <<>>, ThreadsOf(c, "ready"))
    BY <1>1, <1>6 DEF PlacesOn
  <2>2. On(<<>>) = {}
    BY EmptyChannel DEF Lists
  <2>. QED  BY <2>1, <2>2 DEF Between, Lists
<1>9. next \in ThreadsOf(c, "ready") /\ c_runqueue'[c] \in Seq(Threads)
      /\ Lists(c_runqueue'[c], ThreadsOf(c, "ready") \ {next})
  <2>1. c_runqueue[c] \in Seq(Threads)
    BY <1>1 DEF Control, TypeOK
  <2>2. /\ Head(c_runqueue[c]) \in ThreadsOf(c, "ready") /\ Tail(c_runqueue[c]) \in Seq(Threads)
        /\ Lists(Tail(c_runqueue[c]), ThreadsOf(c, "ready") \ {Head(c_runqueue[c])})
    BY <1>4, <1>8, <2>1, WakeLists DEF Woke, AfterWakeOne
  <2>. QED  BY <1>2, <1>5, <2>2
<1>10. /\ \A t \in dead : t_cpu[t] = c /\ StateOf(t) = "zombie" /\ t_state[t] = "zombie"
       /\ t_cpu[next] = c /\ StateOf(next) = "ready" /\ t_state[next] = "ready" /\ next \notin dead
  BY <1>4, <1>7, <1>9 DEF ThreadsOf, StateOf
<1>11. ASSUME NEW d \in Cpus
       PROVE  c_curthread'[d] \in Threads \ dead /\ t_cpu[c_curthread'[d]] = d
  <2>1. CASE d = c
    BY <1>5, <1>10, <2>1
  <2>2. CASE d # c
    <3>1. c_curthread'[d] = c_curthread[d] /\ c_curthread[d] \in Threads
      BY <1>1, <1>5, <2>2 DEF Control, TypeOK
    <3>. QED  BY <1>1, <1>10, <2>2, <3>1 DEF Stacks
  <2>. QED  BY <2>1, <2>2
<1>12. ASSUME NEW t \in dead PROVE StateOf(t)' = "none"
  <2>1. t_state'[t] = "none" /\ t_cpu'[t] = 0
    BY <1>4
  <2>2. c_curthread'[0] # t
    BY <1>11, Numbers
  <2>. QED  BY <2>1, <2>2 DEF StateOf
<1>13. StateOf(next)' = "run"
  BY <1>4, <1>5, <1>10 DEF StateOf
<1>14. ASSUME NEW t \in Threads \ dead, t # next
       PROVE  t_cpu'[t] = t_cpu[t] /\ StateOf(t)' = StateOf(t)
  <2>1. t_cpu[t] \in Cpus /\ t_cpu'[t] = t_cpu[t] /\ t_state'[t] = t_state[t]
    BY <1>1, <1>4, <1>14 DEF Control, TypeOK
  <2>2. CASE t_cpu[t] = c
    BY <1>4, <1>5, <2>1, <2>2 DEF StateOf
  <2>3. CASE t_cpu[t] # c
    BY <1>4, <1>5, <2>1, <2>3, StateKept
  <2>. QED  BY <2>1, <2>2, <2>3
<1>15. ASSUME NEW d \in Cpus, d # c PROVE PlacesOn(d)'
  <2>1. PlacesOn(d)
    BY DEF IInv, OnePlace, PlacesOn
  <2>2. ASSUME NEW s \in {"ready", "zombie", "run"} PROVE ThreadsOf(d, s)' = ThreadsOf(d, s)
    <3>1. \A t \in dead : t \notin ThreadsOf(d, s) /\ t \notin ThreadsOf(d, s)'
      BY <1>10, <1>12, <1>15 DEF ThreadsOf
    <3>2. next \notin ThreadsOf(d, s) /\ next \notin ThreadsOf(d, s)'
      BY <1>4, <1>10, <1>15 DEF ThreadsOf
    <3>3. \A t \in Threads \ dead : t # next => (t \in ThreadsOf(d, s) <=> t \in ThreadsOf(d, s)')
      BY <1>14 DEF ThreadsOf
    <3>4. ThreadsOf(d, s) \subseteq Threads /\ ThreadsOf(d, s)' \subseteq Threads
      BY DEF ThreadsOf
    <3>. QED  BY <3>1, <3>2, <3>3, <3>4
  <2>. QED  BY <1>4, <1>5, <1>15, <2>1, <2>2, PlacesOnKept
<1>16. PlacesOn(c)'
  <2>1. ThreadsOf(c, "ready")' = ThreadsOf(c, "ready") \ {next}
    BY <1>10, <1>12, <1>13, <1>14 DEF ThreadsOf
  <2>2. ThreadsOf(c, "zombie")' = {}
    BY <1>7, <1>12, <1>13, <1>14 DEF ThreadsOf
  <2>3. ThreadsOf(c, "run")' = {next}
    <3>1. ThreadsOf(c, "run") = {}
      BY <1>1, <1>6 DEF PlacesOn
    <3>2. t_cpu'[next] = c
      BY <1>4, <1>10
    <3>. QED  BY <1>12, <1>13, <1>14, <3>1, <3>2 DEF ThreadsOf
  <2>4. Between(c_runqueue[c], mig[c].victims, ThreadsOf(c, "ready"))'
    <3>1. On(<<>>) = {} /\ Lists(<<>>, {})
      BY EmptyChannel DEF Lists
    <3>2. Between(c_runqueue'[c], <<>>, ThreadsOf(c, "ready") \ {next})
      BY <1>9, <3>1 DEF Between, Lists
    <3>3. mig'[c].victims = <<>>
      BY <1>4, <1>6
    <3>. QED  BY <2>1, <3>2, <3>3 DEF Between
  <2>. QED  BY <1>5, <2>2, <2>3, <2>4, EmptyChannel DEF PlacesOn
<1>17. Between(wc_threads, Woken, Sleepers)'
  <2>1. Sleepers' = Sleepers
    BY <1>10, <1>12, <1>13, <1>14 DEF Sleepers
  <2>2. Woken' = Woken
    BY <1>4 DEF Woken
  <2>3. Between(wc_threads, Woken, Sleepers)
    BY DEF IInv, OnePlace, Sleepers
  <2>. QED  BY <1>4, <2>1, <2>2, <2>3 DEF Between
<1>18. OnePlace'
  <2>1. \A d \in Cpus : PlacesOn(d)'
    BY <1>15, <1>16
  <2>. QED  BY <1>17, <2>1 DEF OnePlace, PlacesOn, Sleepers
<1>19. Migration'
  <2>1. mig'[c] = NoMigration
    BY <1>4 DEF IInv, Migration
  <2>. QED  BY <1>1, <1>4, <1>5, <2>1, Lengths, MigrationKept DEF IInv
<1>20. Children'
  <2>. SUFFICES ASSUME NEW u \in Threads, NEW t \in Threads, t_child[u] = t
       PROVE  t_state'[t] = "new" /\ \A v \in Threads : t_child[v] = t => v = u
    BY <1>4 DEF Children
  <2>. QED  BY <1>4, <1>10 DEF IInv, Children
<1>21. Stacks'
  <2>. SUFFICES ASSUME NEW d \in Cpus
       PROVE  t_cpu'[c_curthread'[d]] = d /\ t_state'[c_curthread'[d]] \notin {"none", "new"}
    BY DEF Stacks
  <2>1. c_curthread'[d] = next \/ c_curthread'[d] = c_curthread[d]
    BY <1>5
  <2>. QED  BY <1>1, <1>4, <1>11, <2>1 DEF Stacks
<1>22. NoLostUnidle'
  BY <1>4, <1>5 DEF IInv, NoLostUnidle
<1>. QED  BY <1>1, <1>18, <1>19, <1>20, <1>21, <1>22 DEF IInv
\* thread_consider_migration takes the tail of its queue in hand.
LEMMA TakeStep ==
  ASSUME IInv, NEW c \in Cpus, Take(c)
  PROVE  IInv'
<1>1. Control /\ Control'
  BY TakeFits DEF IInv
<1>2. PICK q \in Seq(Threads), n \in Nat :
        /\ q = c_runqueue[c] /\ Once(q) /\ n \in 0 .. Len(q)
        /\ c_runqueue' = [c_runqueue EXCEPT ![c] = SubSeq(q, 1, n)]
        /\ mig'[c].victims = SubSeq(q, n + 1, Len(q))
        /\ mig'[c].to_send = Len(mig'[c].victims) /\ mig'[c].i # c
        /\ mig[c].victims = <<>>
  <2>. DEFINE r == c_runqueue[c]
              k == Len(r) - mig[c].to_send
  <2>1. /\ r \in Seq(Threads) /\ Once(r) /\ k \in 0 .. Len(r)
        /\ c_runqueue' = [c_runqueue EXCEPT ![c] = SubSeq(r, 1, k)]
        /\ mig'[c].victims = SubSeq(r, k + 1, Len(r))
        /\ mig'[c].to_send = Len(mig'[c].victims) /\ mig'[c].i # c
        /\ mig[c].victims = <<>>
    BY TakeFits DEF IInv
  <2>2. k \in Nat
    BY <2>1
  <2>. HIDE DEF k
  <2>. QED  BY <2>1, <2>2
<1>3. /\ pc[c] = "take" /\ pc' = [pc EXCEPT ![c] = "send"]
      /\ UNCHANGED <<t_state, t_cpu, t_child, c_curthread, c_isidle, c_zombies, wc_threads, lk, ipi,
                     newstate, list>>
  BY DEF Take, Goto, threads
<1>4. /\ pc'[c] = "send" /\ c_runqueue'[c] = SubSeq(q, 1, n)
      /\ \A d \in Cpus \ {c} : /\ pc'[d] = pc[d] /\ c_runqueue'[d] = c_runqueue[d]
                               /\ mig'[d] = mig[d]
  BY <1>1, <1>2, <1>3 DEF Control, TypeOK, Take
<1>5. ASSUME NEW t \in Threads PROVE StateOf(t)' = StateOf(t)
  <2>1. t_cpu[t] \in Cpus
    BY <1>1 DEF Control, TypeOK
  <2>. QED  BY <1>3, <1>4, <2>1, StateKept
<1>6. \A d, s : ThreadsOf(d, s)' = ThreadsOf(d, s)
  BY <1>3, <1>5 DEF ThreadsOf
<1>7. ASSUME NEW d \in Cpus PROVE PlacesOn(d)'
  <2>1. PlacesOn(d)
    BY DEF IInv, OnePlace, PlacesOn
  <2>2. CASE d # c
    BY <1>3, <1>4, <1>6, <2>1, <2>2, PlacesOnKept
  <2>3. CASE d = c
    <3>1. Between(q, <<>>, ThreadsOf(c, "ready"))
      BY <1>2, <2>1, <2>3 DEF PlacesOn
    <3>2. On(q) = ThreadsOf(c, "ready")
      BY <3>1, EmptyChannel DEF Between, Lists
    <3>3. Between(c_runqueue'[c], mig'[c].victims, ThreadsOf(c, "ready"))
      <4>1. Between(SubSeq(q, 1, n), SubSeq(q, n + 1, Len(q)), On(q))
        BY <1>2, Cut
      <4>. QED  BY <1>2, <1>4, <3>2, <4>1
    <3>4. Between(c_runqueue[c], mig[c].victims, ThreadsOf(c, "ready"))'
      BY <1>6, <3>3 DEF Between
    <3>. QED  BY <1>3, <1>4, <1>6, <2>1, <2>3, <3>4 DEF PlacesOn
  <2>. QED  BY <2>2, <2>3
<1>8. Between(wc_threads, Woken, Sleepers)'
  <2>1. Sleepers' = Sleepers /\ Woken' = Woken
    BY <1>3, <1>5 DEF Sleepers, Woken
  <2>. QED  BY <1>3, <2>1 DEF IInv, OnePlace, Sleepers, Between
<1>9. OnePlace'
  BY <1>7, <1>8 DEF OnePlace, PlacesOn, Sleepers
<1>10. Migration'
  <2>. SUFFICES ASSUME NEW d \in Cpus, d # c
       PROVE  LET m == mig'[d]
              IN /\ pc'[d] \notin {"count", "take", "send"} => m = NoMigration
                 /\ pc'[d] = "count" => m.i < NumCpus /\ m.my_count <= Len(c_runqueue'[d])
                                        /\ m.my_count <= m.total_count
                 /\ pc'[d] = "take" => m.one_share > 0 /\ m.to_send + m.one_share <= Len(c_runqueue'[d])
                 /\ pc'[d] = "send" => m.i # d /\ m.to_send <= Len(m.victims)
    <3>1. mig'[c].to_send <= Len(mig'[c].victims)
      <4>1. mig'[c] \in Migrations
        BY <1>1 DEF Control, TypeOK, Migrations
      <4>. QED  BY <1>2, <4>1 DEF Migrations
    <3>. QED  BY <1>2, <1>4, <3>1 DEF Migration
  <2>. QED  BY <1>4 DEF IInv, Migration
<1>11. Children' /\ Stacks'
  BY <1>3 DEF IInv, Children, Stacks
<1>12. NoLostUnidle'
  BY <1>3, <1>4 DEF IInv, NoLostUnidle
<1>. QED  BY <1>1, <1>9, <1>10, <1>11, <1>12 DEF IInv

\* Leftovers go back on the queue they came from.
LEMMA KeepStep ==
  ASSUME IInv, NEW c \in Cpus, Keep(c)
  PROVE  IInv'
<1>1. Control /\ Control'
  BY KeepFits DEF IInv
<1>2. PICK q \in Seq(Threads), v \in Seq(Threads) :
        /\ q = c_runqueue[c] /\ v = mig[c].victims
        /\ c_runqueue' = [c_runqueue EXCEPT ![c] = q \o v]
        /\ mig' = [mig EXCEPT ![c] = NoMigration]
  BY KeepFits DEF IInv
<1>3. /\ pc[c] = "send" /\ pc' = [pc EXCEPT ![c] = YieldTo(c)]
      /\ UNCHANGED <<t_state, t_cpu, t_child, c_curthread, c_isidle, c_zombies, wc_threads, lk, ipi,
                     newstate, list>>
  BY DEF Keep, Leave, Goto, threads
<1>4. /\ pc'[c] \in {"switch", "unidle"} /\ c_runqueue'[c] = q \o v /\ mig'[c] = NoMigration
      /\ \A d \in Cpus \ {c} : /\ pc'[d] = pc[d] /\ c_runqueue'[d] = c_runqueue[d]
                               /\ mig'[d] = mig[d]
  BY <1>1, <1>2, <1>3 DEF Control, TypeOK, YieldTo
<1>5. ASSUME NEW t \in Threads PROVE StateOf(t)' = StateOf(t)
  <2>1. t_cpu[t] \in Cpus
    BY <1>1 DEF Control, TypeOK
  <2>. QED  BY <1>3, <1>4, <2>1, StateKept
<1>6. \A d, s : ThreadsOf(d, s)' = ThreadsOf(d, s)
  BY <1>3, <1>5 DEF ThreadsOf
<1>7. ASSUME NEW d \in Cpus PROVE PlacesOn(d)'
  <2>1. PlacesOn(d)
    BY DEF IInv, OnePlace, PlacesOn
  <2>2. CASE d # c
    BY <1>3, <1>4, <1>6, <2>1, <2>2, PlacesOnKept
  <2>3. CASE d = c
    <3>1. Lists(c_runqueue'[c], ThreadsOf(c, "ready"))
      <4>1. Between(q, v, ThreadsOf(c, "ready"))
        BY <1>2, <2>1, <2>3 DEF PlacesOn
      <4>2. Lists(q \o v, ThreadsOf(c, "ready"))
        BY <4>1, Joined
      <4>. QED  BY <1>4, <4>2
    <3>2. mig'[c].victims = <<>> /\ Lists(<<>>, {}) /\ On(<<>>) = {}
      BY <1>4, NoneMigrates, EmptyChannel DEF Lists
    <3>3. Between(c_runqueue[c], mig[c].victims, ThreadsOf(c, "ready"))'
      BY <1>6, <3>1, <3>2 DEF Between, Lists
    <3>. QED  BY <1>3, <1>4, <1>6, <2>1, <2>3, <3>3 DEF PlacesOn
  <2>. QED  BY <2>2, <2>3
<1>8. Between(wc_threads, Woken, Sleepers)'
  <2>1. Sleepers' = Sleepers /\ Woken' = Woken
    BY <1>3, <1>5 DEF Sleepers, Woken
  <2>. QED  BY <1>3, <2>1 DEF IInv, OnePlace, Sleepers, Between
<1>9. OnePlace'
  BY <1>7, <1>8 DEF OnePlace, PlacesOn, Sleepers
<1>10. Migration'
  BY <1>1, <1>4, Lengths, MigrationKept DEF IInv
<1>11. Children' /\ Stacks'
  BY <1>3 DEF IInv, Children, Stacks
<1>12. NoLostUnidle'
  BY <1>3, <1>4 DEF IInv, NoLostUnidle
<1>. QED  BY <1>1, <1>9, <1>10, <1>11, <1>12 DEF IInv

\* ... and others go to another processor, which is told of them if it idles.
LEMMA SendStep ==
  ASSUME IInv, NEW c \in Cpus, Send(c)
  PROVE  IInv'
<1>1. Control /\ Stacks /\ PlacesOn(c)
  BY DEF IInv, OnePlace, PlacesOn
<1>2. PICK i \in Cpus, sent \in Seq(Threads), left \in Seq(Threads) :
        /\ Control' /\ i # c /\ pc[i] \notin {"placed", "pick"} /\ pc[c] = "send"
        /\ Between(left, sent, On(mig[c].victims)) /\ c_curthread[c] \notin On(sent)
        /\ t_cpu' = [t \in Threads |-> IF t \in On(sent) THEN i ELSE t_cpu[t]]
        /\ c_runqueue' = [c_runqueue EXCEPT ![i] = @ \o sent]
        /\ ipi' = [ipi EXCEPT ![i] = @ \/ (c_isidle[i] /\ sent # <<>>)]
        /\ mig' = [mig EXCEPT ![c] = mig'[c]]
        /\ mig'[c].victims = left /\ mig'[c].to_send <= Len(left) /\ mig'[c].i # c
        /\ UNCHANGED <<t_state, t_child, c_curthread, c_isidle, c_zombies, c_runqueue_lock,
                       wc_threads, lk, pc, newstate, list>>
  BY SendFits DEF IInv
<1>3. PICK q \in Seq(Threads) : q = c_runqueue[i]
  BY <1>1 DEF Control, TypeOK
<1>4. /\ c_runqueue'[i] = q \o sent /\ \A d \in Cpus \ {i} : c_runqueue'[d] = c_runqueue[d]
      /\ \A d \in Cpus \ {i} : ipi'[d] = ipi[d]
      /\ ipi'[i] = (ipi[i] \/ (c_isidle[i] /\ sent # <<>>))
      /\ \A d \in Cpus \ {c} : mig'[d] = mig[d]
  <2>1. /\ c_runqueue \in [Cpus -> Seq(Threads)] /\ ipi \in [Cpus -> BOOLEAN]
        /\ mig \in [Cpus -> Migrations]
    BY <1>1 DEF Control, TypeOK, Migrations
  <2>2. c_runqueue'[i] = q \o sent /\ \A d \in Cpus \ {i} : c_runqueue'[d] = c_runqueue[d]
    BY <1>2, <1>3, <2>1
  <2>3. /\ \A d \in Cpus \ {i} : ipi'[d] = ipi[d]
        /\ ipi'[i] = (ipi[i] \/ (c_isidle[i] /\ sent # <<>>))
    BY <1>2, <2>1
  <2>4. \A d \in Cpus \ {c} : mig'[d] = mig[d]
    BY <1>2, <2>1
  <2>. QED  BY <2>2, <2>3, <2>4
<1>5. /\ Between(c_runqueue[c], mig[c].victims, ThreadsOf(c, "ready"))
      /\ On(sent) \subseteq ThreadsOf(c, "ready") /\ On(left) \subseteq ThreadsOf(c, "ready")
      /\ On(sent) \cap On(c_runqueue[c]) = {} /\ On(left) \cap On(c_runqueue[c]) = {}
      /\ On(sent) \cap On(left) = {} /\ Lists(sent, On(sent)) /\ Lists(left, On(left))
      /\ ThreadsOf(c, "ready") = On(c_runqueue[c]) \cup On(left) \cup On(sent)
  <2>1. Between(c_runqueue[c], mig[c].victims, ThreadsOf(c, "ready"))
    BY <1>1 DEF PlacesOn
  <2>. QED  BY <1>2, <2>1 DEF Between
<1>6. ASSUME NEW t \in On(sent)
      PROVE  /\ t \in Threads /\ t_cpu[t] = c /\ StateOf(t) = "ready" /\ t_cpu'[t] = i
             /\ StateOf(t)' = "ready"
  <2>1. t \in Threads /\ t_cpu[t] = c /\ StateOf(t) = "ready"
    BY <1>5 DEF ThreadsOf
  <2>2. t_state[t] = "ready" /\ t_cpu'[t] = i
    BY <1>2, <2>1 DEF StateOf
  <2>. QED  BY <1>2, <2>1, <2>2 DEF StateOf
<1>7. ASSUME NEW t \in Threads \ On(sent)
      PROVE  t_cpu'[t] = t_cpu[t] /\ StateOf(t)' = StateOf(t)
  <2>1. t_cpu'[t] = t_cpu[t]
    BY <1>2
  <2>. QED  BY <1>2, <2>1, StateKept
<1>8. ASSUME NEW d \in Cpus
      PROVE  ThreadsOf(d, "zombie")' = ThreadsOf(d, "zombie") /\ ThreadsOf(d, "run")' = ThreadsOf(d, "run")
  BY <1>6, <1>7 DEF ThreadsOf
<1>9. ASSUME NEW d \in Cpus PROVE PlacesOn(d)'
  <2>1. PlacesOn(d)
    BY DEF IInv, OnePlace, PlacesOn
  <2>2. CASE d \notin {c, i}
    <3>1. ThreadsOf(d, "ready")' = ThreadsOf(d, "ready")
      BY <1>6, <1>7, <2>2 DEF ThreadsOf
    <3>. QED  BY <1>2, <1>4, <1>8, <2>1, <2>2, <3>1, PlacesOnKept
  <2>3. CASE d = c
    <3>1. ThreadsOf(c, "ready")' = ThreadsOf(c, "ready") \ On(sent)
      BY <1>2, <1>6, <1>7 DEF ThreadsOf
    <3>2. Between(c_runqueue[c], left, ThreadsOf(c, "ready") \ On(sent))
      BY <1>5 DEF Between
    <3>3. Between(c_runqueue[c], mig[c].victims, ThreadsOf(c, "ready"))'
      BY <1>2, <1>4, <3>1, <3>2 DEF Between
    <3>. QED  BY <1>2, <1>8, <2>1, <2>3, <3>3 DEF PlacesOn
  <2>4. CASE d = i
    <3>1. ThreadsOf(i, "ready")' = ThreadsOf(i, "ready") \cup On(sent)
      BY <1>6, <1>7 DEF ThreadsOf
    <3>2. Between(q, mig[i].victims, ThreadsOf(i, "ready"))
      BY <1>3, <2>1, <2>4 DEF PlacesOn
    <3>3. On(sent) \cap ThreadsOf(i, "ready") = {}
      BY <1>2, <1>6 DEF ThreadsOf
    <3>4. Between(q, sent, On(q) \cup On(sent))
      BY <1>5, <3>2, <3>3 DEF Between
    <3>5. Lists(q \o sent, On(q) \cup On(sent))
      BY <1>2, <3>4, Joined
    <3>6. Between(q \o sent, mig[i].victims, ThreadsOf(i, "ready") \cup On(sent))
      BY <3>2, <3>3, <3>5 DEF Between, Lists
    <3>7. Between(c_runqueue[i], mig[i].victims, ThreadsOf(i, "ready"))'
      BY <1>2, <1>4, <3>1, <3>6 DEF Between
    <3>. QED  BY <1>2, <1>8, <2>1, <2>4, <3>7 DEF PlacesOn
  <2>. QED  BY <2>2, <2>3, <2>4
<1>10. Between(wc_threads, Woken, Sleepers)'
  <2>1. Sleepers' = Sleepers
    BY <1>6, <1>7 DEF Sleepers
  <2>2. Woken' = Woken
    BY <1>2 DEF Woken
  <2>. QED  BY <1>2, <2>1, <2>2 DEF IInv, OnePlace, Sleepers, Between
<1>11. OnePlace'
  BY <1>9, <1>10 DEF OnePlace, PlacesOn, Sleepers
<1>12. Migration'
  <2>. SUFFICES ASSUME NEW d \in Cpus, d # c
       PROVE  LET m == mig'[d]
              IN /\ pc'[d] \notin {"count", "take", "send"} => m = NoMigration
                 /\ pc'[d] = "count" => m.i < NumCpus /\ m.my_count <= Len(c_runqueue'[d])
                                        /\ m.my_count <= m.total_count
                 /\ pc'[d] = "take" => m.one_share > 0 /\ m.to_send + m.one_share <= Len(c_runqueue'[d])
                 /\ pc'[d] = "send" => m.i # d /\ m.to_send <= Len(m.victims)
    BY <1>2 DEF Migration
  <2>1. mig'[d] = mig[d] /\ mig[d] \in Migrations /\ pc'[d] = pc[d] /\ Len(c_runqueue[d]) \in Nat
    BY <1>1, <1>2, <1>4, Lengths
  <2>2. Len(c_runqueue'[d]) \in Nat /\ Len(c_runqueue[d]) <= Len(c_runqueue'[d])
    <3>1. CASE d # i
      BY <1>4, <2>1, <3>1
    <3>2. CASE d = i
      <4>1. Len(q \o sent) = Len(q) + Len(sent) /\ Len(q) \in Nat /\ Len(sent) \in Nat
        OBVIOUS
      <4>. QED  BY <1>3, <1>4, <3>2, <4>1
    <3>. QED  BY <3>1, <3>2
  <2>3. mig[d].my_count \in Nat /\ mig[d].to_send + mig[d].one_share \in Nat
    BY <2>1 DEF Migrations
  <2>. QED  BY <2>1, <2>2, <2>3 DEF IInv, Migration
<1>13. Children'
  BY <1>2 DEF IInv, Children
<1>14. Stacks'
  <2>. SUFFICES ASSUME NEW d \in Cpus
       PROVE  t_cpu'[c_curthread[d]] = d /\ t_state[c_curthread[d]] \notin {"none", "new"}
    BY <1>2 DEF Stacks
  <2>1. c_curthread[d] \in Threads /\ t_cpu[c_curthread[d]] = d
    BY <1>1 DEF Control, TypeOK, Stacks
  <2>2. c_curthread[d] \notin On(sent)
    BY <1>2, <1>6, <2>1
  <2>. QED  BY <1>1, <1>7, <2>1, <2>2 DEF Stacks
<1>15. NoLostUnidle'
  <2>. SUFFICES ASSUME NEW d \in Cpus, pc[d] = "idle", c_runqueue'[d] # <<>> PROVE ipi'[d]
    BY <1>2 DEF NoLostUnidle
  <2>1. CASE d # i
    BY <1>4, <2>1 DEF IInv, NoLostUnidle
  <2>2. CASE d = i
    <3>1. c_isidle[i]
      BY <1>1, <2>2 DEF Control, Fits
    <3>2. CASE sent # <<>>
      BY <1>4, <2>2, <3>1, <3>2
    <3>3. CASE sent = <<>>
      <4>1. c_runqueue[i] # <<>>
        BY <1>3, <1>4, <2>2, <3>3
      <4>. QED  BY <1>4, <2>2, <4>1 DEF IInv, NoLostUnidle
    <3>. QED  BY <3>2, <3>3
  <2>. QED  BY <2>1, <2>2
<1>. QED  BY <1>2, <1>11, <1>12, <1>13, <1>14, <1>15 DEF IInv
-----------------------------------------------------------------------------
(* The theorems *)

\* thread_bootstrap and cpu_create: each processor runs its first thread.
LEMMA InitInv == ASSUME Init PROVE IInv
<1>1. /\ c_curthread \in [Cpus -> Threads]
      /\ \A c, d \in Cpus : c_curthread[c] = c_curthread[d] => c = d
  BY DEF Init, Injection, IsInjective
<1>2. \A t \in Threads : t \in Range(c_curthread) <=> \E c \in Cpus : c_curthread[c] = t
  BY <1>1 DEF Range
<1>3. 0 \in Cpus
  BY Numbers
<1>4. ASSUME NEW c \in Cpus
      PROVE  t_state[c_curthread[c]] = "run" /\ t_cpu[c_curthread[c]] = c
  <2>1. c_curthread[c] \in Range(c_curthread) /\ c_curthread[c] \in Threads
    BY <1>1, <1>2
  <2>2. (CHOOSE d \in Cpus : c_curthread[d] = c_curthread[c]) = c
    BY <1>1
  <2>. QED  BY <2>1, <2>2 DEF Init
<1>5. ASSUME NEW t \in Threads, \A c \in Cpus : c_curthread[c] # t
      PROVE  t_state[t] = "none" /\ t_cpu[t] = 0
  BY <1>2, <1>5 DEF Init
<1>6. ASSUME NEW t \in Threads PROVE t_state[t] \in {"none", "run"} /\ t_cpu[t] \in Cpus
  BY <1>3, <1>4, <1>5
<1>7. /\ DOMAIN t_state = Threads /\ DOMAIN t_cpu = Threads
      /\ t_state = [t \in Threads |-> t_state[t]] /\ t_cpu = [t \in Threads |-> t_cpu[t]]
  BY DEF Init
<1>8. /\ c_isidle = [c \in Cpus |-> FALSE] /\ c_runqueue = [c \in Cpus |-> <<>>]
      /\ c_zombies = [c \in Cpus |-> <<>>] /\ c_runqueue_lock = [c \in Cpus |-> FALSE]
      /\ wc_threads = <<>> /\ lk = None /\ ipi = [c \in Cpus |-> FALSE]
      /\ pc = [c \in Cpus |-> "run"] /\ newstate = [c \in Cpus |-> "ready"]
      /\ list = [c \in Cpus |-> <<>>] /\ mig = [c \in Cpus |-> NoMigration]
      /\ t_child = [t \in Threads |-> None]
  BY DEF Init
<1>9. Control
  <2>1. t_state \in [Threads -> {"none", "new", "ready", "run", "sleep", "zombie"}]
        /\ t_cpu \in [Threads -> Cpus]
    BY <1>6, <1>7
  <2>2. mig \in [Cpus -> Migrations]
    BY <1>8, NoneMigrates
  <2>3. <<>> \in Seq(Threads)
    BY EmptyChannel
  <2>4. TypeOK
    BY <1>1, <1>8, <2>1, <2>2, <2>3 DEF TypeOK, Places, Migrations
  <2>5. ASSUME NEW c \in Cpus PROVE Fits(c)
    BY <1>8, NoneMigrates, SchedulerAssumption DEF Fits
  <2>. QED  BY <2>4, <2>5 DEF Control
<1>10. Migration
  BY <1>8 DEF Migration
<1>11. Children
  BY <1>8, SchedulerAssumption DEF Children
<1>12. Stacks
  BY <1>4 DEF Stacks
<1>13. OnePlace
  <2>1. ASSUME NEW t \in Threads PROVE StateOf(t) = t_state[t]
    BY <1>6, <1>8 DEF StateOf
  <2>2. Lists(<<>>, {}) /\ On(<<>>) = {} /\ Between(<<>>, <<>>, {})
    BY EmptyChannel DEF Lists, Between
  <2>3. ASSUME NEW c \in Cpus
        PROVE  /\ ThreadsOf(c, "ready") = {} /\ ThreadsOf(c, "zombie") = {}
               /\ ThreadsOf(c, "run") = {c_curthread[c]}
    <3>1. ThreadsOf(c, "ready") = {} /\ ThreadsOf(c, "zombie") = {}
      BY <1>6, <2>1 DEF ThreadsOf
    <3>2. ASSUME NEW t \in Threads PROVE t_cpu[t] = c /\ t_state[t] = "run" <=> t = c_curthread[c]
      BY <1>1, <1>4, <1>5
    <3>. QED  BY <1>1, <2>1, <3>1, <3>2 DEF ThreadsOf
  <2>4. {t \in Threads : StateOf(t) = "sleep"} = {}
    BY <1>6, <2>1
  <2>. QED  BY <1>8, <2>2, <2>3, <2>4, NoneMigrates DEF OnePlace, Woken
<1>14. NoLostUnidle
  BY <1>8 DEF NoLostUnidle
<1>. QED  BY <1>9, <1>10, <1>11, <1>12, <1>13, <1>14 DEF IInv

LEMMA NextInv == ASSUME IInv, [Next]_vars PROVE IInv'
<1>1. CASE UNCHANGED vars
  <2>1. UNCHANGED <<t_state, t_cpu, t_child, c_curthread, c_isidle, c_runqueue, c_zombies,
                    c_runqueue_lock, wc_threads, lk, ipi, pc, newstate, list, mig>>
    BY <1>1 DEF vars
  <2>2. Quiet
    BY <2>1 DEF Quiet, Woken
  <2>3. Children' /\ Stacks' /\ OnePlace'
    BY <2>2, QuietKeeps DEF IInv
  <2>4. Control' /\ Migration' /\ NoLostUnidle'
    BY <2>1 DEF IInv, Control, TypeOK, Fits, Migration, NoLostUnidle
  <2>. QED  BY <2>3, <2>4 DEF IInv
<1>2. ASSUME NEW c \in Cpus,
             \/ Caller(c) \/ Waker(c) \/ WakeNext(c) \/ Switch(c)
             \/ Interrupt(c) \/ ClearIpi(c) \/ Hardclock(c) \/ Migrate(c)
      PROVE  IInv'
  <2>1. CASE Caller(c)
    BY <2>1, ForkRunStep, ForkStep, QuietSteps DEF Caller
  <2>2. CASE Waker(c)
    BY <2>2, WakeStep
  <2>3. CASE WakeNext(c)
    BY <2>3, WakeNextStep
  <2>4. CASE Switch(c)
    BY <2>4, QuietSteps, SwitchAwayStep, GoIdleStep, PickNextStep DEF Switch
  <2>5. CASE Interrupt(c) \/ ClearIpi(c)
    BY <2>5, QuietSteps
  <2>6. CASE Hardclock(c)
    BY <2>6, QuietSteps, CountSteps DEF Hardclock
  <2>7. CASE Migrate(c)
    BY <2>7, CountSteps, TakeStep, SendStep, KeepStep DEF Migrate
  <2>. QED  BY <1>2, <2>1, <2>2, <2>3, <2>4, <2>5, <2>6, <2>7
<1>. QED  BY <1>1, <1>2 DEF Next

\* The invariant holds of every reachable state.
THEOREM Invariant == Spec => []IInv
<1>1. Init => IInv
  BY InitInv
<1>2. IInv /\ [Next]_vars => IInv'
  BY NextInv
<1>. QED  BY <1>1, <1>2, PTL DEF Spec

\* Every variable keeps its type.
THEOREM SchedulerTypeCorrect == Spec => []TypeOK
<1>1. IInv => TypeOK
  BY DEF IInv, Control
<1>. QED  BY <1>1, Invariant, PTL

\* A processor's stack is its own, allocated, and no other processor's
\* (thread_switch, exorcise, thread_consider_migration).
THEOREM StacksAreOwn == Spec => []OwnStack
<1>1. IInv => OwnStack
  BY DEF IInv, Stacks, OwnStack
<1>. QED  BY <1>1, Invariant, PTL

\* No thread is lost, and none is in two places (thread_switch,
\* thread_make_runnable, wchan_wakeall, thread_consider_migration).
THEOREM ThreadsInOnePlace == Spec => []OnePlace
<1>1. IInv => OnePlace
  BY DEF IInv
<1>. QED  BY <1>1, Invariant, PTL

\* No processor stays in cpu_idle beside a thread it has not been told of
\* (thread_make_runnable, thread_consider_migration, mainbus_interrupt).
THEOREM NoUnidleLost == Spec => []NoLostUnidle
<1>1. IInv => NoLostUnidle
  BY DEF IInv
<1>. QED  BY <1>1, Invariant, PTL

\* The head of a run queue is not overtaken and not taken away: it is the next to
\* run there (thread_switch, thread_consider_migration).
LEMMA HeadStays ==
  ASSUME NEW q \in Seq(Threads), q # <<>>
  PROVE  /\ \A t \in Threads : Append(q, t) # <<>> /\ Head(Append(q, t)) = Head(q)
         /\ \A r \in Seq(Threads) : q \o r # <<>> /\ Head(q \o r) = Head(q)
         /\ \A n \in 1 .. Len(q) : SubSeq(q, 1, n) # <<>> /\ Head(SubSeq(q, 1, n)) = Head(q)
<1>1. Len(q) \in Nat /\ Len(q) > 0 /\ 1 \in 1 .. Len(q) /\ Head(q) = q[1]
  OBVIOUS
<1>2. ASSUME NEW t \in Threads PROVE Append(q, t) # <<>> /\ Head(Append(q, t)) = Head(q)
  <2>1. Append(q, t) \in Seq(Threads) /\ Len(Append(q, t)) = Len(q) + 1 /\ Append(q, t)[1] = q[1]
    BY <1>1
  <2>. QED  BY <1>1, <2>1
<1>3. ASSUME NEW r \in Seq(Threads) PROVE q \o r # <<>> /\ Head(q \o r) = Head(q)
  <2>1. q \o r \in Seq(Threads) /\ Len(q \o r) = Len(q) + Len(r) /\ Len(r) \in Nat /\ (q \o r)[1] = q[1]
    BY <1>1
  <2>. QED  BY <1>1, <2>1
<1>4. ASSUME NEW n \in 1 .. Len(q) PROVE SubSeq(q, 1, n) # <<>> /\ Head(SubSeq(q, 1, n)) = Head(q)
  <2>1. SubSeq(q, 1, n) \in Seq(Threads) /\ Len(SubSeq(q, 1, n)) = n /\ SubSeq(q, 1, n)[1] = q[1]
    BY <1>1
  <2>. QED  BY <1>1, <2>1
<1>. QED  BY <1>2, <1>3, <1>4
HeadKept ==
  \A c \in Cpus : c_runqueue[c] # <<>> =>
    LET head == Head(c_runqueue[c])
    IN \/ c_runqueue'[c] # <<>> /\ Head(c_runqueue'[c]) = head
       \/ c_curthread'[c] = head /\ t_state'[head] = "run"

LEMMA HeadSteps == ASSUME IInv, Next PROVE HeadKept
<1>1. /\ c_runqueue \in [Cpus -> Seq(Threads)] /\ t_cpu \in [Threads -> Cpus]
      /\ Control /\ Migration /\ Children /\ OnePlace /\ Stacks
  BY DEF IInv, Control, TypeOK
<1>2. ASSUME c_runqueue' = c_runqueue PROVE HeadKept
  BY <1>2 DEF HeadKept
<1>3. ASSUME NEW e \in Cpus, NEW q, c_runqueue' = [c_runqueue EXCEPT ![e] = q],
             c_runqueue[e] # <<>> => q # <<>> /\ Head(q) = Head(c_runqueue[e])
      PROVE  HeadKept
  <2>. SUFFICES ASSUME NEW d \in Cpus, c_runqueue[d] # <<>>
       PROVE  c_runqueue'[d] # <<>> /\ Head(c_runqueue'[d]) = Head(c_runqueue[d])
    BY DEF HeadKept
  <2>. QED  BY <1>1, <1>3
<1>4. ASSUME NEW c \in Cpus, NEW x \in Threads, MakeRunnable(c, x) PROVE HeadKept
  <2>1. /\ c_runqueue' = [c_runqueue EXCEPT ![t_cpu[x]] = Append(c_runqueue[t_cpu[x]], x)]
        /\ t_cpu[x] \in Cpus /\ c_runqueue[t_cpu[x]] \in Seq(Threads)
    BY <1>1, <1>4 DEF MakeRunnable
  <2>. QED  BY <1>3, <2>1, HeadStays
<1>5. PICK c \in Cpus : \/ Caller(c) \/ Waker(c) \/ WakeNext(c) \/ Switch(c)
                        \/ Interrupt(c) \/ ClearIpi(c) \/ Hardclock(c) \/ Migrate(c)
  BY DEF Next
<1>6. c_runqueue[c] \in Seq(Threads)
  BY <1>1
<1>7. CASE ForkRun(c)
  <2>1. t_child[c_curthread[c]] \in Threads
    BY <1>1, <1>7 DEF ForkRun, Control, TypeOK
  <2>. QED  BY <1>4, <1>7, <2>1 DEF ForkRun
<1>8. CASE WakeNext(c)
  <2>1. Head(list[c]) \in Threads
    BY <1>1, <1>8, WakeNextFits
  <2>. QED  BY <1>4, <1>8, <2>1 DEF WakeNext
<1>9. CASE SwitchAway(c)
  <2>1. c_curthread[c] \in Threads
    BY <1>1 DEF Control, TypeOK
  <2>2. CASE newstate[c] = "ready"
    <3>1. c_runqueue' = [c_runqueue EXCEPT ![c] = Append(c_runqueue[c], c_curthread[c])]
      BY <1>9, <2>2 DEF SwitchAway, Place
    <3>. QED  BY <1>3, <1>6, <2>1, <3>1, HeadStays
  <2>3. CASE newstate[c] # "ready"
    <3>1. c_runqueue' = [c_runqueue EXCEPT ![c] = c_runqueue[c]]
      BY <1>9, <2>3 DEF SwitchAway, Place
    <3>. QED  BY <1>3, <3>1
  <2>. QED  BY <2>2, <2>3
<1>10. CASE PickNext(c)
  <2>1. /\ c_curthread' = [c_curthread EXCEPT ![c] = Head(c_runqueue[c])]
        /\ c_runqueue' = [c_runqueue EXCEPT ![c] = Tail(c_runqueue[c])]
        /\ t_state' = [t \in Threads |-> IF t \in On(c_zombies[c]) THEN "none"
                                        ELSE IF t = Head(c_runqueue[c]) THEN "run" ELSE t_state[t]]
        /\ c_runqueue[c] # <<>> /\ pc[c] = "pick"
    BY <1>10 DEF PickNext
  <2>2. Head(c_runqueue[c]) \in Threads
    BY <1>6, <2>1
  <2>3. Head(c_runqueue[c]) \notin On(c_zombies[c])
    <3>1. Head(c_runqueue[c]) \in On(c_runqueue[c])
      BY <1>6, <2>1 DEF On
    <3>2. On(c_runqueue[c]) \subseteq ThreadsOf(c, "ready")
      BY <1>1 DEF OnePlace, Between
    <3>3. On(c_zombies[c]) = ThreadsOf(c, "zombie")
      BY <1>1 DEF OnePlace, Lists
    <3>. QED  BY <3>1, <3>2, <3>3 DEF ThreadsOf
  <2>4. c_curthread'[c] = Head(c_runqueue[c]) /\ t_state'[Head(c_runqueue[c])] = "run"
    BY <1>1, <2>1, <2>2, <2>3 DEF Control, TypeOK
  <2>5. \A d \in Cpus \ {c} : c_runqueue'[d] = c_runqueue[d]
    BY <1>1, <2>1
  <2>. QED  BY <2>4, <2>5 DEF HeadKept
<1>11. CASE Take(c)
  <2>. DEFINE q == c_runqueue[c]
              n == Len(q) - mig[c].to_send
  <2>1. n \in 0 .. Len(q) /\ n > 0 /\ c_runqueue' = [c_runqueue EXCEPT ![c] = SubSeq(q, 1, n)]
    BY <1>1, <1>11, TakeFits
  <2>. HIDE DEF n
  <2>2. n \in 1 .. Len(q)
    BY <2>1
  <2>. QED  BY <1>3, <1>6, <2>1, <2>2, HeadStays
<1>12. CASE Send(c)
  <2>1. PICK i \in Cpus, sent \in Seq(Threads) : c_runqueue' = [c_runqueue EXCEPT ![i] = @ \o sent]
    BY <1>1, <1>12, SendFits
  <2>2. c_runqueue' = [c_runqueue EXCEPT ![i] = c_runqueue[i] \o sent] /\ c_runqueue[i] \in Seq(Threads)
    BY <1>1, <2>1
  <2>. QED  BY <1>3, <2>2, HeadStays
<1>13. CASE Keep(c)
  <2>1. mig[c].victims \in Seq(Threads)
        /\ c_runqueue' = [c_runqueue EXCEPT ![c] = c_runqueue[c] \o mig[c].victims]
    BY <1>1, <1>13, KeepFits
  <2>. QED  BY <1>3, <1>6, <2>1, HeadStays
<1>14. ASSUME \/ Sleep(c) \/ Exit(c) \/ \E t \in Threads : Fork(c, t)
              \/ Waker(c) \/ SwitchBack(c) \/ GoIdle(c) \/ PickNone(c) \/ Unidle(c)
              \/ Interrupt(c) \/ ClearIpi(c) \/ Tick(c) \/ MigrateTick(c) \/ Count(c)
       PROVE  HeadKept
  BY <1>2, <1>14 DEF Sleep, Exit, Fork, Waker, Wake, SwitchBack, GoIdle, PickNone, Unidle, Interrupt,
                     ClearIpi, Tick, MigrateTick, Count, CountQueue, queues
<1>. QED  BY <1>5, <1>7, <1>8, <1>9, <1>10, <1>11, <1>12, <1>13, <1>14
          DEF Caller, Switch, Hardclock, Migrate

THEOREM HeadRunsNext == Spec => HeadIsNext
<1>1. IInv /\ [Next]_vars => [HeadKept]_vars
  BY HeadSteps
<1>2. [HeadKept]_vars <=> [\A c \in Cpus : c_runqueue[c] # <<>> =>
         LET head == Head(c_runqueue[c])
         IN \/ c_runqueue'[c] # <<>> /\ Head(c_runqueue'[c]) = head
            \/ c_curthread'[c] = head /\ t_state'[head] = "run"]_vars
  BY DEF HeadKept
<1>. QED  BY <1>1, <1>2, Invariant, PTL DEF Spec, HeadIsNext
=============================================================================
