-------------------------------- MODULE Bar --------------------------------
(***************************************************************************)
(* The bar of asst1 (kern/asst1/bar.c) run by its driver.  Customers put a *)
(* pointer to their order in a ring, bartenders take orders out, collect   *)
(* the bottles, mix and serve.  A customer waits for its glass on a        *)
(* semaphore lent to its order from a pool; serving returns the semaphore  *)
(* to the pool and signals it.                                             *)
(*                                                                         *)
(* Everything under order_lock or cust_lock is one step, the locks being   *)
(* what Monitor shows; threads are preempted between any two steps.        *)
(***************************************************************************)
EXTENDS Naturals, Sequences, FiniteSets

CONSTANTS Customers,  \* the customer threads, NCUSTOMERS of them
          Bartenders, \* the bartender threads, NBARTENDERS of them
          NBottles,   \* NBOTTLES
          Rounds,     \* drinks per customer (10 in the driver)
          Drinks,     \* what a customer may request (always <<1, 1, 2>> in
                      \* this driver; bar.c is written for any request)
          GoHome,     \* the go_home_order of the last customer
          NoThread    \* a free lock

NC == Cardinality(Customers)
DRINK_COMPLEXITY == 3
Slots  == 1..DRINK_COMPLEXITY
Bottle == 1..NBottles
Order  == Customers \cup {GoHome}

ASSUME BarAssumption ==
  /\ Customers # {} /\ Bartenders # {} /\ Customers \cap Bartenders = {}
  /\ IsFiniteSet(Customers) /\ IsFiniteSet(Bartenders)
  /\ GoHome \notin Customers /\ NoThread \notin Customers \cup Bartenders
  /\ NBottles \in Nat /\ Rounds \in Nat \ {0}
  /\ Drinks \subseteq [Slots -> 0..NBottles]

VARIABLES
  order_queue, order_hi, order_lo, \* the ring of orders
  drink_sem, drink_hi, drink_lo,   \* the pool of semaphores, a ring too
  full_sem, empty_sem,             \* free and taken slots of order_queue
  drink_count,                     \* count of each pool semaphore
  bottle_lock,                     \* holder of each bottle
  order,                           \* the struct barorders
  customers, alldone,              \* customers left; threads gone
  doses,                           \* bottles[].doses
  bar_pc,                          \* the next step of each thread
  asks, n,                         \* each customer: the order it passes, loop index
  job                              \* each bartender: its order, loop indices, doses read

queueVars == <<order_queue, order_hi, order_lo>>
poolVars  == <<drink_sem, drink_hi, drink_lo>>
slotSems  == <<full_sem, empty_sem>>
homeVars  == <<customers, alldone>>
custVars  == <<asks, n>>
barVars   == <<order_queue, order_hi, order_lo, drink_sem, drink_hi, drink_lo, full_sem,
               empty_sem, drink_count, bottle_lock, order, customers, alldone, doses,
               bar_pc, asks, n, job>>

Proceed(t, place) == bar_pc' = [bar_pc EXCEPT ![t] = place]

Empty == [i \in Slots |-> 0]

BarTypeOK ==
  /\ order_queue \in [0..NC-1 -> Order]
  /\ drink_sem \in [0..NC-1 -> 0..NC-1]
  /\ {order_hi, order_lo, drink_hi, drink_lo} \subseteq 0..NC-1
  /\ full_sem \in 0..NC /\ empty_sem \in 0..NC
  /\ drink_count \in [0..NC-1 -> 0..1]
  /\ bottle_lock \in [Bottle -> Bartenders \cup {NoThread}]
  /\ order \in [Order -> [requested : [Slots -> 0..NBottles], glass : [Slots -> 0..NBottles],
                          hold : [Slots -> 0..NBottles], wait : 0..NC-1]]
  /\ customers \in 0..NC /\ alldone \in Nat /\ doses \in [Bottle -> Nat]
  /\ bar_pc \in [Customers \cup Bartenders -> {"choose", "order", "enqueue", "announce", "wait",
       "drink", "home", "leave", "gone", "take", "dequeue", "free", "sort", "bottles", "mix",
       "pour", "return", "serve"}]
  /\ asks \in [Customers -> Order] /\ n \in [Customers -> Nat]
  /\ job \in [Bartenders -> [order : Order, i : 0..DRINK_COMPLEXITY, j : 1..DRINK_COMPLEXITY+1,
                             bottle : 0..NBottles, read : Nat]]

\* bar_open, and run_bar up to the forks.  The orders are on the customers' stacks
\* and not initialised: hold_bottle is what lay there, which may be the pointers of
\* an earlier order.  Of those one value in every slot is enough.
BarInit ==
  /\ order_queue = [i \in 0..NC-1 |-> GoHome] /\ order_hi = 0 /\ order_lo = 0
  /\ drink_sem = [i \in 0..NC-1 |-> i] /\ drink_hi = 0 /\ drink_lo = 0
  /\ full_sem = NC /\ empty_sem = 0
  /\ drink_count = [i \in 0..NC-1 |-> 0]
  /\ bottle_lock = [k \in Bottle |-> NoThread]
  /\ \E old \in 0..NBottles :
       order = [o \in Order |-> [requested |-> Empty, glass |-> Empty,
                                 hold |-> [i \in Slots |-> old], wait |-> 0]]
  /\ customers = NC /\ alldone = 0
  /\ doses = [k \in Bottle |-> 0]
  /\ bar_pc = [t \in Customers \cup Bartenders |-> IF t \in Customers THEN "choose" ELSE "take"]
  /\ asks = [c \in Customers |-> c] /\ n = [c \in Customers |-> 0]
  /\ job = [b \in Bartenders |-> [order |-> GoHome, i |-> 1, j |-> 1, bottle |-> 0, read |-> 0]]

-----------------------------------------------------------------------------
(* Customers: the driver's loop around order_drink *)

\* customer: clear the previous request and choose a drink.
Choose(c) ==
  /\ bar_pc[c] = "choose"
  /\ \E d \in Drinks : order' = [order EXCEPT ![c].requested = d]
  /\ Proceed(c, "order")
  /\ UNCHANGED <<queueVars, poolVars, slotSems, drink_count, bottle_lock, homeVars, doses,
                 custVars, job>>

\* order_drink: P(full_sem)
OrderP(c) ==
  /\ bar_pc[c] = "order" /\ full_sem > 0
  /\ full_sem' = full_sem - 1
  /\ Proceed(c, "enqueue")
  /\ UNCHANGED <<queueVars, poolVars, empty_sem, drink_count, bottle_lock, order, homeVars,
                 doses, custVars, job>>

\* order_drink: the critical section, which queues the order and lends it the
\* next semaphore of the pool.
Enqueue(c) ==
  /\ bar_pc[c] = "enqueue"
  /\ order_queue' = [order_queue EXCEPT ![order_hi] = asks[c]]
  /\ order_hi' = (order_hi + 1) % NC
  /\ order' = [order EXCEPT ![asks[c]].wait = drink_sem[drink_lo]]
  /\ drink_lo' = (drink_lo + 1) % NC
  /\ Proceed(c, "announce")
  /\ UNCHANGED <<order_lo, drink_sem, drink_hi, slotSems, drink_count, bottle_lock, homeVars,
                 doses, custVars, job>>

\* order_drink: V(empty_sem)
Announce(c) ==
  /\ bar_pc[c] = "announce"
  /\ empty_sem' = empty_sem + 1
  /\ Proceed(c, "wait")
  /\ UNCHANGED <<queueVars, poolVars, full_sem, drink_count, bottle_lock, order, homeVars,
                 doses, custVars, job>>

\* order_drink: P(order->wait_drink), and the return: to a drink, or for the
\* order that sends bartenders home to the next one of go_home's loop.
Wait(c) ==
  /\ bar_pc[c] = "wait" /\ drink_count[order[asks[c]].wait] > 0
  /\ drink_count' = [drink_count EXCEPT ![order[asks[c]].wait] = @ - 1]
  /\ IF asks[c] = c
     THEN Proceed(c, "drink") /\ UNCHANGED n
     ELSE /\ n' = [n EXCEPT ![c] = @ + 1]
          /\ Proceed(c, IF n[c] + 1 < Cardinality(Bartenders) THEN "order" ELSE "leave")
  /\ UNCHANGED <<queueVars, poolVars, slotSems, bottle_lock, order, homeVars, doses, asks, job>>

\* customer: empty the glass; another round or home.
Drink(c) ==
  /\ bar_pc[c] = "drink"
  /\ order' = [order EXCEPT ![c].glass = Empty]
  /\ n' = [n EXCEPT ![c] = @ + 1]
  /\ Proceed(c, IF n[c] + 1 < Rounds THEN "choose" ELSE "home")
  /\ UNCHANGED <<queueVars, poolVars, slotSems, drink_count, bottle_lock, homeVars, doses,
                 asks, job>>

\* go_home: count down; the last one orders once per bartender.
Home(c) ==
  /\ bar_pc[c] = "home"
  /\ customers' = customers - 1
  /\ IF customers = 1
     THEN /\ asks' = [asks EXCEPT ![c] = GoHome]
          /\ n' = [n EXCEPT ![c] = 0]
          /\ Proceed(c, "order")
     ELSE Proceed(c, "leave") /\ UNCHANGED custVars
  /\ UNCHANGED <<queueVars, poolVars, slotSems, drink_count, bottle_lock, order, alldone,
                 doses, job>>

\* V(alldone), by customers and bartenders.
Leave(t) ==
  /\ bar_pc[t] = "leave"
  /\ alldone' = alldone + 1
  /\ Proceed(t, "gone")
  /\ UNCHANGED <<queueVars, poolVars, slotSems, drink_count, bottle_lock, order, customers,
                 doses, custVars, job>>

-----------------------------------------------------------------------------
(* Bartenders *)

\* take_order: P(empty_sem)
TakeP(b) ==
  /\ bar_pc[b] = "take" /\ empty_sem > 0
  /\ empty_sem' = empty_sem - 1
  /\ Proceed(b, "dequeue")
  /\ UNCHANGED <<queueVars, poolVars, full_sem, drink_count, bottle_lock, order, homeVars,
                 doses, custVars, job>>

\* take_order: the critical section
Dequeue(b) ==
  /\ bar_pc[b] = "dequeue"
  /\ job' = [job EXCEPT ![b].order = order_queue[order_lo]]
  /\ order_lo' = (order_lo + 1) % NC
  /\ Proceed(b, "free")
  /\ UNCHANGED <<order_queue, order_hi, poolVars, slotSems, drink_count, bottle_lock, order,
                 homeVars, doses, custVars>>

\* take_order: V(full_sem); an order to go home is served without filling it.
Free(b) ==
  /\ bar_pc[b] = "free"
  /\ full_sem' = full_sem + 1
  /\ Proceed(b, IF job[b].order = GoHome THEN "serve" ELSE "sort")
  /\ UNCHANGED <<queueVars, poolVars, empty_sem, drink_count, bottle_lock, order, homeVars,
                 doses, custVars, job>>

\* One comparison, one pass and the whole of the bubble sort, which stops after
\* a pass that swaps nothing (a pass more changes nothing).
Swap(s, i) == IF s[i] > s[i + 1] THEN [s EXCEPT ![i] = s[i + 1], ![i + 1] = s[i]] ELSE s

Pass(s) == LET after[i \in 0..DRINK_COMPLEXITY-1] == IF i = 0 THEN s ELSE Swap(after[i - 1], i)
           IN  after[DRINK_COMPLEXITY - 1]

\* Mutant: the request is not sorted.
SortedNot(s) == s

Sorted(s) == LET after[k \in 0..DRINK_COMPLEXITY] == IF k = 0 THEN s ELSE Pass(after[k - 1])
             IN  after[DRINK_COMPLEXITY]

\* sort_requested_bottles
Sort(b) ==
  /\ bar_pc[b] = "sort"
  /\ order' = [order EXCEPT ![job[b].order].requested = Sorted(@)]
  /\ job' = [job EXCEPT ![b].i = 1, ![b].j = 1]
  /\ Proceed(b, "bottles")
  /\ UNCHANGED <<queueVars, poolVars, slotSems, drink_count, bottle_lock, homeVars, doses,
                 custVars>>

\* take_bottles, one turn of the loop: forget an old hold, and take the bottle
\* unless it is none or the same as the one before.
\* Mutant: the loop that takes bottles misses the first one.
NeededNotFirst(s, i) == s[i] # 0 /\ i > 1 /\ s[i] # s[i - 1]

Needed(s, i) == s[i] # 0 /\ (i = 1 \/ s[i] # s[i - 1])

\* Mutant: bottles held for an earlier order are not forgotten.
ForgetNot(hold, i) == hold

Forget(hold, i) == [hold EXCEPT ![i] = 0]

TakeBottle(b) ==
  LET o == job[b].order
      i == job[b].i
      j == job[b].j
      want  == order[o].requested[i]
      takes == Needed(order[o].requested, i)
      held  == Forget(order[o].hold, i)
  IN /\ bar_pc[b] = "bottles"
     /\ takes => bottle_lock[want] = NoThread
     /\ bottle_lock' = IF takes THEN [bottle_lock EXCEPT ![want] = b] ELSE bottle_lock
     /\ order' = [order EXCEPT ![o].hold = IF takes THEN [held EXCEPT ![j] = want] ELSE held]
     /\ job' = [job EXCEPT ![b].i = IF i = DRINK_COMPLEXITY THEN 1 ELSE i + 1,
                           ![b].j = IF takes THEN j + 1 ELSE j]
     /\ Proceed(b, IF i = DRINK_COMPLEXITY THEN "mix" ELSE "bottles")
     /\ UNCHANGED <<queueVars, poolVars, slotSems, drink_count, homeVars, doses, custVars>>

\* The end of mix's loop; return_bottles then counts down from the last slot.
AfterServing(b) ==
  IF job[b].i = DRINK_COMPLEXITY
  THEN UNCHANGED job /\ Proceed(b, "return")
  ELSE job' = [job EXCEPT ![b].i = @ + 1] /\ Proceed(b, "mix")

\* mix, one turn of the loop: fill the glass, read the doses of the bottle ...
Mix(b) ==
  LET o == job[b].order
      i == job[b].i
      k == order[o].requested[i]
  IN /\ bar_pc[b] = "mix"
     /\ order' = [order EXCEPT ![o].glass[i] = k]
     /\ IF k = 0 THEN AfterServing(b)
        ELSE /\ job' = [job EXCEPT ![b].bottle = k, ![b].read = doses[k]]
             /\ Proceed(b, "pour")
     /\ UNCHANGED <<queueVars, poolVars, slotSems, drink_count, bottle_lock, homeVars, doses,
                    custVars>>

\* ... and write them back, one up.
Pour(b) ==
  /\ bar_pc[b] = "pour"
  /\ doses' = [doses EXCEPT ![job[b].bottle] = job[b].read + 1]
  /\ AfterServing(b)
  /\ UNCHANGED <<queueVars, poolVars, slotSems, drink_count, bottle_lock, order, homeVars,
                 custVars>>

\* return_bottles, one turn of the loop, in reverse order.
ReturnBottle(b) ==
  LET i == job[b].i
      held == order[job[b].order].hold[i]
  IN /\ bar_pc[b] = "return"
     /\ IF held = 0 THEN UNCHANGED bottle_lock
        ELSE bottle_lock' = [bottle_lock EXCEPT ![held] = NoThread]
     /\ job' = [job EXCEPT ![b].i = i - 1]
     /\ Proceed(b, IF i = 1 THEN "serve" ELSE "return")
     /\ UNCHANGED <<queueVars, poolVars, slotSems, drink_count, order, homeVars, doses, custVars>>

\* Mutant: the semaphore signalled is the next of the pool.
ServeNext(b) ==
  LET s == order[job[b].order].wait
  IN /\ bar_pc[b] = "serve"
     /\ drink_sem' = [drink_sem EXCEPT ![drink_hi] = s]
     /\ drink_hi' = (drink_hi + 1) % NC
     /\ drink_count' = [drink_count EXCEPT ![drink_sem[drink_lo]] = @ + 1]
     /\ Proceed(b, IF job[b].order = GoHome THEN "leave" ELSE "take")
     /\ UNCHANGED <<queueVars, drink_lo, slotSems, bottle_lock, order, homeVars, doses,
                    custVars, job>>

\* Mutant: the semaphore comes back to the pool's first slot every time.
ServeStuck(b) ==
  LET s == order[job[b].order].wait
  IN /\ bar_pc[b] = "serve"
     /\ drink_sem' = [drink_sem EXCEPT ![drink_hi] = s]
     /\ drink_count' = [drink_count EXCEPT ![s] = @ + 1]
     /\ Proceed(b, IF job[b].order = GoHome THEN "leave" ELSE "take")
     /\ UNCHANGED <<queueVars, drink_lo, drink_hi, slotSems, bottle_lock, order, homeVars,
                    doses, custVars, job>>

\* serve_order: the critical section, which returns the semaphore to the pool
\* and signals it.
Serve(b) ==
  LET s == order[job[b].order].wait
  IN /\ bar_pc[b] = "serve"
     /\ drink_sem' = [drink_sem EXCEPT ![drink_hi] = s]
     /\ drink_hi' = (drink_hi + 1) % NC
     /\ drink_count' = [drink_count EXCEPT ![s] = @ + 1]
     /\ Proceed(b, IF job[b].order = GoHome THEN "leave" ELSE "take")
     /\ UNCHANGED <<queueVars, drink_lo, slotSems, bottle_lock, order, homeVars, doses,
                    custVars, job>>

-----------------------------------------------------------------------------
(* The system *)

CustomerStep(c) == \/ Choose(c) \/ OrderP(c) \/ Enqueue(c) \/ Announce(c)
                   \/ Wait(c) \/ Drink(c) \/ Home(c) \/ Leave(c)

BartenderStep(b) == \/ TakeP(b) \/ Dequeue(b) \/ Free(b) \/ Sort(b) \/ TakeBottle(b)
                    \/ Mix(b) \/ Pour(b) \/ ReturnBottle(b) \/ Serve(b) \/ Leave(b)

BarNext ==
  \/ \E c \in Customers : CustomerStep(c)
  \/ \E b \in Bartenders : BartenderStep(b)

\* Every runnable thread is scheduled; nothing is fair about who gets a
\* semaphore or a lock.
BarFairness == /\ \A c \in Customers : WF_barVars(CustomerStep(c))
               /\ \A b \in Bartenders : WF_barVars(BartenderStep(b))

BarSpec == BarInit /\ [][BarNext]_barVars /\ BarFairness

-----------------------------------------------------------------------------
(* Properties *)

\* A customer that comes back from order_drink has a glass with exactly what it
\* requested: the signal it consumed was for its own order (order_drink, whose
\* comment says it blocks until the glass is filled).
GlassFilled ==
  \A c \in Customers : bar_pc[c] = "drink" => order[c].glass = order[c].requested

\* return_bottles releases only locks its bartender holds, which lock_release
\* asserts, although hold_bottle keeps pointers of the customer's orders before;
\* and when it is through the bartender holds none.
ReleasesItsOwn ==
  \A b \in Bartenders :
    /\ bar_pc[b] = "return" => LET k == order[job[b].order].hold[job[b].i]
                               IN  k # 0 => bottle_lock[k] = b
    /\ bar_pc[b] \in {"serve", "take", "leave"} => \A k \in Bottle : bottle_lock[k] # b

\* run_bar has counted everybody out and goes on to bar_close.
Closed == alldone = Cardinality(Customers) + Cardinality(Bartenders)

\* The bar is closed as it was opened, so that bar_close destroys only locks
\* nobody holds: no semaphore is left signalled, no order is queued, and the
\* pool has every semaphore back, once.
ClosesClean ==
  Closed =>
    /\ \A k \in Bottle : bottle_lock[k] = NoThread
    /\ full_sem = NC /\ empty_sem = 0 /\ order_hi = order_lo /\ drink_hi = drink_lo
    /\ \A i \in 0..NC-1 : drink_count[i] = 0
    /\ {drink_sem[i] : i \in 0..NC-1} = 0..NC-1

\* When each customer has one drink, every serving is on the count of its bottle
\* when run_bar prints the counts: mix's increments lose no update to another
\* bartender's.
DosesAddUp ==
  Closed /\ Rounds = 1 =>
    \A k \in Bottle :
      doses[k] = Cardinality({x \in Customers \X Slots : order[x[1]].requested[x[2]] = k})

\* Everybody goes home: the bartenders never hold bottles in a circle, no
\* customer waits for a drink already served, and each bartender gets one of the
\* go-home orders.
Closes == <>Closed
=============================================================================
