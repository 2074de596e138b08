--------------------------- MODULE ProcessProofs ---------------------------
(***************************************************************************)
(* The process table of Process.tla for every set of processes, every size *)
(* of the table and every range of pids: pid_alloc's loop ends, pids and   *)
(* entries belong together, no entry is lost or dropped under a waiter,    *)
(* and fork, exit and wait are those of ProcessFamily.                     *)
(***************************************************************************)
EXTENDS Process, Integers, FiniteSetTheorems, WellFoundedInduction, TLAPS

-----------------------------------------------------------------------------
(* The inductive invariant *)

\* An entry is in its pid's slot and an empty slot holds nothing; a parent that is
\* named has run and exists, and is another; what has exited has a status and a
\* parent, and what has not belongs to a process.
EntryIsGood(i) ==
  /\ Slot(pidinfo[i].pid) = i
  /\ pidinfo[i].ppid # pidinfo[i].pid
  /\ pidinfo[i].exited <=> pidinfo[i].status # NoStatus
  /\ pidinfo[i].exited => pidinfo[i].ppid # INVALID_PID
  /\ pidinfo[i].ppid # INVALID_PID => \E p \in Procs : p_pid[p] = pidinfo[i].ppid /\ pc[p] # "new"
  /\ ~pidinfo[i].exited => \E p \in Procs : p_pid[p] = pidinfo[i].pid

Entries == \A i \in Slots : IF Used(i) THEN EntryIsGood(i) ELSE pidinfo[i] = NoInfo

\* nprocs is the number of entries.
Counted == nprocs = Cardinality({i \in Slots : Used(i)})

\* Who runs has a pid; who does not exist has none; only who is in a call of fork
\* or wait remembers its caller.
Idle    == {"none", "exiting"}
Outside == {"none", "new", "run", "exiting"}

PidsByPlace ==
  \A p \in Procs :
    /\ pc[p] \notin {"none", "exiting", "new"} => p_pid[p] # INVALID_PID
    /\ pc[p] \in Idle => p_pid[p] = INVALID_PID
    /\ pc[p] \in Outside => via[p] = "none"

\* A process being made has one maker; it has the pid that the maker was given.
Making == {"alloc", "copy", "unalloc"}

Makers ==
  \A p \in Procs : pc[p] \in Making =>
    /\ newproc[p] \in Users /\ pc[newproc[p]] = "new"
    /\ p_pid[newproc[p]] = IF pc[p] = "alloc" THEN INVALID_PID ELSE kid[p]
    /\ \A r \in Procs : pc[r] \in Making /\ newproc[r] = newproc[p] => r = p

\* A process with a pid has the entry under it, not exited, and no other has.
Owners ==
  \A p \in Procs : p_pid[p] # INVALID_PID =>
    /\ pidinfo[Slot(p_pid[p])].pid = p_pid[p] /\ ~pidinfo[Slot(p_pid[p])].exited
    /\ \A q \in Procs : p_pid[q] = p_pid[p] => q = p

\* k is the pid of a child of p.
ChildOf(k, p) ==
  k \in Pids /\ pidinfo[Slot(k)].pid = k /\ pidinfo[Slot(k)].ppid = p_pid[p]

\* The pid a process remembers is a child's, which still runs while it is being
\* made or the parent sleeps and has exited once the parent is woken.
Remembers(p) == \/ pc[p] \in {"copy", "unalloc", "forked", "asleep", "woken"}
                \/ pc[p] = "wait" /\ via[p] = "common_prog"

Remembered ==
  \A p \in Procs :
    /\ Remembers(p) => ChildOf(kid[p], p)
    /\ pc[p] \in {"copy", "unalloc", "asleep"} => ~pidinfo[Slot(kid[p])].exited
    /\ pc[p] = "woken" => pidinfo[Slot(kid[p])].exited

IInv == TypeOK /\ Entries /\ Counted /\ PidsByPlace /\ Makers /\ Owners /\ Remembered

-----------------------------------------------------------------------------
(* Arithmetic modulo a number *)

\* A number that is q times P and r more leaves r.
LEMMA Remainder ==
  ASSUME NEW P \in Nat \ {0}, NEW q \in Nat, NEW r \in 0..P-1
  PROVE  (P * q + r) % P = r
OBVIOUS

\* Every number is of that form.
LEMMA Division ==
  ASSUME NEW P \in Nat \ {0}, NEW a \in Nat
  PROVE  \E q \in Nat, r \in 0..P-1 : a = P * q + r
<1>1. a \div P \in Nat
  OBVIOUS
<1>2. a % P \in 0..P-1
  OBVIOUS
<1>3. a = P * (a \div P) + (a % P)
  OBVIOUS
<1>. QED  BY <1>1, <1>2, <1>3

\* Going on by less than P goes round at most once.
LEMMA GoingOn ==
  ASSUME NEW P \in Nat \ {0}, NEW a \in Nat, NEW d \in 0..P-1
  PROVE  (a + d) % P = IF (a % P) + d < P THEN (a % P) + d ELSE (a % P) + d - P
<1>1. PICK q \in Nat, r \in 0..P-1 : a = P * q + r
  BY Division
<1>2. a % P = r
  BY <1>1, Remainder
<1>3. CASE r + d < P
  <2>1. a + d = P * q + (r + d) /\ r + d \in 0..P-1
    BY <1>1, <1>3
  <2>. QED  BY <1>2, <1>3, <2>1, Remainder
<1>4. CASE r + d >= P
  <2>1. r + d - P \in 0..P-1 /\ q + 1 \in Nat
    BY <1>4
  <2>2. P * (q + 1) = P * q + P
    OBVIOUS
  <2>3. a + d = P * (q + 1) + (r + d - P)
    BY <1>1, <2>2
  <2>4. (P * (q + 1) + (r + d - P)) % P = r + d - P
    BY <2>1, Remainder
  <2>. QED  BY <1>2, <1>4, <2>3, <2>4
<1>. QED  BY <1>3, <1>4

\* P numbers in a row leave every remainder.
LEMMA EveryRemainder ==
  ASSUME NEW P \in Nat \ {0}, NEW a \in Nat, NEW i \in 0..P-1
  PROVE  \E d \in 0..P-1 : (a + d) % P = i
<1>. DEFINE r == a % P
<1>1. r \in 0..P-1
  OBVIOUS
<1>2. \A d \in 0..P-1 : (a + d) % P = IF r + d < P THEN r + d ELSE r + d - P
  BY GoingOn
<1>. HIDE DEF r
<1>3. CASE r <= i
  <2>1. i - r \in 0..P-1 /\ r + (i - r) = i /\ i < P
    BY <1>1, <1>3
  <2>2. (a + (i - r)) % P = i
    BY <1>2, <2>1
  <2>. QED  BY <2>1, <2>2
<1>4. CASE r > i
  <2>. DEFINE d == i - r + P
  <2>1. d \in 0..P-1 /\ ~(r + d < P) /\ r + d - P = i
    BY <1>1, <1>4
  <2>. HIDE DEF d
  <2>2. (a + d) % P = i
    BY <1>2, <2>1
  <2>. QED  BY <2>1, <2>2
<1>. QED  BY <1>1, <1>3, <1>4

\* A set of numbers that is not empty has a lowest one: of the initial segments
\* below its members one is the smallest.
LEMMA LowestIn ==
  ASSUME NEW S \in SUBSET Nat, S # {}
  PROVE  Min(S) \in S
<1>. DEFINE Upto(x) == 0..x-1
            T == {Upto(x) : x \in S}
<1>1. T \subseteq FiniteSubsetsOf(Nat) /\ T # {}
  <2>1. \A x \in S : IsFiniteSet(Upto(x)) /\ Upto(x) \subseteq Nat
    BY FS_Interval
  <2>. QED  BY <2>1 DEF FiniteSubsetsOf
<1>2. PICK B \in T : \A C \in T : ~ (<<C, B>> \in StrictSubsetOrdering(Nat))
  BY <1>1, FS_StrictSubsetOrderingWellFounded, WFMin
<1>3. PICK x \in S : B = Upto(x)
  BY <1>2
<1>4. \A y \in S : x <= y
  <2>1. SUFFICES ASSUME NEW y \in S, y < x  PROVE FALSE
    OBVIOUS
  <2>2. Upto(y) \subseteq Upto(x) /\ y \in Upto(x) /\ y \notin Upto(y)
    BY <2>1
  <2>3. Upto(y) \in SUBSET Nat /\ Upto(x) \in SUBSET Nat /\ Upto(y) # Upto(x)
    BY <2>2
  <2>4. <<Upto(y), Upto(x)>> \in StrictSubsetOrdering(Nat)
    <3>. HIDE DEF Upto
    <3>. QED  BY <2>2, <2>3 DEF StrictSubsetOrdering
  <2>5. Upto(y) \in T
    OBVIOUS
  <2>. QED  BY <1>2, <1>3, <2>4, <2>5
<1>. QED  BY <1>4 DEF Min

-----------------------------------------------------------------------------
(* Slots and pids *)

\* A pid's slot is a slot.
LEMMA SlotIn == \A k \in Pids \cup {INVALID_PID} : Slot(k) \in Slots
BY ProcessAssumption DEF ProcessAssumption, Slot, Slots, Pids, INVALID_PID, KERNEL_PID, PID_MIN

\* The slots can be counted.
LEMMA SlotsFinite ==
  /\ IsFiniteSet(Slots) /\ Cardinality(Slots) = PROCS_MAX
  /\ \A S \in SUBSET Slots : IsFiniteSet(S) /\ Cardinality(S) \in 0..PROCS_MAX
<1>1. IsFiniteSet(Slots) /\ Cardinality(Slots) = PROCS_MAX
  BY ProcessAssumption, FS_Interval DEF ProcessAssumption, Slots
<1>2. ASSUME NEW S \in SUBSET Slots PROVE IsFiniteSet(S) /\ Cardinality(S) \in 0..PROCS_MAX
  <2>1. IsFiniteSet(S) /\ Cardinality(S) <= PROCS_MAX
    BY <1>1, FS_Subset
  <2>2. Cardinality(S) \in Nat
    BY <2>1, FS_CardinalityType
  <2>. QED  BY <2>1, <2>2, ProcessAssumption DEF ProcessAssumption
<1>. QED  BY <1>1, <1>2

\* pid_alloc's loop comes by every slot: either before nextpid goes back to
\* PID_MIN or after it.
LEMMA LoopComesBy ==
  ASSUME TypeOK, NEW i \in Slots
  PROVE  \E n \in 0..2*PROCS_MAX+4 : Slot(PidAfter(n)) = i
<1>. DEFINE M == PID_MAX - PID_MIN + 1
            a == nextpid - PID_MIN
<1>1. /\ PROCS_MAX \in Nat \ {0} /\ M \in Nat /\ M >= PROCS_MAX
      /\ nextpid \in Nat /\ a \in 0..M-1 /\ nextpid = a + 2 /\ i \in 0..PROCS_MAX-1
      /\ 2*PROCS_MAX+4 \in Nat
  BY ProcessAssumption DEF ProcessAssumption, TypeOK, PID_MIN, Slots
<1>2. \A n \in Nat : PidAfter(n) = 2 + ((a + n) % M)
  BY DEF PidAfter, PID_MIN
<1>. HIDE DEF M, a
<1>3. PICK d \in 0..PROCS_MAX-1 : (nextpid + d) % PROCS_MAX = i
  BY <1>1, EveryRemainder
<1>4. CASE a + d < M
  <2>1. (a + d) % M = a + d
    BY <1>1, <1>4
  <2>2. d \in 0..2*PROCS_MAX+4 /\ d \in Nat
    BY <1>1
  <2>3. PidAfter(d) = 2 + ((a + d) % M)
    BY <1>2, <2>2
  <2>4. PidAfter(d) = nextpid + d
    BY <1>1, <2>1, <2>2, <2>3
  <2>. QED  BY <1>3, <2>2, <2>4 DEF Slot
<1>5. CASE a + d >= M
  <2>1. PICK e \in 0..PROCS_MAX-1 : (2 + e) % PROCS_MAX = i
    BY <1>1, EveryRemainder
  <2>. DEFINE n == M - a + e
  <2>2. n \in 0..2*PROCS_MAX+4 /\ n \in Nat
    BY <1>1, <1>5
  <2>3. a + n = M + e /\ e < M
    BY <1>1
  <2>4. (M + e) % M = e
    <3>1. M \in Nat \ {0} /\ e \in 0..M-1 /\ M * 1 + e = M + e
      BY <1>1, <2>3
    <3>2. (M * 1 + e) % M = e
      BY <3>1, Remainder
    <3>. QED  BY <3>1, <3>2
  <2>5. PidAfter(n) = 2 + e
    BY <1>2, <2>2, <2>3, <2>4
  <2>. HIDE DEF n
  <2>. QED  BY <2>1, <2>2, <2>5 DEF Slot
<1>. QED  BY <1>1, <1>4, <1>5

\* A pid after nextpid is one of a process.
LEMMA PidAfterIn ==
  ASSUME TypeOK, NEW n \in Nat
  PROVE  PidAfter(n) \in PID_MIN..PID_MAX
<1>. DEFINE M == PID_MAX - PID_MIN + 1
            a == nextpid - PID_MIN + n
<1>1. M \in Nat \ {0} /\ a \in Nat /\ PID_MIN + M - 1 = PID_MAX
  BY ProcessAssumption DEF ProcessAssumption, TypeOK, PID_MIN
<1>2. PidAfter(n) = PID_MIN + (a % M)
  BY DEF PidAfter
<1>. HIDE DEF M, a
<1>3. a % M \in 0..M-1
  BY <1>1
<1>. QED  BY <1>1, <1>2, <1>3, ProcessAssumption DEF ProcessAssumption, PID_MIN

\* While the table is not full, it has a free slot.
LEMMA FreeSlot ==
  ASSUME Counted, nprocs # PROCS_MAX
  PROVE  \E i \in Slots : ~Used(i)
<1>. SUFFICES ASSUME \A i \in Slots : Used(i) PROVE FALSE
  OBVIOUS
<1>1. {i \in Slots : Used(i)} = Slots
  OBVIOUS
<1>. QED  BY <1>1, SlotsFinite DEF Counted

\* What pid_alloc's loop ends with: a pid whose slot is free.
LEMMA LoopFinds ==
  ASSUME TypeOK, Counted, nprocs # PROCS_MAX
  PROVE  /\ Turns # {}
         /\ PidAfter(Min(Turns)) \in PID_MIN..PID_MAX
         /\ Slot(PidAfter(Min(Turns))) \in Slots
         /\ ~Used(Slot(PidAfter(Min(Turns))))
<1>1. PICK i \in Slots : ~Used(i)
  BY FreeSlot
<1>2. Turns # {}
  BY <1>1, LoopComesBy DEF Turns
<1>3. Turns \in SUBSET Nat
  BY DEF Turns
<1>4. Min(Turns) \in Turns
  BY <1>2, <1>3, LowestIn
<1>5. Min(Turns) \in Nat /\ ~Used(Slot(PidAfter(Min(Turns))))
  BY <1>4 DEF Turns
<1>6. PidAfter(Min(Turns)) \in PID_MIN..PID_MAX
  BY <1>5, PidAfterIn
<1>. QED  BY <1>2, <1>5, <1>6, SlotIn DEF Pids

-----------------------------------------------------------------------------
(* What the invariant says of the table *)

\* A child is found by its pid and has a number other than null (pi_get, pid_wait).
LEMMA ChildFound ==
  ASSUME TypeOK, Entries, NEW p \in Procs, p_pid[p] # INVALID_PID,
         NEW k \in Pids \cup {INVALID_PID}
  PROVE  /\ IsChild(k, p) <=> ChildOf(k, p)
         /\ ChildOf(k, p) => pi_get(k) = pidinfo[Slot(k)] /\ Slot(k) \in Slots /\ Used(Slot(k))
<1>1. Slot(k) \in Slots
  BY SlotIn
<1>2. CASE k = INVALID_PID
  <2>1. pi_get(k).ppid = INVALID_PID
    BY <1>1, <1>2 DEF pi_get, NoInfo, Entries, Used
  <2>2. INVALID_PID \notin Pids
    BY DEF Pids, INVALID_PID, KERNEL_PID, PID_MIN
  <2>. QED  BY <1>2, <2>1, <2>2 DEF IsChild, ChildOf
<1>3. CASE k # INVALID_PID
  <2>1. pidinfo[Slot(k)].pid # k => pi_get(k).pid # k
    BY <1>3 DEF pi_get, NoInfo
  <2>2. pidinfo[Slot(k)].pid = k => pi_get(k) = pidinfo[Slot(k)] /\ Used(Slot(k))
    BY <1>3 DEF pi_get, Used
  <2>. QED  BY <1>1, <1>3, <2>1, <2>2 DEF IsChild, ChildOf
<1>. QED  BY <1>2, <1>3

\* What the runs check follows from the invariant.
LEMMA InvariantSuffices ==
  IInv => LoopEnds /\ PidIsOwn /\ NothingKeptForNobody /\ ForkNamesAChild /\ WaiterSeesExit
<1>. SUFFICES ASSUME IInv PROVE LoopEnds /\ PidIsOwn /\ NothingKeptForNobody /\ ForkNamesAChild /\ WaiterSeesExit
  OBVIOUS
<1>. USE DEF IInv
<1>1. LoopEnds
  BY LoopFinds DEF LoopEnds, Counted
<1>2. PidIsOwn
  BY DEF PidIsOwn, Owners, pi_get
<1>3. NothingKeptForNobody
  BY DEF NothingKeptForNobody, Entries, EntryIsGood
<1>4. ASSUME NEW p \in Procs, Remembers(p)
      PROVE  IsChild(kid[p], p) /\ pi_get(kid[p]) = pidinfo[Slot(kid[p])]
  <2>1. p_pid[p] # INVALID_PID
    BY <1>4 DEF Remembers, PidsByPlace
  <2>2. ChildOf(kid[p], p) /\ kid[p] \in Pids \cup {INVALID_PID}
    BY <1>4 DEF Remembered, TypeOK
  <2>. QED  BY <2>1, <2>2, ChildFound
<1>5. ForkNamesAChild
  BY <1>4 DEF ForkNamesAChild, Remembers, Remembered
<1>6. WaiterSeesExit
  <2>. SUFFICES ASSUME NEW p \in Procs, pc[p] \in {"asleep", "woken"}
       PROVE  IsChild(kid[p], p) /\ pi_get(kid[p]).exited = (pc[p] = "woken")
    BY DEF WaiterSeesExit
  <2>1. /\ IsChild(kid[p], p) /\ pi_get(kid[p]) = pidinfo[Slot(kid[p])]
    BY <1>4 DEF Remembers
  <2>2. pidinfo[Slot(kid[p])].exited \in BOOLEAN
    BY SlotIn DEF TypeOK, Info
  <2>3. pidinfo[Slot(kid[p])].exited <=> pc[p] = "woken"
    BY DEF Remembered
  <2>4. pidinfo[Slot(kid[p])].exited = (pc[p] = "woken")
    BY <2>2, <2>3
  <2>. QED  BY <2>1, <2>4
<1>. QED  BY <1>1, <1>2, <1>3, <1>5, <1>6

\* The kernel starts with its own entry alone (pid_bootstrap).
LEMMA InitInvariant == Init => IInv
<1>. SUFFICES ASSUME Init PROVE IInv
  OBVIOUS
<1>. USE ProcessAssumption DEF ProcessAssumption, Procs
<1>1. 0 \in Slots /\ 1 \in Slots /\ Slot(1) = 1
  BY DEF Slots, Slot
<1>2. TypeOK
  <2>1. KERNEL_PID \in Pids /\ PID_MIN \in PID_MIN..PID_MAX /\ 1 \in 0..PROCS_MAX
    BY DEF Pids, KERNEL_PID, PID_MIN
  <2>2. NoInfo \in Info /\ pidinfo_create(KERNEL_PID, INVALID_PID) \in Info
    BY <2>1 DEF Info, NoInfo, pidinfo_create
  <2>. QED  BY <2>1, <2>2 DEF TypeOK, Init
<1>3. Entries
  BY <1>1 DEF Entries, EntryIsGood, Used, Init, NoInfo, pidinfo_create, INVALID_PID, KERNEL_PID
<1>4. Counted
  <2>1. {i \in Slots : Used(i)} = {1}
    BY <1>1 DEF Used, Init, NoInfo, pidinfo_create, INVALID_PID, KERNEL_PID
  <2>. QED  BY <2>1, FS_Singleton DEF Counted, Init
<1>5. PidsByPlace
  BY DEF PidsByPlace, Idle, Outside, Init, INVALID_PID, KERNEL_PID
<1>6. Makers
  BY DEF Makers, Making, Init
<1>7. Owners
  BY <1>1 DEF Owners, Init, NoInfo, pidinfo_create, INVALID_PID, KERNEL_PID
<1>8. Remembered
  BY DEF Remembered, Remembers, Init
<1>. QED  BY <1>2, <1>3, <1>4, <1>5, <1>6, <1>7, <1>8 DEF IInv

-----------------------------------------------------------------------------
(* The steps that leave the table as it is *)

\* An entry is good or not for what the table and the pids of processes say.
LEMMA TableKept ==
  ASSUME IInv, UNCHANGED <<pidinfo, nprocs, p_pid>>,
         \A p \in Procs : pc'[p] = "new" => pc[p] = "new" \/ p_pid[p] = INVALID_PID
  PROVE  Entries' /\ Counted' /\ Owners'
<1>. USE DEF IInv
<1>1. Entries'
  BY DEF Entries, EntryIsGood, Used
<1>2. Counted'
  BY DEF Counted, Used
<1>3. Owners'
  BY DEF Owners
<1>. QED  BY <1>1, <1>2, <1>3

\* Who goes on making the same process still is its maker, if nobody new makes any.
LEMMA MakersKept ==
  ASSUME IInv, TypeOK',
         \A r \in Procs : pc'[r] \in Making =>
           /\ pc[r] = pc'[r] \/ (pc[r] = "copy" /\ pc'[r] = "unalloc")
           /\ newproc'[r] = newproc[r] /\ kid'[r] = kid[r]
           /\ pc'[newproc[r]] = pc[newproc[r]] /\ p_pid'[newproc[r]] = p_pid[newproc[r]]
  PROVE  Makers'
<1>. SUFFICES ASSUME NEW r \in Procs, pc'[r] \in Making
     PROVE /\ newproc'[r] \in Users /\ pc'[newproc'[r]] = "new"
           /\ p_pid'[newproc'[r]] = IF pc'[r] = "alloc" THEN INVALID_PID ELSE kid'[r]
           /\ \A t \in Procs : pc'[t] \in Making /\ newproc'[t] = newproc'[r] => t = r
  BY DEF Makers
<1>1. pc[r] \in Making /\ (pc'[r] = "alloc" <=> pc[r] = "alloc")
  BY DEF Making
<1>2. \A t \in Procs : pc'[t] \in Making => pc[t] \in Making /\ newproc'[t] = newproc[t]
  BY DEF Making
<1>. QED  BY <1>1, <1>2 DEF IInv, Makers

\* A process is made: a struct proc that is free becomes a new process of p's
\* (proc_create).
LEMMA ProcCreateStep == ASSUME IInv, NEW p \in Procs, ProcCreate(p) PROVE IInv'
<1>. USE DEF IInv
<1>1. PICK q \in Users, caller \in Callers(p) :
        /\ pc[p] = "run" /\ pc[q] = "none"
        /\ newproc' = [newproc EXCEPT ![p] = q]
        /\ via' = [via EXCEPT ![p] = caller]
        /\ pc' = [pc EXCEPT ![p] = "alloc", ![q] = "new"]
        /\ UNCHANGED <<tableVars, p_pid, kid, status>>
  BY DEF ProcCreate
<1>. q \in Procs /\ p # q
  BY <1>1 DEF Procs
<1>2. TypeOK'
  BY <1>1 DEF TypeOK, Callers, tableVars
<1>3. Entries' /\ Counted' /\ Owners'
  <2>1. p_pid[q] = INVALID_PID
    BY <1>1 DEF PidsByPlace, Idle
  <2>. QED  BY <1>1, <2>1, TableKept DEF tableVars, TypeOK
<1>4. PidsByPlace'
  BY <1>1 DEF PidsByPlace, Idle, Outside, TypeOK
<1>5. Makers'
  <2>. SUFFICES ASSUME NEW r \in Procs, pc'[r] \in Making
       PROVE /\ newproc'[r] \in Users /\ pc'[newproc'[r]] = "new"
             /\ p_pid'[newproc'[r]] = IF pc'[r] = "alloc" THEN INVALID_PID ELSE kid'[r]
             /\ \A t \in Procs : pc'[t] \in Making /\ newproc'[t] = newproc'[r] => t = r
    BY DEF Makers
  <2>1. /\ pc'[p] = "alloc" /\ pc'[q] = "new" /\ newproc'[p] = q
        /\ \A t \in Procs : t # p => newproc'[t] = newproc[t] /\ kid'[t] = kid[t]
        /\ \A t \in Procs : t # p /\ t # q => pc'[t] = pc[t]
        /\ p_pid' = p_pid /\ p_pid[q] = INVALID_PID
    BY <1>1 DEF TypeOK, PidsByPlace, Idle
  <2>2. \A t \in Procs : t # p /\ pc'[t] \in Making =>
          /\ pc[t] \in Making /\ pc'[t] = pc[t] /\ newproc[t] \in Users
          /\ newproc[t] # q /\ newproc[t] # p /\ pc[newproc[t]] = "new"
    BY <1>1, <2>1 DEF Makers, Making
  <2>3. CASE r = p
    BY <2>1, <2>2, <2>3
  <2>4. CASE r # p
    <3>1. newproc[r] \in Procs /\ pc'[newproc[r]] = "new"
      BY <2>1, <2>2, <2>4 DEF Procs
    <3>. QED  BY <2>1, <2>2, <2>4, <3>1 DEF Makers
  <2>. QED  BY <2>3, <2>4
<1>6. Remembered'
  BY <1>1 DEF Remembered, Remembers, ChildOf, TypeOK, tableVars
<1>. QED  BY <1>2, <1>3, <1>4, <1>5, <1>6

\* A process that never had a pid is given up (proc_destroy).
LEMMA GivenUp ==
  ASSUME IInv, NEW p \in Procs, pc[p] = "alloc", Discard(p), nextpid' \in PID_MIN..PID_MAX,
         UNCHANGED <<pidinfo, nprocs, p_pid, status>>
  PROVE  IInv'
<1>. USE DEF IInv
<1>. DEFINE q == newproc[p]
<1>1. q \in Procs /\ p # q /\ pc[q] = "new" /\ p_pid[q] = INVALID_PID /\ q \in Users
  BY DEF Makers, Making, Procs
<1>2. TypeOK'
  BY <1>1 DEF TypeOK, Discard, Return
<1>3. Entries' /\ Counted' /\ Owners'
  BY <1>1, TableKept DEF TypeOK, Discard
<1>4. PidsByPlace'
  BY <1>1 DEF PidsByPlace, Idle, Outside, TypeOK, Discard, Return
<1>5. Makers'
  <2>1. ASSUME NEW r \in Procs, pc'[r] \in Making
        PROVE  /\ pc[r] = pc'[r] /\ newproc'[r] = newproc[r]
               /\ pc'[newproc[r]] = pc[newproc[r]]
    <3>1. pc'[p] = "run" /\ pc'[q] = "none" /\ r # p /\ r # q /\ pc[r] = pc'[r]
      BY <1>1, <2>1 DEF TypeOK, Making, Discard
    <3>2. newproc[r] # q /\ newproc[r] # p /\ newproc[r] \in Procs
      BY <1>1, <2>1, <3>1 DEF Makers, Making, Procs
    <3>. QED  BY <3>1, <3>2 DEF TypeOK, Discard
  <2>. QED  BY <1>2, <2>1, MakersKept DEF Discard, Return, TypeOK, Making
<1>6. Remembered'
  BY <1>1 DEF Remembered, Remembers, ChildOf, TypeOK, Discard, Return
<1>. QED  BY <1>2, <1>3, <1>4, <1>5, <1>6

\* The child starts to run: it has the pid its parent was given (thread_fork).
LEMMA ThreadForkStep == ASSUME IInv, NEW p \in Procs, ThreadFork(p) PROVE IInv'
<1>. USE DEF IInv
<1>. DEFINE q == newproc[p]
<1>1. q \in Procs /\ p # q /\ pc[q] = "new" /\ p_pid[q] = kid[p] /\ q \in Users
  BY DEF Makers, Making, Procs, ThreadFork
<1>2. p_pid[q] # INVALID_PID
  BY <1>1 DEF Remembered, Remembers, ChildOf, Pids, INVALID_PID, KERNEL_PID, PID_MIN, ThreadFork
<1>3. TypeOK'
  BY <1>1 DEF TypeOK, ThreadFork, tableVars
<1>4. Entries' /\ Counted' /\ Owners'
  BY <1>1, TableKept DEF TypeOK, ThreadFork, tableVars
<1>5. PidsByPlace'
  BY <1>1, <1>2 DEF PidsByPlace, Idle, Outside, TypeOK, ThreadFork
<1>6. Makers'
  <2>1. ASSUME NEW r \in Procs, pc'[r] \in Making
        PROVE  /\ pc[r] = pc'[r] /\ newproc'[r] = newproc[r]
               /\ pc'[newproc[r]] = pc[newproc[r]]
    <3>1. pc'[p] = "forked" /\ pc'[q] = "run" /\ r # p /\ r # q /\ pc[r] = pc'[r]
      BY <1>1, <2>1 DEF TypeOK, Making, ThreadFork
    <3>2. newproc[r] # q /\ newproc[r] # p /\ newproc[r] \in Procs
      BY <1>1, <2>1, <3>1 DEF Makers, Making, Procs, ThreadFork
    <3>. QED  BY <3>1, <3>2 DEF TypeOK, ThreadFork
  <2>. QED  BY <1>3, <2>1, MakersKept DEF ThreadFork, tableVars, TypeOK, Making
<1>7. Remembered'
  BY <1>1 DEF Remembered, Remembers, ChildOf, TypeOK, ThreadFork, tableVars
<1>. QED  BY <1>3, <1>4, <1>5, <1>6, <1>7

\* A process goes on by itself: nobody else moves, nobody is being made by it
\* that was not before, and what it remembers from now on is a child's pid.
LEMMA MovesAlone ==
  ASSUME IInv, TypeOK', NEW p \in Procs, NEW s, s # "new",
         UNCHANGED <<pidinfo, nprocs, p_pid, newproc>>, pc' = [pc EXCEPT ![p] = s],
         \A r \in Procs : r # p => via'[r] = via[r] /\ kid'[r] = kid[r],
         s \in Making => s # "alloc" /\ pc[p] = "copy" /\ kid'[p] = kid[p],
         s \in Idle <=> pc[p] \in Idle, pc[p] # "new",
         s \in Outside => via'[p] = "none",
         Remembers(p)' => ChildOf(kid'[p], p),
         s \in {"copy", "unalloc", "asleep"} => ~pidinfo[Slot(kid'[p])].exited,
         s # "woken"
  PROVE  IInv'
<1>. USE DEF IInv
<1>1. Entries' /\ Counted' /\ Owners'
  BY TableKept DEF TypeOK
<1>2. PidsByPlace'
  BY DEF PidsByPlace, Idle, Outside, TypeOK
<1>3. Makers'
  BY DEF Makers, Making, TypeOK
<1>4. Remembered'
  BY DEF Remembered, Remembers, ChildOf, TypeOK
<1>. QED  BY <1>1, <1>2, <1>3, <1>4

\* A call that fails, a fork that is through, a sleep, the end of a thread: the
\* steps of a process that leave the table and other processes alone.
LEMMA AloneStep ==
  ASSUME IInv, NEW p \in Procs,
         \/ CopyFails(p) \/ ThreadForkFails(p) \/ Forked(p) \/ ProcDestroy(p)
         \/ WaitCall(p) \/ WaitFails(p) \/ WaitNoHang(p) \/ WaitSleeps(p)
  PROVE  IInv'
<1>. USE DEF IInv
<1>1. CASE CopyFails(p)
  <2>1. TypeOK'
    BY <1>1 DEF CopyFails, TypeOK, tableVars
  <2>. QED  BY <1>1, <2>1, MovesAlone DEF CopyFails, tableVars, Making, Idle, Outside, Remembered, Remembers
<1>2. CASE ThreadForkFails(p)
  <2>1. TypeOK'
    BY <1>2 DEF ThreadForkFails, TypeOK, tableVars
  <2>2. PICK s \in {"panic", "unalloc"} : pc' = [pc EXCEPT ![p] = s]
    BY <1>2 DEF ThreadForkFails
  <2>3. pc'[p] = s
    BY <2>2 DEF TypeOK
  <2>. QED  BY <1>2, <2>1, <2>2, <2>3, MovesAlone DEF ThreadForkFails, tableVars, Making, Idle, Outside, Remembered, Remembers
<1>3. CASE Forked(p)
  <2>1. TypeOK'
    BY <1>3 DEF Forked, TypeOK, tableVars, Return, INVALID_PID
  <2>2. CASE via[p] = "common_prog"
    BY <1>3, <2>1, <2>2, MovesAlone DEF Forked, tableVars, Making, Idle, Outside, Remembered, Remembers
  <2>3. CASE via[p] # "common_prog"
    <3>1. /\ pc' = [pc EXCEPT ![p] = "run"] /\ Return(p) /\ UNCHANGED <<pidinfo, nprocs, p_pid, newproc>>
          /\ pc[p] = "forked"
      BY <1>3, <2>3 DEF Forked, tableVars
    <3>2. pc'[p] = "run" /\ via'[p] = "none" /\ \A r \in Procs : r # p => via'[r] = via[r] /\ kid'[r] = kid[r]
      BY <3>1 DEF Return, TypeOK
    <3>. QED  BY <2>1, <3>1, <3>2, MovesAlone DEF Making, Idle, Outside, Remembers
  <2>. QED  BY <2>2, <2>3
<1>4. CASE ProcDestroy(p)
  <2>1. TypeOK'
    BY <1>4 DEF ProcDestroy, TypeOK, tableVars
  <2>2. pc'[p] = "none"
    BY <1>4 DEF ProcDestroy, TypeOK
  <2>. QED  BY <1>4, <2>1, <2>2, MovesAlone DEF ProcDestroy, tableVars, Making, Idle, Outside, PidsByPlace, Remembers
<1>5. CASE WaitCall(p)
  <2>1. TypeOK'
    BY <1>5 DEF WaitCall, TypeOK, tableVars
  <2>2. pc'[p] = "wait" /\ via'[p] = "none" /\ \A r \in Procs : r # p => kid'[r] = kid[r]
    BY <1>5 DEF WaitCall, TypeOK, PidsByPlace, Outside
  <2>. QED  BY <1>5, <2>1, <2>2, MovesAlone DEF WaitCall, tableVars, Making, Idle, Outside, Remembers
<1>6. CASE WaitFails(p) \/ WaitNoHang(p)
  <2>1. TypeOK'
    BY <1>6 DEF WaitFails, WaitNoHang, TypeOK, tableVars, Return, INVALID_PID
  <2>2. /\ pc' = [pc EXCEPT ![p] = "run"] /\ Return(p) /\ UNCHANGED <<pidinfo, nprocs, p_pid, newproc>>
        /\ pc[p] = "wait"
    BY <1>6 DEF WaitFails, WaitNoHang, tableVars
  <2>3. pc'[p] = "run" /\ via'[p] = "none" /\ \A r \in Procs : r # p => via'[r] = via[r] /\ kid'[r] = kid[r]
    BY <2>2 DEF Return, TypeOK
  <2>. QED  BY <2>1, <2>2, <2>3, MovesAlone DEF Making, Idle, Outside, Remembers
<1>7. CASE WaitSleeps(p)
  <2>1. TypeOK'
    BY <1>7 DEF WaitSleeps, TypeOK, tableVars
  <2>2. p_pid[p] # INVALID_PID /\ kid[p] \in Pids \cup {INVALID_PID}
    BY <1>7 DEF WaitSleeps, PidsByPlace, TypeOK
  <2>3. ChildOf(kid[p], p) /\ ~pidinfo[Slot(kid[p])].exited
    BY <1>7, <2>2, ChildFound DEF WaitSleeps
  <2>. QED  BY <1>7, <2>1, <2>3, MovesAlone DEF WaitSleeps, tableVars, Making, Idle, Outside
<1>. QED  BY <1>1, <1>2, <1>3, <1>4, <1>5, <1>6, <1>7

\* pid_alloc fails: the new process is given up, nextpid may have moved.
LEMMA AllocFailsStep ==
  ASSUME IInv, NEW p \in Procs, PidAllocFull(p) \/ PidAllocNoMemory(p)
  PROVE  IInv'
<1>1. CASE PidAllocFull(p)
  BY <1>1, GivenUp DEF PidAllocFull, tableVars, IInv, TypeOK
<1>2. CASE PidAllocNoMemory(p)
  <2>1. nextpid' \in PID_MIN..PID_MAX
    BY <1>2, LoopFinds DEF PidAllocNoMemory, IInv
  <2>. QED  BY <1>2, <2>1, GivenUp DEF PidAllocNoMemory
<1>. QED  BY <1>1, <1>2

-----------------------------------------------------------------------------
(* The steps that fill or empty slots *)

InUseAt == {i \in Slots : Used(i)}

\* Counting follows one slot that is filled (pi_put).
LEMMA OneMore ==
  ASSUME TypeOK, Counted, NEW j \in Slots, ~Used(j), nprocs' = nprocs + 1,
         \A i \in Slots : pidinfo'[i].pid # INVALID_PID <=> Used(i) \/ i = j
  PROVE  Counted' /\ nprocs' \in 0..PROCS_MAX
<1>1. {i \in Slots : pidinfo'[i].pid # INVALID_PID} = InUseAt \cup {j}
  BY DEF InUseAt
<1>2. IsFiniteSet(InUseAt) /\ j \notin InUseAt
  BY SlotsFinite DEF InUseAt
<1>3. Cardinality(InUseAt \cup {j}) = Cardinality(InUseAt) + 1
  BY <1>2, FS_AddElement
<1>4. Counted'
  BY <1>1, <1>3 DEF Counted, Used, InUseAt
<1>5. InUseAt \cup {j} \in SUBSET Slots
  BY DEF InUseAt
<1>. QED  BY <1>1, <1>4, <1>5, SlotsFinite DEF Counted, Used

\* Counting follows the slots that are emptied (pi_drop, pid_setexitstatus).
LEMMA SomeLess ==
  ASSUME TypeOK, Counted, NEW D \in SUBSET InUseAt, nprocs' = nprocs - Cardinality(D),
         \A i \in Slots : pidinfo'[i].pid # INVALID_PID <=> Used(i) /\ i \notin D
  PROVE  Counted' /\ nprocs' \in 0..PROCS_MAX
<1>1. {i \in Slots : pidinfo'[i].pid # INVALID_PID} = InUseAt \ D
  BY DEF InUseAt
<1>2. IsFiniteSet(InUseAt) /\ IsFiniteSet(D) /\ InUseAt \cap D = D
  BY SlotsFinite DEF InUseAt
<1>3. Cardinality(InUseAt \ D) = Cardinality(InUseAt) - Cardinality(D)
  BY <1>2, FS_Difference
<1>4. Counted'
  BY <1>1, <1>3 DEF Counted, Used, InUseAt
<1>5. InUseAt \ D \in SUBSET Slots
  BY DEF InUseAt
<1>. QED  BY <1>1, <1>4, <1>5, SlotsFinite DEF Counted, Used

\* A child is entered under a pid whose slot was free (pid_alloc).
LEMMA PidAllocStep == ASSUME IInv, NEW p \in Procs, PidAlloc(p) PROVE IInv'
<1>. USE DEF IInv
<1>. PICK q : q = newproc[p]
  OBVIOUS
<1>. PICK k : k = PidAfter(Min(Turns))
  OBVIOUS
<1>. PICK info : info = pidinfo_create(k, p_pid[p])
  OBVIOUS
<1>1. /\ pc[p] = "alloc" /\ nprocs # PROCS_MAX
      /\ pidinfo' = [pidinfo EXCEPT ![Slot(k)] = info] /\ nprocs' = nprocs + 1
      /\ nextpid' = inc_nextpid(k)
      /\ p_pid' = [p_pid EXCEPT ![q] = k] /\ kid' = [kid EXCEPT ![p] = k]
      /\ pc' = [pc EXCEPT ![p] = "copy"] /\ UNCHANGED <<via, newproc, status>>
  BY DEF PidAlloc, pi_put
<1>2. k \in PID_MIN..PID_MAX /\ Slot(k) \in Slots /\ ~Used(Slot(k))
  BY <1>1, LoopFinds
<1>3. k \in Pids /\ k # INVALID_PID /\ inc_nextpid(k) \in PID_MIN..PID_MAX
  BY <1>2, ProcessAssumption DEF Pids, INVALID_PID, PID_MIN, inc_nextpid, ProcessAssumption
<1>4. q \in Procs /\ q \in Users /\ p # q /\ pc[q] = "new" /\ p_pid[q] = INVALID_PID /\ p_pid[p] # INVALID_PID
  BY <1>1 DEF Makers, Making, Procs, PidsByPlace, Idle
<1>5. /\ info = [pid |-> k, ppid |-> p_pid[p], exited |-> FALSE, status |-> NoStatus]
      /\ info \in Info
  <2>1. info = [pid |-> k, ppid |-> p_pid[p], exited |-> FALSE, status |-> NoStatus]
    BY DEF pidinfo_create, NoInfo
  <2>2. p_pid[p] \in Pids \cup {INVALID_PID}
    BY DEF TypeOK
  <2>. QED  BY <1>3, <2>1, <2>2 DEF Info
<1>6. Counted' /\ nprocs' \in 0..PROCS_MAX
  <2>1. \A i \in Slots : pidinfo'[i].pid # INVALID_PID <=> Used(i) \/ i = Slot(k)
    BY <1>1, <1>2, <1>3, <1>5 DEF Used, TypeOK
  <2>. QED  BY <1>1, <1>2, <2>1, OneMore
<1>7. TypeOK'
  BY <1>1, <1>3, <1>5, <1>6 DEF TypeOK
<1>8. \A r \in Procs : p_pid[r] # k
  BY <1>2, <1>3 DEF Owners, Used
<1>9. /\ pidinfo'[Slot(k)] = info
      /\ \A i \in Slots : i # Slot(k) => pidinfo'[i] = pidinfo[i]
      /\ p_pid'[q] = k /\ \A r \in Procs : r # q => p_pid'[r] = p_pid[r]
      /\ kid'[p] = k /\ \A r \in Procs : r # p => kid'[r] = kid[r]
      /\ pc'[p] = "copy" /\ \A r \in Procs : r # p => pc'[r] = pc[r]
  BY <1>1, <1>2, <1>4 DEF TypeOK
<1>10. Entries'
  <2>1. ASSUME NEW i \in Slots, i # Slot(k), Used(i) PROVE EntryIsGood(i)'
    <3>1. EntryIsGood(i) /\ pidinfo'[i] = pidinfo[i]
      BY <1>9, <2>1 DEF Entries
    <3>2. \A r \in Procs : p_pid[r] # INVALID_PID => p_pid'[r] = p_pid[r]
      BY <1>4, <1>9
    <3>3. pidinfo[i].ppid # INVALID_PID => \E r \in Procs : p_pid'[r] = pidinfo[i].ppid /\ pc'[r] # "new"
      BY <1>9, <3>1, <3>2 DEF EntryIsGood
    <3>4. ~pidinfo[i].exited => \E r \in Procs : p_pid'[r] = pidinfo[i].pid
      BY <2>1, <3>1, <3>2 DEF EntryIsGood, Used
    <3>. QED  BY <3>1, <3>3, <3>4 DEF EntryIsGood
  <2>2. ASSUME NEW i \in Slots, i = Slot(k) PROVE EntryIsGood(i)'
    <3>1. p_pid'[p] = p_pid[p] /\ pc'[p] # "new" /\ p_pid[p] # k
      BY <1>4, <1>8, <1>9
    <3>. QED  BY <1>4, <1>5, <1>9, <2>2, <3>1 DEF EntryIsGood
  <2>3. ASSUME NEW i \in Slots, i # Slot(k), ~Used(i) PROVE pidinfo'[i] = NoInfo
    BY <1>9, <2>3 DEF Entries
  <2>4. ASSUME NEW i \in Slots PROVE IF Used(i)' THEN EntryIsGood(i)' ELSE pidinfo'[i] = NoInfo
    <3>1. CASE i = Slot(k)
      BY <1>3, <1>5, <1>9, <2>2, <3>1 DEF Used
    <3>2. CASE i # Slot(k)
      BY <1>9, <2>1, <2>3, <3>2 DEF Used
    <3>. QED  BY <3>1, <3>2
  <2>. QED  BY <2>4 DEF Entries
<1>11. PidsByPlace'
  BY <1>1, <1>3, <1>4, <1>9 DEF PidsByPlace, Idle, Outside
<1>12. Makers'
  <2>. SUFFICES ASSUME NEW r \in Procs, pc'[r] \in Making
       PROVE /\ newproc[r] \in Users /\ pc'[newproc[r]] = "new"
             /\ p_pid'[newproc[r]] = IF pc'[r] = "alloc" THEN INVALID_PID ELSE kid'[r]
             /\ \A t \in Procs : pc'[t] \in Making /\ newproc[t] = newproc[r] => t = r
    BY <1>1 DEF Makers
  <2>1. \A t \in Procs : pc'[t] \in Making => pc[t] \in Making
    BY <1>1, <1>9 DEF Making
  <2>2. newproc[r] \in Users /\ newproc[r] \in Procs /\ pc[newproc[r]] = "new"
    BY <2>1 DEF Makers, Procs
  <2>3. newproc[r] # p
    BY <1>1, <2>2
  <2>4. r # p => newproc[r] # q
    BY <1>1, <2>1 DEF Makers, Making
  <2>5. p_pid'[newproc[r]] = IF pc'[r] = "alloc" THEN INVALID_PID ELSE kid'[r]
    <3>1. CASE r = p
      BY <1>9, <3>1
    <3>2. CASE r # p
      BY <1>9, <2>1, <2>2, <2>4, <3>2 DEF Makers
    <3>. QED  BY <3>1, <3>2
  <2>. QED  BY <1>9, <2>1, <2>2, <2>3, <2>5 DEF Makers
<1>13. Owners'
  <2>. SUFFICES ASSUME NEW r \in Procs, p_pid'[r] # INVALID_PID
       PROVE  /\ pidinfo'[Slot(p_pid'[r])].pid = p_pid'[r] /\ ~pidinfo'[Slot(p_pid'[r])].exited
              /\ \A t \in Procs : p_pid'[t] = p_pid'[r] => t = r
    BY DEF Owners
  <2>1. CASE r = q
    BY <1>5, <1>8, <1>9, <2>1
  <2>2. CASE r # q
    <3>1. p_pid'[r] = p_pid[r] /\ pidinfo[Slot(p_pid[r])].pid = p_pid[r] /\ p_pid[r] # INVALID_PID
      BY <1>9, <2>2 DEF Owners
    <3>2. Slot(p_pid[r]) # Slot(k) /\ Slot(p_pid[r]) \in Slots
      BY <1>2, <3>1, SlotIn DEF Used, TypeOK
    <3>. QED  BY <1>8, <1>9, <3>1, <3>2 DEF Owners
  <2>. QED  BY <2>1, <2>2
<1>14. Remembered'
  <2>1. ASSUME NEW r \in Procs, r # p, Remembers(r)
        PROVE  /\ pidinfo'[Slot(kid[r])] = pidinfo[Slot(kid[r])] /\ p_pid'[r] = p_pid[r]
               /\ ChildOf(kid[r], r)
    <3>1. ChildOf(kid[r], r) /\ r # q
      BY <1>4, <2>1 DEF Remembered, Remembers
    <3>2. Slot(kid[r]) \in Slots /\ Used(Slot(kid[r]))
      BY <3>1, SlotIn DEF ChildOf, Used, Pids, INVALID_PID, KERNEL_PID, PID_MIN
    <3>. QED  BY <1>2, <1>9, <3>1, <3>2
  <2>2. ASSUME NEW r \in Procs, r # p
        PROVE  /\ Remembers(r)' => /\ kid'[r] \in Pids /\ pidinfo'[Slot(kid'[r])].pid = kid'[r]
                                   /\ pidinfo'[Slot(kid'[r])].ppid = p_pid'[r]
               /\ pc'[r] \in {"copy", "unalloc", "asleep"} => ~pidinfo'[Slot(kid'[r])].exited
               /\ pc'[r] = "woken" => pidinfo'[Slot(kid'[r])].exited
    <3>1. kid'[r] = kid[r] /\ pc'[r] = pc[r] /\ via'[r] = via[r]
      BY <1>1, <1>9, <2>2
    <3>2. Remembers(r)' <=> Remembers(r)
      BY <3>1 DEF Remembers
    <3>3. Remembers(r) \/ pc'[r] \notin {"copy", "unalloc", "asleep", "woken"}
      BY <3>1 DEF Remembers
    <3>4. CASE ~Remembers(r)
      BY <3>2, <3>3, <3>4
    <3>5. CASE Remembers(r)
      BY <2>1, <2>2, <3>1, <3>5 DEF Remembered, ChildOf
    <3>. QED  BY <3>4, <3>5
  <2>3. /\ kid'[p] \in Pids /\ pidinfo'[Slot(kid'[p])].pid = kid'[p]
        /\ pidinfo'[Slot(kid'[p])].ppid = p_pid'[p]
        /\ pc'[p] = "copy" /\ ~pidinfo'[Slot(kid'[p])].exited
    BY <1>3, <1>4, <1>5, <1>9
  <2>. QED  BY <2>2, <2>3 DEF Remembered, ChildOf
<1>. QED  BY <1>6, <1>7, <1>10, <1>11, <1>12, <1>13, <1>14

\* A child's entry is dropped by its parent, who remembers nothing more: no other
\* entry, owner or waiter is touched (pi_drop).
LEMMA DropKeeps ==
  ASSUME IInv, NEW p \in Procs, NEW k \in Pids, ChildOf(k, p), p_pid[p] # INVALID_PID,
         pi_drop(k),
         \A r \in Procs : \/ p_pid[r] # k /\ p_pid'[r] = p_pid[r]
                          \/ p_pid[r] = k /\ p_pid'[r] = INVALID_PID /\ pc[r] = "new",
         \A r \in Procs : pc'[r] = "new" => pc[r] = "new",
         \A r \in Procs : \/ pc'[r] = pc[r] /\ via'[r] = via[r] /\ kid'[r] = kid[r] /\ r # p
                          \/ pc'[r] \in {"none", "run"}
  PROVE  Entries' /\ Counted' /\ nprocs' \in 0..PROCS_MAX /\ Owners' /\ Remembered'
<1>. USE DEF IInv
<1>1. /\ Slot(k) \in Slots /\ Used(Slot(k)) /\ k # INVALID_PID
      /\ pidinfo[Slot(k)].pid = k /\ pidinfo[Slot(k)].ppid = p_pid[p]
  BY SlotIn DEF ChildOf, Used, Pids, INVALID_PID, KERNEL_PID, PID_MIN
<1>2. /\ pidinfo'[Slot(k)] = NoInfo /\ NoInfo.pid = INVALID_PID
      /\ \A i \in Slots : i # Slot(k) => pidinfo'[i] = pidinfo[i]
      /\ nprocs' = nprocs - 1
  BY <1>1 DEF pi_drop, TypeOK, NoInfo
<1>3. Counted' /\ nprocs' \in 0..PROCS_MAX
  <2>1. \A i \in Slots : pidinfo'[i].pid # INVALID_PID <=> Used(i) /\ i \notin {Slot(k)}
    BY <1>2 DEF Used
  <2>2. {Slot(k)} \in SUBSET InUseAt /\ Cardinality({Slot(k)}) = 1
    BY <1>1, FS_Singleton DEF InUseAt
  <2>. QED  BY <1>2, <2>1, <2>2, SomeLess
<1>4. Entries'
  <2>1. ASSUME NEW i \in Slots, i # Slot(k), Used(i) PROVE EntryIsGood(i)'
    <3>1. EntryIsGood(i) /\ pidinfo'[i] = pidinfo[i] /\ pidinfo[i].pid # k
      BY <1>2, <2>1 DEF Entries, EntryIsGood
    <3>2. pidinfo[i].ppid # INVALID_PID => \E r \in Procs : p_pid'[r] = pidinfo[i].ppid /\ pc'[r] # "new"
      BY <3>1 DEF EntryIsGood
    <3>3. ~pidinfo[i].exited => \E r \in Procs : p_pid'[r] = pidinfo[i].pid
      BY <3>1 DEF EntryIsGood
    <3>. QED  BY <3>1, <3>2, <3>3 DEF EntryIsGood
  <2>2. ASSUME NEW i \in Slots PROVE IF Used(i)' THEN EntryIsGood(i)' ELSE pidinfo'[i] = NoInfo
    <3>1. CASE i = Slot(k)
      BY <1>2, <3>1 DEF Used
    <3>2. CASE i # Slot(k)
      BY <1>2, <2>1, <3>2 DEF Used, Entries
    <3>. QED  BY <3>1, <3>2
  <2>. QED  BY <2>2 DEF Entries
<1>5. Owners'
  <2>. SUFFICES ASSUME NEW r \in Procs, p_pid'[r] # INVALID_PID
       PROVE  /\ pidinfo'[Slot(p_pid'[r])].pid = p_pid'[r] /\ ~pidinfo'[Slot(p_pid'[r])].exited
              /\ \A t \in Procs : p_pid'[t] = p_pid'[r] => t = r
    BY DEF Owners
  <2>1. p_pid'[r] = p_pid[r] /\ p_pid[r] # k /\ p_pid[r] # INVALID_PID
    OBVIOUS
  <2>2. /\ pidinfo[Slot(p_pid[r])].pid = p_pid[r] /\ ~pidinfo[Slot(p_pid[r])].exited
        /\ \A t \in Procs : p_pid[t] = p_pid[r] => t = r
    BY <2>1 DEF Owners
  <2>3. Slot(p_pid[r]) # Slot(k) /\ Slot(p_pid[r]) \in Slots
    BY <1>1, <2>1, <2>2, SlotIn DEF TypeOK
  <2>. QED  BY <1>2, <2>1, <2>2, <2>3
<1>6. Remembered'
  <2>. SUFFICES ASSUME NEW r \in Procs
       PROVE  /\ Remembers(r)' => /\ kid'[r] \in Pids /\ pidinfo'[Slot(kid'[r])].pid = kid'[r]
                                  /\ pidinfo'[Slot(kid'[r])].ppid = p_pid'[r]
              /\ pc'[r] \in {"copy", "unalloc", "asleep"} => ~pidinfo'[Slot(kid'[r])].exited
              /\ pc'[r] = "woken" => pidinfo'[Slot(kid'[r])].exited
    BY DEF Remembered, ChildOf
  <2>1. CASE ~Remembers(r)'
    BY <2>1 DEF Remembers
  <2>2. CASE Remembers(r)'
    <3>1. r # p /\ pc'[r] = pc[r] /\ via'[r] = via[r] /\ kid'[r] = kid[r] /\ Remembers(r)
      BY <2>2 DEF Remembers
    <3>2. ChildOf(kid[r], r) /\ p_pid[r] # INVALID_PID /\ p_pid'[r] = p_pid[r]
      BY <3>1 DEF Remembered, Remembers, PidsByPlace
    <3>3. p_pid[r] # p_pid[p]
      BY <3>1, <3>2 DEF Owners
    <3>4. Slot(kid[r]) # Slot(k) /\ Slot(kid[r]) \in Slots
      BY <1>1, <3>2, <3>3, SlotIn DEF ChildOf
    <3>. QED  BY <1>2, <3>1, <3>2, <3>4 DEF Remembered, ChildOf
  <2>. QED  BY <2>1, <2>2
<1>. QED  BY <1>3, <1>4, <1>5, <1>6

\* An entry that is dropped stays in type, as an empty slot.
LEMMA DropTyped ==
  ASSUME TypeOK, NEW k \in Pids, pi_drop(k)
  PROVE  pidinfo' \in [Slots -> Info]
<1>1. NoInfo \in Info
  BY DEF NoInfo, Info
<1>. QED  BY <1>1 DEF pi_drop, TypeOK

\* Nobody has the pid of a child that has exited.
LEMMA ExitedIsNobody ==
  ASSUME IInv, NEW k \in Pids, pidinfo[Slot(k)].exited
  PROVE  \A r \in Procs : p_pid[r] # k
BY DEF IInv, Owners, Pids, INVALID_PID, KERNEL_PID, PID_MIN

\* A parent waits for its child's status and forgets the child (pid_wait).
LEMMA WaitReapsStep == ASSUME IInv, NEW p \in Procs, WaitReaps(p) PROVE IInv'
<1>. USE DEF IInv
<1>1. /\ pc[p] \in {"wait", "woken"} /\ p_pid[p] # INVALID_PID
      /\ ChildOf(kid[p], p) /\ pidinfo[Slot(kid[p])].exited
  <2>1. CASE pc[p] = "woken"
    BY <2>1 DEF Remembered, Remembers, PidsByPlace
  <2>2. CASE pc[p] = "wait" /\ IsChild(kid[p], p) /\ pi_get(kid[p]).exited
    <3>1. p_pid[p] # INVALID_PID /\ kid[p] \in Pids \cup {INVALID_PID}
      BY <2>2 DEF PidsByPlace, TypeOK
    <3>. QED  BY <2>2, <3>1, ChildFound
  <2>. QED  BY <2>1, <2>2 DEF WaitReaps
<1>. PICK k \in Pids : k = kid[p]
  BY <1>1 DEF ChildOf
<1>2. /\ status' = [status EXCEPT ![p] = pidinfo[Slot(k)].status] /\ pi_drop(k)
      /\ pc' = [pc EXCEPT ![p] = "run"] /\ Return(p) /\ UNCHANGED <<nextpid, p_pid, newproc>>
  BY DEF WaitReaps
<1>3. pc'[p] = "run" /\ via'[p] = "none"
      /\ \A r \in Procs : r # p => pc'[r] = pc[r] /\ via'[r] = via[r] /\ kid'[r] = kid[r]
  BY <1>2 DEF Return, TypeOK
<1>4. Entries' /\ Counted' /\ nprocs' \in 0..PROCS_MAX /\ Owners' /\ Remembered'
  <2>1. \A r \in Procs : p_pid[r] # k /\ p_pid'[r] = p_pid[r]
    BY <1>1, <1>2, ExitedIsNobody
  <2>. QED  BY <1>1, <1>2, <1>3, <2>1, DropKeeps
<1>5. TypeOK'
  <2>1. pidinfo[Slot(k)].status \in Statuses \cup {NoStatus}
    BY SlotIn DEF TypeOK, Info
  <2>. QED  BY <1>2, <1>4, <2>1, DropTyped DEF TypeOK, Return, INVALID_PID
<1>6. PidsByPlace'
  BY <1>1, <1>2, <1>3 DEF PidsByPlace, Idle, Outside
<1>7. Makers'
  <2>1. ASSUME NEW r \in Procs, pc'[r] \in Making
        PROVE  pc[r] = pc'[r] /\ pc'[newproc[r]] = pc[newproc[r]] /\ r # p
    <3>1. r # p /\ pc[r] = pc'[r]
      BY <1>3, <2>1 DEF Making
    <3>2. newproc[r] # p /\ newproc[r] \in Procs
      BY <1>1, <2>1, <3>1 DEF Makers, Procs
    <3>. QED  BY <1>3, <3>1, <3>2
  <2>. QED  BY <1>2, <1>3, <1>5, <2>1, MakersKept
<1>. QED  BY <1>4, <1>5, <1>6, <1>7

\* A fork is undone: the child's entry is dropped and the child given up
\* (pid_unalloc, proc_destroy).
LEMMA PidUnallocStep == ASSUME IInv, NEW p \in Procs, PidUnalloc(p) PROVE IInv'
<1>. USE DEF IInv
<1>. PICK q : q = newproc[p]
  OBVIOUS
<1>1. /\ pc[p] = "unalloc" /\ ChildOf(kid[p], p) /\ p_pid[p] # INVALID_PID
      /\ q \in Procs /\ q \in Users /\ p # q /\ pc[q] = "new" /\ p_pid[q] = kid[p]
  BY DEF PidUnalloc, Makers, Making, Procs, PidsByPlace, Remembered, Remembers
<1>. PICK k \in Pids : k = kid[p]
  BY <1>1 DEF ChildOf
<1>2. /\ pi_drop(k) /\ p_pid' = [p_pid EXCEPT ![q] = INVALID_PID]
      /\ pc' = [pc EXCEPT ![p] = "run", ![q] = "none"]
      /\ newproc' = [newproc EXCEPT ![p] = Nobody] /\ Return(p) /\ UNCHANGED <<nextpid, status>>
  BY DEF PidUnalloc, Discard
<1>3. /\ pc'[p] = "run" /\ pc'[q] = "none" /\ via'[p] = "none" /\ p_pid'[q] = INVALID_PID
      /\ \A r \in Procs : r # p /\ r # q => pc'[r] = pc[r]
      /\ \A r \in Procs : r # p => via'[r] = via[r] /\ kid'[r] = kid[r] /\ newproc'[r] = newproc[r]
      /\ \A r \in Procs : r # q => p_pid'[r] = p_pid[r]
  BY <1>1, <1>2 DEF Return, TypeOK
<1>4. Entries' /\ Counted' /\ nprocs' \in 0..PROCS_MAX /\ Owners' /\ Remembered'
  <2>1. k # INVALID_PID
    BY DEF Pids, INVALID_PID, KERNEL_PID, PID_MIN
  <2>2. \A r \in Procs : r # q => p_pid[r] # k
    BY <1>1, <2>1 DEF Owners
  <2>3. ASSUME NEW r \in Procs
        PROVE  \/ p_pid[r] # k /\ p_pid'[r] = p_pid[r]
               \/ p_pid[r] = k /\ p_pid'[r] = INVALID_PID /\ pc[r] = "new"
    BY <1>1, <1>3, <2>2
  <2>4. ASSUME NEW r \in Procs
        PROVE  \/ pc'[r] = pc[r] /\ via'[r] = via[r] /\ kid'[r] = kid[r] /\ r # p
               \/ pc'[r] \in {"none", "run"}
    BY <1>3
  <2>5. ASSUME NEW r \in Procs, pc'[r] = "new" PROVE pc[r] = "new"
    BY <1>3, <2>5
  <2>6. ChildOf(k, p) /\ p_pid[p] # INVALID_PID /\ pi_drop(k)
    BY <1>1, <1>2
  <2>. QED  BY <2>3, <2>4, <2>5, <2>6, DropKeeps
<1>5. TypeOK'
  BY <1>2, <1>4, DropTyped DEF TypeOK, Return, INVALID_PID
<1>6. PidsByPlace'
  BY <1>1, <1>3 DEF PidsByPlace, Idle, Outside
<1>7. Makers'
  <2>1. ASSUME NEW r \in Procs, pc'[r] \in Making
        PROVE  /\ pc[r] = pc'[r] /\ newproc'[r] = newproc[r] /\ kid'[r] = kid[r]
               /\ pc'[newproc[r]] = pc[newproc[r]] /\ p_pid'[newproc[r]] = p_pid[newproc[r]]
    <3>1. r # p /\ r # q /\ pc[r] = pc'[r]
      BY <1>3, <2>1 DEF Making
    <3>2. newproc[r] # q /\ newproc[r] # p /\ newproc[r] \in Procs
      BY <1>1, <2>1, <3>1 DEF Makers, Making, Procs
    <3>. QED  BY <1>3, <3>1, <3>2
  <2>. QED  BY <1>5, <2>1, MakersKept
<1>. QED  BY <1>4, <1>5, <1>6, <1>7

\* waittest disowns a child: its entry goes if it has exited, or else is nobody's
\* (pid_disown).
LEMMA PidDisownStep == ASSUME IInv, NEW p \in Procs, PidDisown(p) PROVE IInv'
<1>. USE DEF IInv
<1>1. PICK k \in PID_MIN..PID_MAX :
        /\ IsChild(k, p)
        /\ IF pi_get(k).exited THEN pi_drop(k)
           ELSE /\ pidinfo' = [pidinfo EXCEPT ![Slot(k)].ppid = INVALID_PID]
                /\ UNCHANGED nprocs
  BY DEF PidDisown
<1>2. pc[p] = "run" /\ UNCHANGED <<nextpid, p_pid, pc, via, newproc, kid, status>>
  BY DEF PidDisown
<1>3. p_pid[p] # INVALID_PID /\ k \in Pids
  BY <1>2 DEF PidsByPlace, Pids
<1>4. ChildOf(k, p) /\ pi_get(k) = pidinfo[Slot(k)] /\ Slot(k) \in Slots /\ Used(Slot(k))
  BY <1>1, <1>3, ChildFound
<1>5. PidsByPlace'
  BY <1>2 DEF PidsByPlace, Idle, Outside
<1>6. Makers'
  BY <1>2 DEF Makers, Making
<1>7. CASE pidinfo[Slot(k)].exited
  <2>1. pi_drop(k)
    BY <1>1, <1>4, <1>7
  <2>2. \A r \in Procs : p_pid[r] # k /\ p_pid'[r] = p_pid[r]
    BY <1>2, <1>3, <1>7, ExitedIsNobody
  <2>3. Entries' /\ Counted' /\ nprocs' \in 0..PROCS_MAX /\ Owners' /\ Remembered'
    BY <1>2, <1>3, <1>4, <2>1, <2>2, DropKeeps
  <2>4. TypeOK'
    BY <1>2, <1>3, <2>1, <2>3, DropTyped DEF TypeOK
  <2>. QED  BY <1>5, <1>6, <2>3, <2>4
<1>8. CASE ~pidinfo[Slot(k)].exited
  <2>1. /\ pidinfo' = [pidinfo EXCEPT ![Slot(k)].ppid = INVALID_PID] /\ UNCHANGED nprocs
    BY <1>1, <1>4, <1>8
  <2>2. /\ pidinfo'[Slot(k)] = [pidinfo[Slot(k)] EXCEPT !.ppid = INVALID_PID]
        /\ \A i \in Slots : i # Slot(k) => pidinfo'[i] = pidinfo[i]
    BY <1>4, <2>1 DEF TypeOK
  <2>3. pidinfo[Slot(k)] \in Info
    BY <1>4 DEF TypeOK
  <2>4. /\ pidinfo'[Slot(k)].pid = k /\ pidinfo'[Slot(k)].ppid = INVALID_PID
        /\ pidinfo'[Slot(k)].exited = pidinfo[Slot(k)].exited
        /\ pidinfo'[Slot(k)].status = pidinfo[Slot(k)].status
    BY <1>4, <2>2, <2>3 DEF Info, ChildOf
  <2>5. TypeOK'
    <3>1. pidinfo'[Slot(k)] \in Info
      BY <2>2, <2>3 DEF Info
    <3>. QED  BY <1>2, <2>1, <3>1 DEF TypeOK
  <2>6. \A i \in Slots : Used(i)' <=> Used(i)
    BY <1>4, <2>2, <2>4 DEF Used, ChildOf
  <2>7. Counted'
    <3>1. {i \in Slots : pidinfo'[i].pid # INVALID_PID} = {i \in Slots : Used(i)}
      BY <2>6 DEF Used
    <3>. QED  BY <2>1, <3>1 DEF Counted, Used
  <2>8. Entries'
    <3>1. ASSUME NEW i \in Slots, i # Slot(k) PROVE IF Used(i)' THEN EntryIsGood(i)' ELSE pidinfo'[i] = NoInfo
      BY <1>2, <2>2, <2>6, <3>1 DEF Entries, EntryIsGood
    <3>2. ASSUME NEW i \in Slots, i = Slot(k) PROVE IF Used(i)' THEN EntryIsGood(i)' ELSE pidinfo'[i] = NoInfo
      <4>1. EntryIsGood(i) /\ Used(i)' /\ pidinfo[i].pid = k /\ k # INVALID_PID
        BY <1>3, <1>4, <2>6, <3>2 DEF Entries, ChildOf, Used
      <4>2. EntryIsGood(i)'
        BY <1>2, <1>8, <2>4, <3>2, <4>1 DEF EntryIsGood
      <4>. QED  BY <4>1, <4>2
    <3>. QED  BY <3>1, <3>2 DEF Entries
  <2>9. Owners'
    <3>1. ASSUME NEW r \in Procs
          PROVE  /\ pidinfo'[Slot(p_pid[r])].pid = pidinfo[Slot(p_pid[r])].pid
                 /\ pidinfo'[Slot(p_pid[r])].exited = pidinfo[Slot(p_pid[r])].exited
      BY <1>4, <2>2, <2>4, SlotIn DEF TypeOK, ChildOf
    <3>. QED  BY <1>2, <3>1 DEF Owners
  <2>10. Remembered'
    <3>1. ASSUME NEW r \in Procs, Remembers(r)
          PROVE  pidinfo'[Slot(kid[r])] = pidinfo[Slot(kid[r])]
      <4>1. ChildOf(kid[r], r) /\ r # p /\ p_pid[r] # INVALID_PID
        BY <1>2, <3>1 DEF Remembered, Remembers, PidsByPlace
      <4>2. p_pid[r] # p_pid[p]
        BY <1>3, <4>1 DEF Owners
      <4>3. Slot(kid[r]) # Slot(k) /\ Slot(kid[r]) \in Slots
        BY <1>4, <4>1, <4>2, SlotIn DEF ChildOf
      <4>. QED  BY <2>2, <4>3
    <3>. QED  BY <1>2, <3>1 DEF Remembered, Remembers, ChildOf
  <2>. QED  BY <1>5, <1>6, <2>5, <2>7, <2>8, <2>9, <2>10
<1>. QED  BY <1>7, <1>8

\* A process ends: its entry keeps its status for a parent that is there, its
\* children are disowned, who waits for it is woken (pid_setexitstatus).
LEMMA PidSetExitStatusStep == ASSUME IInv, NEW p \in Procs, PidSetExitStatus(p) PROVE IInv'
<1>. USE DEF IInv
<1>. PICK us : us = p_pid[p]
  OBVIOUS
<1>. DEFINE D == {i \in Slots : Used(i) /\ pidinfo'[i] = NoInfo}
<1>1. PICK s \in Statuses : pidinfo' = [i \in Slots |-> AfterExit(pidinfo[i], us, s)]
  BY DEF PidSetExitStatus
<1>2. /\ pc[p] = "run" /\ nprocs' = nprocs - Cardinality(D)
      /\ pc' = [w \in Procs |-> IF w = p THEN "exiting"
                                ELSE IF w \in Broadcast(us) THEN "woken" ELSE pc[w]]
      /\ p_pid' = [p_pid EXCEPT ![p] = INVALID_PID]
      /\ status' = [status EXCEPT ![p] = NoStatus]
      /\ UNCHANGED <<nextpid, via, newproc, kid>>
  BY DEF PidSetExitStatus
<1>3. us \in Pids /\ us # INVALID_PID /\ s # NoStatus
  BY <1>2, ProcessAssumption DEF PidsByPlace, TypeOK, ProcessAssumption
<1>4. \A r \in Procs : r # p => p_pid[r] # us
  BY <1>3 DEF Owners
<1>5. /\ pc'[p] = "exiting" /\ p_pid'[p] = INVALID_PID
      /\ \A r \in Procs : r # p => p_pid'[r] = p_pid[r]
      /\ \A r \in Procs : r # p =>
           IF pc[r] = "asleep" /\ kid[r] = us THEN pc'[r] = "woken" ELSE pc'[r] = pc[r]
  BY <1>2 DEF Broadcast, TypeOK
<1>6. \A i \in Slots : pidinfo'[i] = AfterExit(pidinfo[i], us, s) /\ pidinfo[i] \in Info
  BY <1>1 DEF TypeOK
\* The five things that can become of an entry.
<1>7. ASSUME NEW i \in Slots
      PROVE  \/ ~Used(i) /\ pidinfo'[i] = NoInfo /\ i \notin D
             \/ /\ Used(i) /\ pidinfo'[i] = NoInfo /\ i \in D
                /\ \/ pidinfo[i].pid = us /\ pidinfo[i].ppid = INVALID_PID
                   \/ pidinfo[i].pid # us /\ pidinfo[i].ppid = us /\ pidinfo[i].exited
             \/ /\ pidinfo[i].pid = us /\ pidinfo[i].ppid # INVALID_PID
                /\ pidinfo'[i] = [pidinfo[i] EXCEPT !.exited = TRUE, !.status = s]
             \/ /\ Used(i) /\ pidinfo[i].pid # us /\ pidinfo[i].ppid = us /\ ~pidinfo[i].exited
                /\ pidinfo'[i] = [pidinfo[i] EXCEPT !.ppid = INVALID_PID]
             \/ /\ Used(i) /\ pidinfo[i].pid # us /\ pidinfo[i].ppid # us
                /\ pidinfo'[i] = pidinfo[i]
  <2>1. CASE ~Used(i)
    <3>1. pidinfo[i] = NoInfo /\ NoInfo.pid = INVALID_PID /\ NoInfo.ppid = INVALID_PID
      BY <2>1 DEF Entries, NoInfo
    <3>2. pidinfo'[i] = NoInfo
      BY <1>3, <1>6, <3>1 DEF AfterExit
    <3>. QED  BY <2>1, <3>2
  <2>2. CASE Used(i) /\ pidinfo[i].pid = us
    BY <1>6, <2>2 DEF AfterExit
  <2>3. CASE Used(i) /\ pidinfo[i].pid # us /\ pidinfo[i].ppid = us
    BY <1>6, <2>3 DEF AfterExit
  <2>4. CASE Used(i) /\ pidinfo[i].pid # us /\ pidinfo[i].ppid # us
    BY <1>6, <2>4 DEF AfterExit
  <2>. QED  BY <2>1, <2>2, <2>3, <2>4
\* The same by its fields.
<1>8. ASSUME NEW i \in Slots
      PROVE  /\ pidinfo'[i].pid # INVALID_PID <=> Used(i) /\ i \notin D
             /\ pidinfo'[i] \in Info
             /\ pidinfo'[i].pid = INVALID_PID => pidinfo'[i] = NoInfo
             /\ Used(i) /\ i \notin D =>
                  /\ pidinfo'[i].pid = pidinfo[i].pid
                  /\ IF pidinfo[i].pid = us
                     THEN /\ pidinfo[i].ppid # INVALID_PID /\ pidinfo'[i].ppid = pidinfo[i].ppid
                          /\ pidinfo'[i].exited = TRUE /\ pidinfo'[i].status = s
                     ELSE /\ pidinfo'[i].exited = pidinfo[i].exited
                          /\ pidinfo'[i].status = pidinfo[i].status
                          /\ IF pidinfo[i].ppid = us
                             THEN pidinfo'[i].ppid = INVALID_PID /\ ~pidinfo[i].exited
                             ELSE pidinfo'[i].ppid = pidinfo[i].ppid
  <2>1. pidinfo[i] \in Info /\ NoInfo \in Info /\ NoInfo.pid = INVALID_PID
    BY <1>6 DEF NoInfo, Info
  <2>2. CASE ~Used(i) /\ pidinfo'[i] = NoInfo /\ i \notin D
    BY <2>1, <2>2
  <2>3. CASE Used(i) /\ pidinfo'[i] = NoInfo /\ i \in D
    BY <2>1, <2>3
  <2>4. CASE /\ pidinfo[i].pid = us /\ pidinfo[i].ppid # INVALID_PID
             /\ pidinfo'[i] = [pidinfo[i] EXCEPT !.exited = TRUE, !.status = s]
    <3>1. /\ pidinfo'[i] \in Info /\ pidinfo'[i].pid = us /\ pidinfo'[i].ppid = pidinfo[i].ppid
          /\ pidinfo'[i].exited = TRUE /\ pidinfo'[i].status = s
      BY <2>1, <2>4 DEF Info
    <3>. QED  BY <1>3, <2>1, <2>4, <3>1 DEF Used
  <2>5. CASE /\ Used(i) /\ pidinfo[i].pid # us /\ pidinfo[i].ppid = us /\ ~pidinfo[i].exited
             /\ pidinfo'[i] = [pidinfo[i] EXCEPT !.ppid = INVALID_PID]
    <3>1. /\ pidinfo'[i] \in Info /\ pidinfo'[i].pid = pidinfo[i].pid /\ pidinfo'[i].ppid = INVALID_PID
          /\ pidinfo'[i].exited = pidinfo[i].exited /\ pidinfo'[i].status = pidinfo[i].status
      BY <2>1, <2>5 DEF Info
    <3>. QED  BY <2>1, <2>5, <3>1 DEF Used
  <2>6. CASE /\ Used(i) /\ pidinfo[i].pid # us /\ pidinfo[i].ppid # us
             /\ pidinfo'[i] = pidinfo[i]
    BY <2>1, <2>6 DEF Used
  <2>. QED  BY <1>7, <2>2, <2>3, <2>4, <2>5, <2>6
<1>9. \A i \in Slots : i \in D => \/ pidinfo[i].pid = us /\ pidinfo[i].ppid = INVALID_PID
                                  \/ pidinfo[i].pid # us /\ pidinfo[i].ppid = us /\ pidinfo[i].exited
  <2>1. ASSUME NEW i \in Slots, i \in D
        PROVE  \/ pidinfo[i].pid = us /\ pidinfo[i].ppid = INVALID_PID
               \/ pidinfo[i].pid # us /\ pidinfo[i].ppid = us /\ pidinfo[i].exited
    <3>1. Used(i) /\ pidinfo'[i].pid = INVALID_PID
      BY <2>1 DEF NoInfo
    <3>2. pidinfo[i] \in Info /\ pidinfo[i].pid # INVALID_PID
      BY <1>6, <3>1 DEF Used
    <3>. QED  BY <1>7, <2>1, <3>1, <3>2 DEF Info
  <2>. QED  BY <2>1
<1>10. Counted' /\ nprocs' \in 0..PROCS_MAX
  <2>1. D \in SUBSET InUseAt
    BY DEF InUseAt
  <2>2. \A i \in Slots : pidinfo'[i].pid # INVALID_PID <=> Used(i) /\ i \notin D
    BY <1>8
  <2>. HIDE DEF D
  <2>. QED  BY <1>2, <2>1, <2>2, SomeLess
<1>. HIDE DEF D
<1>11. TypeOK'
  <2>1. pidinfo' \in [Slots -> Info]
    BY <1>1, <1>8
  <2>. QED  BY <1>2, <1>10, <2>1 DEF TypeOK, INVALID_PID
<1>12. Entries'
  <2>. SUFFICES ASSUME NEW i \in Slots, Used(i), i \notin D PROVE EntryIsGood(i)'
    BY <1>8 DEF Entries, Used
  <2>1. EntryIsGood(i)
    BY DEF Entries
  <2>2. \A k \in Pids : k # us => \A r \in Procs : p_pid[r] = k => p_pid'[r] = k
    BY <1>5
  <2>3. \A r \in Procs : pc'[r] = "new" => pc[r] = "new"
    BY <1>5
  <2>4. /\ pidinfo[i] \in Info /\ pidinfo[i].pid # INVALID_PID
    BY <1>6 DEF Used
  <2>5. pidinfo[i].ppid # INVALID_PID /\ pidinfo[i].ppid # us
          => \E r \in Procs : p_pid'[r] = pidinfo[i].ppid /\ pc'[r] # "new"
    BY <2>1, <2>2, <2>3, <2>4 DEF EntryIsGood, Info
  <2>6. ~pidinfo[i].exited /\ pidinfo[i].pid # us
          => \E r \in Procs : p_pid'[r] = pidinfo[i].pid
    BY <2>1, <2>2, <2>4 DEF EntryIsGood, Info
  <2>7. CASE pidinfo[i].pid = us
    BY <1>3, <1>8, <2>1, <2>5, <2>7 DEF EntryIsGood
  <2>8. CASE pidinfo[i].pid # us
    BY <1>3, <1>8, <2>1, <2>4, <2>5, <2>6, <2>8 DEF EntryIsGood
  <2>. QED  BY <2>7, <2>8
<1>13. PidsByPlace'
  BY <1>2, <1>5 DEF PidsByPlace, Idle, Outside
<1>14. Makers'
  <2>1. ASSUME NEW r \in Procs, pc'[r] \in Making
        PROVE  /\ pc[r] = pc'[r] /\ newproc'[r] = newproc[r] /\ kid'[r] = kid[r]
               /\ pc'[newproc[r]] = pc[newproc[r]] /\ p_pid'[newproc[r]] = p_pid[newproc[r]]
    <3>1. r # p /\ pc[r] = pc'[r]
      BY <1>5, <2>1 DEF Making
    <3>2. newproc[r] # p /\ newproc[r] \in Procs /\ pc[newproc[r]] = "new"
      BY <1>2, <2>1, <3>1 DEF Makers, Procs
    <3>. QED  BY <1>2, <1>5, <3>1, <3>2
  <2>. QED  BY <1>11, <2>1, MakersKept
<1>15. Owners'
  <2>. SUFFICES ASSUME NEW r \in Procs, p_pid'[r] # INVALID_PID
       PROVE  /\ pidinfo'[Slot(p_pid'[r])].pid = p_pid'[r] /\ ~pidinfo'[Slot(p_pid'[r])].exited
              /\ \A t \in Procs : p_pid'[t] = p_pid'[r] => t = r
    BY DEF Owners
  <2>1. r # p /\ p_pid'[r] = p_pid[r] /\ p_pid[r] # INVALID_PID /\ p_pid[r] # us
    BY <1>4, <1>5
  <2>2. /\ pidinfo[Slot(p_pid[r])].pid = p_pid[r] /\ ~pidinfo[Slot(p_pid[r])].exited
        /\ \A t \in Procs : p_pid[t] = p_pid[r] => t = r
    BY <2>1 DEF Owners
  <2>3. Slot(p_pid[r]) \in Slots /\ Used(Slot(p_pid[r])) /\ Slot(p_pid[r]) \notin D
    BY <1>9, <2>1, <2>2, SlotIn DEF TypeOK, Used
  <2>. QED  BY <1>5, <1>8, <2>1, <2>2, <2>3
<1>16. Remembered'
  <2>. SUFFICES ASSUME NEW r \in Procs
       PROVE  /\ Remembers(r)' => /\ kid'[r] \in Pids /\ pidinfo'[Slot(kid'[r])].pid = kid'[r]
                                  /\ pidinfo'[Slot(kid'[r])].ppid = p_pid'[r]
              /\ pc'[r] \in {"copy", "unalloc", "asleep"} => ~pidinfo'[Slot(kid'[r])].exited
              /\ pc'[r] = "woken" => pidinfo'[Slot(kid'[r])].exited
    BY DEF Remembered, ChildOf
  <2>1. CASE ~Remembers(r)'
    BY <2>1 DEF Remembers
  <2>2. CASE Remembers(r)'
    <3>1. /\ r # p /\ Remembers(r) /\ kid'[r] = kid[r] /\ p_pid'[r] = p_pid[r] /\ p_pid[r] # us
      BY <1>2, <1>4, <1>5, <2>2 DEF Remembers
    <3>2. /\ kid[r] \in Pids /\ pidinfo[Slot(kid[r])].pid = kid[r]
          /\ pidinfo[Slot(kid[r])].ppid = p_pid[r] /\ p_pid[r] # INVALID_PID
      BY <3>1 DEF Remembered, Remembers, ChildOf, PidsByPlace
    <3>3. Slot(kid[r]) \in Slots /\ Used(Slot(kid[r])) /\ Slot(kid[r]) \notin D
      BY <1>9, <3>1, <3>2, SlotIn DEF Used, Pids, INVALID_PID, KERNEL_PID, PID_MIN
    <3>4. /\ pidinfo'[Slot(kid[r])].pid = kid[r] /\ pidinfo'[Slot(kid[r])].ppid = p_pid[r]
          /\ kid[r] = us => pidinfo'[Slot(kid[r])].exited
          /\ kid[r] # us => pidinfo'[Slot(kid[r])].exited = pidinfo[Slot(kid[r])].exited
      BY <1>8, <3>1, <3>2, <3>3
    <3>5. CASE kid[r] = us
      <4>1. pc[r] \notin {"copy", "unalloc"}
        <5>. SUFFICES ASSUME pc[r] \in {"copy", "unalloc"} PROVE FALSE
          OBVIOUS
        <5>1. newproc[r] \in Procs /\ pc[newproc[r]] = "new" /\ p_pid[newproc[r]] = us
          BY <3>5 DEF Makers, Making, Procs
        <5>. QED  BY <1>2, <1>4, <5>1
      <4>2. pc'[r] \notin {"copy", "unalloc", "asleep"}
        BY <1>5, <3>1, <3>5, <4>1
      <4>. QED  BY <3>1, <3>2, <3>4, <3>5, <4>2
    <3>6. CASE kid[r] # us
      <4>1. pc'[r] = pc[r]
        BY <1>5, <3>1, <3>6
      <4>. QED  BY <3>1, <3>2, <3>4, <3>6, <4>1 DEF Remembered
    <3>. QED  BY <3>5, <3>6
  <2>. QED  BY <2>1, <2>2
<1>. QED  BY <1>10, <1>11, <1>12, <1>13, <1>14, <1>15, <1>16

-----------------------------------------------------------------------------
(* The invariant, and the properties it gives *)

\* Every step of the process table keeps the invariant.
LEMMA NextStep == IInv /\ [Next]_vars => IInv'
<1>. SUFFICES ASSUME IInv, [Next]_vars PROVE IInv'
  OBVIOUS
<1>1. CASE UNCHANGED vars
  <2>1. TypeOK'
    BY <1>1 DEF vars, IInv, TypeOK
  <2>2. Entries' /\ Counted' /\ Owners'
    BY <1>1, TableKept DEF vars
  <2>3. PidsByPlace' /\ Makers' /\ Remembered'
    BY <1>1 DEF vars, IInv, PidsByPlace, Makers, Remembered, Remembers, ChildOf
  <2>. QED  BY <2>1, <2>2, <2>3 DEF IInv
<1>2. ASSUME NEW p \in Procs, Calls(p) PROVE IInv'
  BY <1>2, ProcCreateStep, AloneStep, PidDisownStep, PidSetExitStatusStep DEF Calls
<1>3. ASSUME NEW p \in Procs, Kernel(p) PROVE IInv'
  BY <1>3, PidAllocStep, AllocFailsStep, ThreadForkStep, PidUnallocStep, WaitReapsStep, AloneStep
     DEF Kernel
<1>. QED  BY <1>1, <1>2, <1>3 DEF Next

\* The invariant holds in every reachable state.
LEMMA SpecInvariant == Spec => []IInv
BY InitInvariant, NextStep, PTL DEF Spec

\* Every variable of the process table and of its users keeps its type.
THEOREM TypeCorrect == Spec => []TypeOK
<1>1. IInv => TypeOK
  BY DEF IInv
<1>. QED  BY <1>1, SpecInvariant, PTL

\* nprocs counts the entries, and pid_alloc's loop, which has that for its reason,
\* comes by a free slot before the turn at which it asserts.
THEOREM LoopAlwaysEnds == Spec => []LoopEnds
BY InvariantSuffices, SpecInvariant, PTL

\* A process finds the entry of its own under its pid, whatever slots and pids were
\* used again (pid_setexitstatus's assertions).
THEOREM PidsAreOwn == Spec => []PidIsOwn
BY InvariantSuffices, SpecInvariant, PTL

\* No slot is lost in any order of forks, waits and exits.
THEOREM NoEntryLost == Spec => []NothingKeptForNobody
BY InvariantSuffices, SpecInvariant, PTL

\* The pid fork returns is a child's, and undoing a fork finds the child.
THEOREM ForkReturnsAChild == Spec => []ForkNamesAChild
BY InvariantSuffices, SpecInvariant, PTL

\* A sleeping waiter's entry stays, and it wakes for its child's exit and only for that.
THEOREM WaitersSeeExits == Spec => []WaiterSeesExit
BY InvariantSuffices, SpecInvariant, PTL

-----------------------------------------------------------------------------
(* ProcessFamily: what the table shows of parents and children *)

\* The pids of p's children, and what is shown of them.
KidPids(p) == {k \in Pids : p_pid[p] # INVALID_PID /\ ChildOf(k, p)}

ShownRight ==
  /\ KidStatuses = [p \in Procs |-> KidStatuses[p]]
  /\ \A p \in Procs : KidStatuses[p] = [k \in KidPids(p) |-> pidinfo[Slot(k)].status]

\* The children the refinement shows are found by their pids.
LEMMA KidsShown == IInv => ShownRight
<1>. SUFFICES ASSUME IInv PROVE ShownRight
  OBVIOUS
<1>. USE DEF IInv
<1>1. ASSUME NEW p \in Procs
      PROVE  KidStatuses[p] = [k \in KidPids(p) |-> pidinfo[Slot(k)].status]
  <2>1. ASSUME NEW k \in KidPids(p)
        PROVE  k \in {pidinfo[i].pid : i \in Kids(p)} /\ pi_get(k).status = pidinfo[Slot(k)].status
    <3>1. /\ p_pid[p] # INVALID_PID /\ k \in Pids /\ Slot(k) \in Slots /\ Used(Slot(k))
          /\ pidinfo[Slot(k)].pid = k /\ pidinfo[Slot(k)].ppid = p_pid[p] /\ pi_get(k) = pidinfo[Slot(k)]
      BY ChildFound DEF KidPids, ChildOf
    <3>2. Slot(k) \in Kids(p)
      BY <3>1 DEF Kids
    <3>. QED  BY <3>1, <3>2
  <2>2. ASSUME NEW i \in Kids(p) PROVE pidinfo[i].pid \in KidPids(p)
    <3>1. p_pid[p] # INVALID_PID /\ i \in Slots /\ Used(i) /\ pidinfo[i].ppid = p_pid[p]
      BY DEF Kids
    <3>2. Slot(pidinfo[i].pid) = i /\ pidinfo[i].pid \in Pids
      BY <3>1 DEF Entries, EntryIsGood, TypeOK, Info, Used
    <3>. QED  BY <3>1, <3>2 DEF KidPids, ChildOf
  <2>3. {pidinfo[i].pid : i \in Kids(p)} = KidPids(p)
    BY <2>1, <2>2
  <2>4. KidStatuses[p] = [k \in {pidinfo[i].pid : i \in Kids(p)} |-> pi_get(k).status]
    BY DEF KidStatuses
  <2>. QED  BY <2>1, <2>3, <2>4
<1>2. KidStatuses = [p \in Procs |-> KidStatuses[p]]
  BY DEF KidStatuses
<1>. QED  BY <1>1, <1>2 DEF ShownRight

\* Two steps' children of one process are the same if the sets are and what is
\* shown of each.
LEMMA KidsSame ==
  ASSUME ShownRight, ShownRight', NEW p \in Procs, KidPids(p)' = KidPids(p),
         \A k \in KidPids(p) : pidinfo'[Slot(k)].status = pidinfo[Slot(k)].status
  PROVE  KidStatuses'[p] = KidStatuses[p]
<1>1. KidStatuses'[p] = [k \in KidPids(p)' |-> pidinfo'[Slot(k)].status]
  BY DEF ShownRight
<1>. QED  BY <1>1 DEF ShownRight

\* Who is whose child, spelled out for the state after a step.
LEMMA KidPidsThen ==
  ASSUME NEW p \in Procs
  PROVE  KidPids(p)' = {k \in Pids : /\ p_pid'[p] # INVALID_PID
                                     /\ pidinfo'[Slot(k)].pid = k /\ pidinfo'[Slot(k)].ppid = p_pid'[p]}
BY DEF KidPids, ChildOf

\* A process that has no pid yet, or has not run, is nobody's parent.
LEMMA NoKidsYet ==
  ASSUME IInv, NEW q \in Procs, pc[q] = "new"
  PROVE  KidPids(q) = {}
<1>. USE DEF IInv
<1>. SUFFICES ASSUME NEW k \in KidPids(q) PROVE FALSE
  OBVIOUS
<1>1. /\ p_pid[q] # INVALID_PID /\ Slot(k) \in Slots /\ k \in Pids
      /\ pidinfo[Slot(k)].pid = k /\ pidinfo[Slot(k)].ppid = p_pid[q]
  BY SlotIn DEF KidPids, ChildOf
<1>2. Used(Slot(k))
  BY <1>1 DEF Used, Pids, INVALID_PID, KERNEL_PID, PID_MIN
<1>3. PICK r \in Procs : p_pid[r] = p_pid[q] /\ pc[r] # "new"
  BY <1>1, <1>2 DEF Entries, EntryIsGood
<1>. QED  BY <1>1, <1>3 DEF Owners

\* pid_alloc is the family's Spawn: the pid is of no process and no child.
LEMMA AllocSpawns == ASSUME IInv, IInv', NEW p \in Procs, PidAlloc(p) PROVE Family!FamilyNext
<1>. USE DEF IInv
<1>. PICK q : q = newproc[p]
  OBVIOUS
<1>. PICK k : k = PidAfter(Min(Turns))
  OBVIOUS
<1>1. /\ pc[p] = "alloc" /\ nprocs # PROCS_MAX
      /\ pidinfo' = [pidinfo EXCEPT ![Slot(k)] = pidinfo_create(k, p_pid[p])]
      /\ p_pid' = [p_pid EXCEPT ![q] = k]
      /\ pc' = [pc EXCEPT ![p] = "copy"] /\ UNCHANGED status
  BY DEF PidAlloc, pi_put
<1>2. k \in Pids /\ k # INVALID_PID /\ Slot(k) \in Slots /\ ~Used(Slot(k))
  BY <1>1, LoopFinds DEF Pids, PID_MIN, INVALID_PID
<1>3. q \in Procs /\ p # q /\ pc[q] = "new" /\ p_pid[q] = INVALID_PID /\ p_pid[p] # INVALID_PID
  BY <1>1 DEF Makers, Making, Procs, PidsByPlace, Idle
<1>4. /\ pidinfo'[Slot(k)].pid = k /\ pidinfo'[Slot(k)].ppid = p_pid[p]
      /\ pidinfo'[Slot(k)].status = NoStatus
      /\ \A i \in Slots : i # Slot(k) => pidinfo'[i] = pidinfo[i]
      /\ p_pid'[q] = k /\ \A r \in Procs : r # q => p_pid'[r] = p_pid[r]
  BY <1>1, <1>2, <1>3 DEF TypeOK, pidinfo_create, NoInfo
<1>5. ShownRight /\ ShownRight'
  BY KidsShown, PTL
<1>6. /\ \A r \in Procs : p_pid[r] # k
      /\ \A r \in Procs : k \notin KidPids(r)
  BY <1>2 DEF Owners, Used, KidPids, ChildOf
<1>7. ASSUME NEW x \in Pids, x # k PROVE pidinfo[Slot(x)].pid = x <=> pidinfo'[Slot(x)].pid = x
  <2>1. CASE Slot(x) = Slot(k)
    <3>1. pidinfo[Slot(x)].pid = INVALID_PID /\ x # INVALID_PID
      BY <1>2, <2>1 DEF Used, Pids, INVALID_PID, KERNEL_PID, PID_MIN
    <3>. QED  BY <1>4, <1>7, <2>1, <3>1
  <2>2. CASE Slot(x) # Slot(k)
    BY <1>4, <2>2, SlotIn
  <2>. QED  BY <2>1, <2>2
<1>8. ASSUME NEW x \in Pids, x # k, pidinfo[Slot(x)].pid = x PROVE pidinfo'[Slot(x)] = pidinfo[Slot(x)]
  <2>1. Slot(x) # Slot(k) /\ Slot(x) \in Slots
    BY <1>2, <1>8, SlotIn DEF Used, Pids, INVALID_PID, KERNEL_PID, PID_MIN
  <2>. QED  BY <1>4, <2>1
<1>9. ASSUME NEW r \in Procs, r # p PROVE KidStatuses'[r] = KidStatuses[r]
  <2>1. CASE r = q
    <3>1. KidPids(r) = {}
      BY <1>3, <2>1, NoKidsYet
    <3>2. ASSUME NEW x \in KidPids(r)' PROVE FALSE
      <4>1. pidinfo'[Slot(x)].pid = x /\ pidinfo'[Slot(x)].ppid = k /\ x \in Pids
        BY <1>4, <2>1, <3>2, KidPidsThen
      <4>2. x # k
        BY <1>4, <1>6, <4>1
      <4>3. pidinfo[Slot(x)].pid = x /\ pidinfo[Slot(x)].ppid = k
        BY <1>7, <1>8, <4>1, <4>2
      <4>4. Used(Slot(x)) /\ Slot(x) \in Slots
        BY <4>1, <4>3, SlotIn DEF Used, Pids, INVALID_PID, KERNEL_PID, PID_MIN
      <4>. QED  BY <1>2, <1>6, <4>3, <4>4 DEF Entries, EntryIsGood
    <3>. QED  BY <1>5, <3>1, <3>2, KidsSame
  <2>2. CASE r # q
    <3>1. ASSUME NEW x \in Pids PROVE x \in KidPids(r)' <=> x \in KidPids(r)
      <4>1. CASE x = k
        <5>1. p_pid'[r] = INVALID_PID \/ p_pid'[r] # p_pid[p]
          BY <1>3, <1>4, <1>9, <2>2 DEF Owners
        <5>. QED  BY <1>4, <1>6, <4>1, <5>1, KidPidsThen
      <4>2. CASE x # k
        BY <1>4, <1>7, <1>8, <2>2, <4>2, KidPidsThen DEF KidPids, ChildOf
      <4>. QED  BY <4>1, <4>2
    <3>2. KidPids(r)' = KidPids(r)
      BY <3>1, KidPidsThen DEF KidPids
    <3>3. \A x \in KidPids(r) : pidinfo'[Slot(x)].status = pidinfo[Slot(x)].status
      BY <1>6, <1>8 DEF KidPids, ChildOf
    <3>. QED  BY <1>5, <3>2, <3>3, KidsSame
  <2>. QED  BY <2>1, <2>2
<1>10. KidStatuses'[p] = Family!With(KidStatuses[p], k, NoStatus)
  <2>1. ASSUME NEW x \in Pids PROVE x \in KidPids(p)' <=> x \in KidPids(p) \/ x = k
    <3>1. CASE x = k
      BY <1>3, <1>4, <3>1, KidPidsThen
    <3>2. CASE x # k
      BY <1>3, <1>4, <1>7, <1>8, <3>2, KidPidsThen DEF KidPids, ChildOf
    <3>. QED  BY <3>1, <3>2
  <2>2. KidPids(p)' = KidPids(p) \cup {k}
    BY <1>2, <2>1, KidPidsThen DEF KidPids
  <2>3. KidStatuses'[p] = [x \in KidPids(p) \cup {k} |-> pidinfo'[Slot(x)].status]
    BY <1>5, <2>2 DEF ShownRight
  <2>4. ASSUME NEW x \in KidPids(p)
        PROVE  pidinfo'[Slot(x)].status = KidStatuses[p][x] /\ x # k
    <3>1. x \in Pids /\ pidinfo[Slot(x)].pid = x
      BY DEF KidPids, ChildOf
    <3>2. x # k
      BY <1>6
    <3>3. pidinfo'[Slot(x)] = pidinfo[Slot(x)]
      BY <1>8, <3>1, <3>2
    <3>4. KidStatuses[p][x] = pidinfo[Slot(x)].status
      BY <1>5 DEF ShownRight
    <3>. QED  BY <3>2, <3>3, <3>4
  <2>5. DOMAIN KidStatuses[p] = KidPids(p)
    BY <1>5 DEF ShownRight
  <2>. QED  BY <1>4, <2>3, <2>4, <2>5 DEF Family!With
<1>11. KidStatuses' = [KidStatuses EXCEPT ![p] = Family!With(@, k, NoStatus)]
  BY <1>5, <1>9, <1>10 DEF ShownRight
<1>12. k \notin Family!InUse
  <2>1. \A r \in Procs : DOMAIN KidStatuses[r] = KidPids(r)
    BY <1>5 DEF ShownRight
  <2>. QED  BY <1>6, <2>1 DEF Family!InUse
<1>13. Family!Spawn(p, q, k)
  BY <1>1, <1>3, <1>11, <1>12 DEF Family!Spawn, INVALID_PID
<1>. QED  BY <1>2, <1>3, <1>13 DEF Family!FamilyNext

\* A child that is forgotten is missed by its parent and by nobody else.
LEMMA Forgotten ==
  ASSUME IInv, IInv', NEW p \in Procs, NEW k \in Pids, ChildOf(k, p), p_pid[p] # INVALID_PID,
         pidinfo'[Slot(k)].pid \in {k, INVALID_PID}, pidinfo'[Slot(k)].ppid = INVALID_PID,
         \A i \in Slots : i # Slot(k) => pidinfo'[i] = pidinfo[i],
         \A r \in Procs : \/ p_pid'[r] = p_pid[r]
                          \/ p_pid'[r] = INVALID_PID /\ KidPids(r) = {}
  PROVE  /\ k \in DOMAIN KidStatuses[p] /\ KidStatuses[p][k] = pidinfo[Slot(k)].status
         /\ KidStatuses' = [KidStatuses EXCEPT ![p] = Family!Without(@, k)]
<1>. USE DEF IInv
<1>1. ShownRight /\ ShownRight'
  BY KidsShown, PTL
<1>2. /\ k \in KidPids(p) /\ pidinfo[Slot(k)].pid = k /\ pidinfo[Slot(k)].ppid = p_pid[p]
      /\ k # INVALID_PID /\ Slot(k) \in Slots
  BY SlotIn DEF KidPids, ChildOf, Pids, INVALID_PID, KERNEL_PID, PID_MIN
<1>3. ASSUME NEW x \in Pids, x # k
      PROVE  pidinfo'[Slot(x)] = pidinfo[Slot(x)] \/ (pidinfo'[Slot(x)].pid # x /\ pidinfo[Slot(x)].pid # x)
  <2>1. CASE Slot(x) = Slot(k)
    <3>1. x # INVALID_PID
      BY DEF Pids, INVALID_PID, KERNEL_PID, PID_MIN
    <3>. QED  BY <1>2, <1>3, <2>1, <3>1
  <2>2. CASE Slot(x) # Slot(k)
    BY <2>2, SlotIn
  <2>. QED  BY <2>1, <2>2
<1>4. ASSUME NEW r \in Procs, NEW x \in Pids
      PROVE  x \in KidPids(r)' <=> x \in KidPids(r) /\ ~(r = p /\ x = k)
  <2>1. CASE p_pid'[r] = INVALID_PID /\ KidPids(r) = {}
    BY <2>1, KidPidsThen
  <2>2. CASE p_pid'[r] = p_pid[r] /\ x = k
    <3>1. x \notin KidPids(r)'
      BY <2>2, KidPidsThen
    <3>2. x \in KidPids(r) => r = p
      BY <1>2, <2>2 DEF Owners, KidPids, ChildOf
    <3>. QED  BY <2>2, <3>1, <3>2
  <2>3. CASE p_pid'[r] = p_pid[r] /\ x # k
    BY <1>3, <2>3, KidPidsThen DEF KidPids, ChildOf
  <2>. QED  BY <2>1, <2>2, <2>3
<1>5. ASSUME NEW r \in Procs, NEW x \in KidPids(r), ~(r = p /\ x = k)
      PROVE  pidinfo'[Slot(x)].status = pidinfo[Slot(x)].status
  <2>1. x \in Pids /\ pidinfo[Slot(x)].pid = x /\ pidinfo[Slot(x)].ppid = p_pid[r] /\ p_pid[r] # INVALID_PID
    BY DEF KidPids, ChildOf
  <2>2. x # k
    BY <1>2, <1>5, <2>1 DEF Owners
  <2>. QED  BY <1>3, <2>1, <2>2
<1>6. ASSUME NEW r \in Procs, r # p PROVE KidStatuses'[r] = KidStatuses[r]
  <2>1. KidPids(r)' = KidPids(r)
    BY <1>4, <1>6, KidPidsThen DEF KidPids
  <2>2. \A x \in KidPids(r) : pidinfo'[Slot(x)].status = pidinfo[Slot(x)].status
    BY <1>5, <1>6
  <2>. QED  BY <1>1, <2>1, <2>2, KidsSame
<1>7. KidStatuses'[p] = Family!Without(KidStatuses[p], k)
  <2>1. KidPids(p)' = KidPids(p) \ {k}
    BY <1>4, KidPidsThen DEF KidPids
  <2>2. KidStatuses'[p] = [x \in KidPids(p) \ {k} |-> pidinfo'[Slot(x)].status]
    BY <1>1, <2>1 DEF ShownRight
  <2>3. KidStatuses[p] = [x \in KidPids(p) |-> pidinfo[Slot(x)].status]
    BY <1>1 DEF ShownRight
  <2>4. \A x \in KidPids(p) \ {k} : pidinfo'[Slot(x)].status = pidinfo[Slot(x)].status
    BY <1>5
  <2>5. DOMAIN KidStatuses[p] = KidPids(p) /\ \A x \in KidPids(p) : KidStatuses[p][x] = pidinfo[Slot(x)].status
    BY <2>3
  <2>6. Family!Without(KidStatuses[p], k) = [x \in KidPids(p) \ {k} |-> KidStatuses[p][x]]
    BY <2>5 DEF Family!Without, Family!Restrict
  <2>. QED  BY <2>2, <2>4, <2>5, <2>6
<1>8. KidStatuses' = [KidStatuses EXCEPT ![p] = Family!Without(@, k)]
  BY <1>1, <1>6, <1>7 DEF ShownRight
<1>9. k \in DOMAIN KidStatuses[p] /\ KidStatuses[p][k] = pidinfo[Slot(k)].status
  BY <1>1, <1>2 DEF ShownRight
<1>. QED  BY <1>8, <1>9

\* A drop of a child's entry, seen from its parent.
LEMMA Dropped ==
  ASSUME IInv, IInv', NEW p \in Procs, NEW k \in Pids, ChildOf(k, p), p_pid[p] # INVALID_PID, pi_drop(k),
         \A r \in Procs : \/ p_pid'[r] = p_pid[r]
                          \/ p_pid'[r] = INVALID_PID /\ KidPids(r) = {}
  PROVE  /\ k \in DOMAIN KidStatuses[p] /\ KidStatuses[p][k] = pidinfo[Slot(k)].status
         /\ KidStatuses' = [KidStatuses EXCEPT ![p] = Family!Without(@, k)]
<1>1. /\ pidinfo'[Slot(k)].pid = INVALID_PID /\ pidinfo'[Slot(k)].ppid = INVALID_PID
      /\ \A i \in Slots : i # Slot(k) => pidinfo'[i] = pidinfo[i]
  BY SlotIn DEF IInv, TypeOK, pi_drop, NoInfo
<1>. QED  BY <1>1, Forgotten

\* pid_unalloc is the family's Unspawn.
LEMMA UnallocUnspawns == ASSUME IInv, IInv', NEW p \in Procs, PidUnalloc(p) PROVE Family!FamilyNext
<1>. USE DEF IInv
<1>. PICK q : q = newproc[p]
  OBVIOUS
<1>1. /\ pc[p] = "unalloc" /\ ChildOf(kid[p], p) /\ p_pid[p] # INVALID_PID /\ kid[p] \in Pids
      /\ q \in Procs /\ p # q /\ pc[q] = "new" /\ p_pid[q] = kid[p]
      /\ ~pidinfo[Slot(kid[p])].exited
  BY DEF PidUnalloc, Makers, Making, Procs, PidsByPlace, Remembered, Remembers, ChildOf
<1>2. pi_drop(kid[p]) /\ p_pid' = [p_pid EXCEPT ![q] = INVALID_PID] /\ UNCHANGED status
  BY DEF PidUnalloc
<1>3. \A r \in Procs : p_pid'[r] = p_pid[r] \/ (p_pid'[r] = INVALID_PID /\ KidPids(r) = {})
  BY <1>1, <1>2, NoKidsYet DEF TypeOK
<1>4. /\ kid[p] \in DOMAIN KidStatuses[p] /\ KidStatuses[p][kid[p]] = pidinfo[Slot(kid[p])].status
      /\ KidStatuses' = [KidStatuses EXCEPT ![p] = Family!Without(@, kid[p])]
  BY <1>1, <1>2, <1>3, Dropped
<1>5. pidinfo[Slot(kid[p])].status = NoStatus
  BY <1>1, ChildFound DEF Entries, EntryIsGood
<1>6. Family!Unspawn(p, q)
  BY <1>1, <1>2, <1>4, <1>5 DEF Family!Unspawn, INVALID_PID
<1>. QED  BY <1>1, <1>6 DEF Family!FamilyNext

\* pid_wait is the family's Reap.
LEMMA WaitIsReap == ASSUME IInv, IInv', NEW p \in Procs, WaitReaps(p) PROVE Family!FamilyNext
<1>. USE DEF IInv
<1>. PICK k : k = kid[p]
  OBVIOUS
<1>1. /\ p_pid[p] # INVALID_PID /\ ChildOf(k, p) /\ k \in Pids /\ pidinfo[Slot(k)].exited
  <2>1. CASE pc[p] = "woken"
    BY <2>1 DEF Remembered, Remembers, PidsByPlace, ChildOf
  <2>2. CASE pc[p] = "wait" /\ IsChild(kid[p], p) /\ pi_get(kid[p]).exited
    <3>1. p_pid[p] # INVALID_PID /\ kid[p] \in Pids \cup {INVALID_PID}
      BY <2>2 DEF PidsByPlace, TypeOK
    <3>2. ChildOf(k, p) /\ pi_get(k) = pidinfo[Slot(k)]
      BY <2>2, <3>1, ChildFound
    <3>. QED  BY <2>2, <3>1, <3>2 DEF ChildOf
  <2>. QED  BY <2>1, <2>2 DEF WaitReaps
<1>2. pi_drop(k) /\ UNCHANGED p_pid /\ status' = [status EXCEPT ![p] = pidinfo[Slot(k)].status]
  BY DEF WaitReaps
<1>3. /\ k \in DOMAIN KidStatuses[p] /\ KidStatuses[p][k] = pidinfo[Slot(k)].status
      /\ KidStatuses' = [KidStatuses EXCEPT ![p] = Family!Without(@, k)]
  BY <1>1, <1>2, Dropped
<1>4. pidinfo[Slot(k)].status # NoStatus
  BY <1>1, ChildFound DEF Entries, EntryIsGood
<1>5. Family!Reap(p, k)
  BY <1>2, <1>3, <1>4 DEF Family!Reap
<1>. QED  BY <1>1, <1>5 DEF Family!FamilyNext

\* pid_disown is the family's Disown, whether the child still runs or not.
LEMMA DisownIsDisown == ASSUME IInv, IInv', NEW p \in Procs, PidDisown(p) PROVE Family!FamilyNext
<1>. USE DEF IInv
<1>1. PICK k \in PID_MIN..PID_MAX :
        /\ IsChild(k, p)
        /\ IF pi_get(k).exited THEN pi_drop(k)
           ELSE /\ pidinfo' = [pidinfo EXCEPT ![Slot(k)].ppid = INVALID_PID]
                /\ UNCHANGED nprocs
  BY DEF PidDisown
<1>2. k \in Pids /\ p_pid[p] # INVALID_PID /\ UNCHANGED <<p_pid, status>>
  BY DEF Pids, PidsByPlace, PidDisown
<1>3. ChildOf(k, p) /\ Slot(k) \in Slots /\ pidinfo[Slot(k)].pid = k
  BY <1>1, <1>2, ChildFound DEF ChildOf
<1>4. /\ k \in DOMAIN KidStatuses[p]
      /\ KidStatuses' = [KidStatuses EXCEPT ![p] = Family!Without(@, k)]
  <2>1. CASE pi_get(k).exited
    BY <1>1, <1>2, <1>3, <2>1, Dropped
  <2>2. CASE ~pi_get(k).exited
    <3>1. /\ pidinfo'[Slot(k)].pid = k /\ pidinfo'[Slot(k)].ppid = INVALID_PID
          /\ \A i \in Slots : i # Slot(k) => pidinfo'[i] = pidinfo[i]
      BY <1>1, <1>3, <2>2 DEF TypeOK, Info
    <3>. QED  BY <1>2, <1>3, <3>1, Forgotten
  <2>. QED  BY <2>1, <2>2
<1>5. Family!Disown(p, k)
  BY <1>2, <1>4 DEF Family!Disown
<1>. QED  BY <1>2, <1>5 DEF Family!FamilyNext

\* pid_setexitstatus is the family's Exit.
LEMMA ExitIsExit == ASSUME IInv, IInv', NEW p \in Procs, PidSetExitStatus(p) PROVE Family!FamilyNext
<1>. USE DEF IInv
<1>. PICK us : us = p_pid[p]
  OBVIOUS
<1>1. PICK s \in Statuses : pidinfo' = [i \in Slots |-> AfterExit(pidinfo[i], us, s)]
  BY DEF PidSetExitStatus
<1>2. /\ p # kproc /\ us # INVALID_PID /\ p_pid' = [p_pid EXCEPT ![p] = INVALID_PID]
      /\ status' = [status EXCEPT ![p] = NoStatus]
  BY DEF PidSetExitStatus, PidsByPlace
<1>3. ShownRight /\ ShownRight'
  BY KidsShown, PTL
<1>4. /\ p_pid'[p] = INVALID_PID
      /\ \A r \in Procs : r # p => p_pid'[r] = p_pid[r] /\ p_pid[r] # us
  BY <1>2 DEF TypeOK, Owners
<1>5. ASSUME NEW x \in Pids
      PROVE  /\ x # INVALID_PID /\ Slot(x) \in Slots
             /\ pidinfo'[Slot(x)] = AfterExit(pidinfo[Slot(x)], us, s)
  BY <1>1, SlotIn DEF Pids, INVALID_PID, KERNEL_PID, PID_MIN
<1>6. KidStatuses'[p] = Family!NoKids
  <2>1. KidPids(p)' = {}
    BY <1>4, KidPidsThen
  <2>2. KidStatuses'[p] = [k \in KidPids(p)' |-> pidinfo'[Slot(k)].status]
    BY <1>3 DEF ShownRight
  <2>. QED  BY <2>1, <2>2 DEF Family!NoKids
<1>7. ASSUME NEW r \in Procs, r # p, NEW x \in Pids
      PROVE  /\ x \in KidPids(r)' <=> x \in KidPids(r)
             /\ x \in KidPids(r) =>
                  pidinfo'[Slot(x)].status = IF x = us THEN s ELSE pidinfo[Slot(x)].status
  <2>. PICK info : info = pidinfo[Slot(x)]
    OBVIOUS
  <2>1. p_pid'[r] = p_pid[r] /\ p_pid[r] # us /\ x # INVALID_PID /\ info \in Info
    BY <1>4, <1>5, <1>7 DEF TypeOK
  <2>2. pidinfo'[Slot(x)] = AfterExit(info, us, s)
    BY <1>5
  <2>3. CASE info.pid = us /\ info.ppid = INVALID_PID
    BY <2>1, <2>2, <2>3, KidPidsThen DEF KidPids, ChildOf, AfterExit, NoInfo
  <2>4. CASE info.pid = us /\ info.ppid # INVALID_PID
    <3>1. pidinfo'[Slot(x)].pid = us /\ pidinfo'[Slot(x)].ppid = info.ppid /\ pidinfo'[Slot(x)].status = s
      BY <2>1, <2>2, <2>4 DEF AfterExit, Info
    <3>. QED  BY <2>1, <2>4, <3>1, KidPidsThen DEF KidPids, ChildOf
  <2>5. CASE info.pid # us /\ info.ppid = us
    <3>1. pidinfo'[Slot(x)].ppid = INVALID_PID
      BY <2>1, <2>2, <2>5 DEF AfterExit, Info, NoInfo
    <3>. QED  BY <2>1, <2>5, <3>1, KidPidsThen DEF KidPids, ChildOf
  <2>6. CASE info.pid # us /\ info.ppid # us
    <3>1. pidinfo'[Slot(x)] = info
      BY <2>2, <2>6 DEF AfterExit
    <3>. QED  BY <2>1, <2>6, <3>1, KidPidsThen DEF KidPids, ChildOf
  <2>. QED  BY <2>3, <2>4, <2>5, <2>6
<1>8. ASSUME NEW r \in Procs, r # p
      PROVE  KidStatuses'[r] = IF us \in DOMAIN KidStatuses[r] THEN Family!With(KidStatuses[r], us, s)
                               ELSE KidStatuses[r]
  <2>1. KidPids(r)' = KidPids(r)
    BY <1>7, <1>8, KidPidsThen DEF KidPids
  <2>2. KidStatuses[r] = [x \in KidPids(r) |-> pidinfo[Slot(x)].status]
    BY <1>3 DEF ShownRight
  <2>3. KidStatuses'[r] = [x \in KidPids(r) |-> pidinfo'[Slot(x)].status]
    BY <1>3, <2>1 DEF ShownRight
  <2>4. \A x \in KidPids(r) :
          pidinfo'[Slot(x)].status = IF x = us THEN s ELSE KidStatuses[r][x]
    BY <1>7, <1>8, <2>2 DEF KidPids, ChildOf
  <2>5. DOMAIN KidStatuses[r] = KidPids(r)
    BY <2>2
  <2>6. CASE us \in KidPids(r)
    BY <2>3, <2>4, <2>5, <2>6 DEF Family!With
  <2>7. CASE us \notin KidPids(r)
    <3>1. \A x \in KidPids(r) : pidinfo'[Slot(x)].status = KidStatuses[r][x]
      BY <2>4, <2>7
    <3>2. KidStatuses'[r] = [x \in KidPids(r) |-> KidStatuses[r][x]]
      BY <2>3, <3>1
    <3>. QED  BY <2>2, <2>5, <2>7, <3>2
  <2>. QED  BY <2>6, <2>7
<1>9. KidStatuses' = [r \in Procs |-> IF r = p THEN Family!NoKids
                                      ELSE IF us \in DOMAIN KidStatuses[r] THEN Family!With(KidStatuses[r], us, s)
                                      ELSE KidStatuses[r]]
  BY <1>3, <1>6, <1>8 DEF ShownRight
<1>10. Family!Exit(p, s)
  BY <1>2, <1>9 DEF Family!Exit, INVALID_PID
<1>. QED  BY <1>10 DEF Family!FamilyNext

\* Every step of the table is a step of the family or changes nothing it knows.
LEMMA FamilyStep == IInv /\ IInv' /\ [Next]_vars => [Family!FamilyNext]_(Family!famVars)
<1>. SUFFICES ASSUME IInv, IInv', [Next]_vars PROVE [Family!FamilyNext]_(Family!famVars)
  OBVIOUS
<1>1. ASSUME UNCHANGED <<p_pid, pidinfo, status>> PROVE UNCHANGED Family!famVars
  BY <1>1 DEF KidStatuses, Kids, Used, pi_get, Slot, Family!famVars
<1>2. CASE UNCHANGED vars
  BY <1>1, <1>2 DEF vars
<1>3. ASSUME NEW p \in Procs, Calls(p) \/ Kernel(p) PROVE [Family!FamilyNext]_(Family!famVars)
  <2>1. CASE ProcCreate(p) \/ WaitCall(p)
    BY <1>1, <2>1 DEF ProcCreate, WaitCall, tableVars
  <2>2. CASE PidDisown(p)
    BY <2>2, DisownIsDisown
  <2>3. CASE PidSetExitStatus(p)
    BY <2>3, ExitIsExit
  <2>4. CASE PidAlloc(p)
    BY <2>4, AllocSpawns
  <2>5. CASE PidUnalloc(p)
    BY <2>5, UnallocUnspawns
  <2>6. CASE WaitReaps(p)
    BY <2>6, WaitIsReap
  <2>7. CASE PidAllocFull(p) \/ PidAllocNoMemory(p) \/ CopyFails(p) \/ ThreadFork(p)
    BY <1>1, <2>7 DEF PidAllocFull, PidAllocNoMemory, CopyFails, ThreadFork, tableVars
  <2>8. CASE ThreadForkFails(p) \/ Forked(p) \/ WaitFails(p) \/ WaitNoHang(p)
    BY <1>1, <2>8 DEF ThreadForkFails, Forked, WaitFails, WaitNoHang, tableVars
  <2>9. CASE WaitSleeps(p) \/ ProcDestroy(p)
    BY <1>1, <2>9 DEF WaitSleeps, ProcDestroy, tableVars
  <2>. QED  BY <1>3, <2>1, <2>2, <2>3, <2>4, <2>5, <2>6, <2>7, <2>8, <2>9 DEF Calls, Kernel
<1>. QED  BY <1>2, <1>3 DEF Next

\* At first the kernel is alone.
LEMMA FamilyStart == Init => Family!FamilyInit
<1>. SUFFICES ASSUME Init PROVE Family!FamilyInit
  OBVIOUS
<1>1. IInv
  BY InitInvariant
<1>2. ShownRight
  BY <1>1, KidsShown
<1>3. ASSUME NEW p \in Procs PROVE KidPids(p) = {}
  <2>. SUFFICES ASSUME NEW k \in KidPids(p) PROVE FALSE
    OBVIOUS
  <2>1. Slot(k) \in Slots /\ pidinfo[Slot(k)].ppid = p_pid[p] /\ p_pid[p] # INVALID_PID
    BY SlotIn DEF KidPids, ChildOf
  <2>2. pidinfo[Slot(k)].ppid = INVALID_PID
    BY <2>1 DEF Init, pidinfo_create, NoInfo
  <2>. QED  BY <2>1, <2>2
<1>4. ASSUME NEW p \in Procs PROVE KidStatuses[p] = Family!NoKids
  BY <1>2, <1>3 DEF ShownRight, Family!NoKids
<1>5. KidStatuses = [p \in Procs |-> Family!NoKids]
  BY <1>2, <1>4 DEF ShownRight
<1>. QED  BY <1>5 DEF Init, Family!FamilyInit, INVALID_PID, KERNEL_PID

\* fork, exit and wait are the family's, for any number of processes, slots and
\* pids: a status goes to the parent whose child it is, once.
THEOREM FamilyRefinement == Spec => ImplementsFamily
BY SpecInvariant, FamilyStart, FamilyStep, PTL DEF Spec, ImplementsFamily, Family!FamilySpec
=============================================================================
