---------------------------- MODULE SemfsOftProofs ----------------------------
(***************************************************************************)
(* The semaphore file system of Semfs.tla, for any number of callers,      *)
(* names, semaphores and vnodes: reference counts are exact, an open vnode *)
(* is in the table and the only one of its semaphore, and a semaphore is   *)
(* there exactly as long as it is needed.                                  *)
(*                                                                         *)
(* The open file table of asst2, Oft.tla, for one process and tables,      *)
(* files and calls of any size: ref_count is the number of descriptors     *)
(* that name an open file, and the calls are those of the manual.  With    *)
(* two processes neither is so: two calls of open may find the same slot.  *)
(***************************************************************************)
EXTENDS Semfs, Oft, FiniteSetTheorems, WellFoundedInduction, TLAPS

-----------------------------------------------------------------------------
(* The inductive invariant, part by part *)

\* The calls that have semfs_dirlock.
HasDirlock(t) ==
  pc[t] \in {"insert", "getvnode", "link", "undo", "unlink", "unlinked", "clear"}

\* The directory has the entry semfs_creat made, and its semaphore no vnode.
Creating(t) == pc[t] = "getvnode" /\ name[t] # None

\* Who has which lock, and what a call has at hand at each place.
Locks ==
  \A t \in Threads :
    /\ semfs_dirlock = t <=> HasDirlock(t)
    /\ semfs_tablelock = t <=> pc[t] = "unhook"
    /\ pc[t] \in {"unlinked", "clear"} => sems_lock[semnum[t]] = t
    /\ pc[t] = "using" => sems_lock[semv_semnum[open[t]]] = t
    /\ HasDirlock(t) /\ pc[t] # "getvnode" => name[t] \in Names
    /\ HasDirlock(t) /\ pc[t] # "insert" => semnum[t] \in Sems
    /\ ~HasDirlock(t) => name[t] = None /\ semnum[t] = None
    /\ pc[t] \in {"insert", "getvnode", "undo"} => open[t] = None
    /\ pc[t] \in {"using", "link", "last", "unhook", "destroy"} => open[t] \in Vnodes

\* The table of vnodes: one for each open semaphore, with a reference; a vnode
\* being reclaimed is out of it and has its one reference left.
VnodesInTable ==
  /\ \A v, w \in semfs_vnodes : semv_semnum[v] = semv_semnum[w] => v = w
  /\ \A v \in semfs_vnodes : semv_semnum[v] \in Sems /\ vn_refcount[v] # 0
  /\ \A s \in Sems : sems_hasvnode[s] <=> InUse(s)

OpenVnodes ==
  \A t \in Threads : open[t] # None =>
    /\ semv_semnum[open[t]] \in Sems
    /\ open[t] \in semfs_vnodes <=> ~Reclaimed(t)
    /\ Reclaimed(t) => \A u \in Threads : open[u] = open[t] => u = t

\* Names are of semaphores of their own.  One that is not linked is being created
\* or removed.
Entries ==
  /\ \A n, m \in Names : semfs_dents[n] # None /\ semfs_dents[n] = semfs_dents[m] => n = m
  /\ \A s \in Sems : Named(s) \/ InUse(s) => s \in semfs_sems
  /\ \A s \in semfs_sems : sems_linked[s] => Named(s)
  /\ \A s \in Sems : Named(s) => sems_linked[s] \/ \E t \in Threads :
       semnum[t] = s /\ (Creating(t) \/ pc[t] \in {"link", "unlinked", "clear"})

\* What is true of a name and its semaphore while a call with semfs_dirlock is at
\* work on them.
AtHandOf(t) ==
  /\ pc[t] = "insert" => semfs_dents[name[t]] = None
  /\ Creating(t) \/ pc[t] \in {"link", "unlink", "unlinked", "clear"} =>
       semfs_dents[name[t]] = semnum[t]
  /\ pc[t] = "undo" => ~Named(semnum[t])
  /\ (pc[t] = "getvnode" /\ name[t] = None) \/ pc[t] = "unlink" => sems_linked[semnum[t]]
  /\ Creating(t) \/ pc[t] \in {"unlinked", "clear"} => ~sems_linked[semnum[t]]
  /\ Creating(t) \/ pc[t] \in {"undo", "clear"} => ~sems_hasvnode[semnum[t]]
  /\ pc[t] = "link" => semv_semnum[open[t]] = semnum[t]

AtHand == \A t \in Threads : AtHandOf(t)

\* A semaphore whose vnode is being reclaimed has no other, and was not made just
\* now.
Unhooking ==
  \A u \in Threads : pc[u] = "unhook" =>
    /\ ~sems_hasvnode[semv_semnum[open[u]]]
    /\ \A t \in Threads :
         Creating(t) \/ pc[t] = "undo" => semnum[t] # semv_semnum[open[u]]

\* Why a semaphore is still there.
Needed(s) ==
  \/ sems_linked[s] \/ InUse(s)
  \/ \E t \in Threads : \/ semnum[t] = s /\ (Creating(t) \/ pc[t] \in {"undo", "unlinked", "clear"})
                        \/ pc[t] = "unhook" /\ semv_semnum[open[t]] = s

Kept == \A s \in semfs_sems : Needed(s)

IInv ==
  /\ TypeOK /\ Locks /\ VnodesInTable /\ OpenVnodes /\ RefcountExact
  /\ Entries /\ AtHand /\ Unhooking /\ Kept

-----------------------------------------------------------------------------
(* Counting references *)

\* A vnode is open in finitely many threads.
LEMMA HoldersFinite ==
  ASSUME NEW v
  PROVE  IsFiniteSet(Holders(v)) /\ Cardinality(Holders(v)) \in Nat
<1>1. IsFiniteSet(Holders(v))
  BY FS_Subset, SemfsAssumption DEF Holders
<1>. QED  BY <1>1, FS_CardinalityType

\* A count of zero is of a vnode nobody has, a count of one of a vnode one has.
LEMMA Counts ==
  ASSUME RefcountExact, NEW v \in Vnodes
  PROVE  /\ vn_refcount[v] = 0 => \A t \in Threads : open[t] # v
         /\ vn_refcount[v] = 1 => \A t, u \in Threads : open[t] = v /\ open[u] = v => t = u
<1>1. IsFiniteSet(Holders(v)) /\ vn_refcount[v] = Cardinality(Holders(v))
  BY HoldersFinite DEF RefcountExact
<1>2. vn_refcount[v] = 0 => Holders(v) = {}
  BY <1>1, FS_EmptySet
<1>3. vn_refcount[v] = 1 => \E x : Holders(v) = {x}
  BY <1>1, FS_Singleton
<1>. QED  BY <1>2, <1>3 DEF Holders

\* A reference more for a thread that had none, and one less.
LEMMA CountUp ==
  ASSUME TypeOK, RefcountExact, NEW t \in Threads, NEW v \in Vnodes, open[t] = None,
         open' = [open EXCEPT ![t] = v],
         vn_refcount' = [vn_refcount EXCEPT ![v] = vn_refcount[v] + 1]
  PROVE  RefcountExact'
<1>. SUFFICES ASSUME NEW w \in Vnodes PROVE vn_refcount'[w] = Cardinality(Holders(w)')
  BY DEF RefcountExact
<1>1. IsFiniteSet(Holders(w)) /\ vn_refcount[w] = Cardinality(Holders(w))
  BY HoldersFinite DEF RefcountExact
<1>2. CASE w = v
  <2>1. Holders(w)' = Holders(w) \cup {t} /\ t \notin Holders(w)
    BY <1>2, SemfsAssumption DEF TypeOK, Holders
  <2>2. Cardinality(Holders(w)') = Cardinality(Holders(w)) + 1
    BY <1>1, <2>1, FS_AddElement
  <2>. QED  BY <1>1, <1>2, <2>2 DEF TypeOK
<1>3. CASE w # v
  <2>1. Holders(w)' = Holders(w)
    BY <1>3, SemfsAssumption DEF TypeOK, Holders
  <2>. QED  BY <1>1, <1>3, <2>1 DEF TypeOK
<1>. QED  BY <1>2, <1>3

\* vn_decref by a holder: one reference less, one holder less.
LEMMA CountDown ==
  ASSUME TypeOK, RefcountExact, NEW t \in Threads, NEW v \in Vnodes, open[t] = v,
         open' = [open EXCEPT ![t] = None],
         vn_refcount' = [vn_refcount EXCEPT ![v] = vn_refcount[v] - 1]
  PROVE  RefcountExact'
<1>. SUFFICES ASSUME NEW w \in Vnodes PROVE vn_refcount'[w] = Cardinality(Holders(w)')
  BY DEF RefcountExact
<1>1. IsFiniteSet(Holders(w)) /\ vn_refcount[w] = Cardinality(Holders(w))
  BY HoldersFinite DEF RefcountExact
<1>2. CASE w = v
  <2>1. Holders(w)' = Holders(w) \ {t} /\ t \in Holders(w)
    BY <1>2, SemfsAssumption DEF TypeOK, Holders
  <2>2. Cardinality(Holders(w)') = Cardinality(Holders(w)) - 1
    BY <1>1, <2>1, FS_RemoveElement
  <2>. QED  BY <1>1, <1>2, <2>2 DEF TypeOK
<1>3. CASE w # v
  <2>1. Holders(w)' = Holders(w)
    BY <1>3, SemfsAssumption DEF TypeOK, Holders
  <2>. QED  BY <1>1, <1>3, <2>1 DEF TypeOK
<1>. QED  BY <1>2, <1>3

-----------------------------------------------------------------------------
(* One lemma for each step *)

\* semfs_lookup finds the name.
LEMMA FindStep ==
  ASSUME IInv, NEW t \in Threads, NEW n \in Names, Find(t, n)
  PROVE  IInv'
<1>1. /\ TypeOK /\ Locks /\ VnodesInTable /\ OpenVnodes /\ RefcountExact
      /\ Entries /\ AtHand /\ Unhooking /\ Kept
  BY DEF IInv
<1>2. /\ pc[t] = "idle" /\ open[t] = None /\ semfs_dirlock = None /\ semfs_dents[n] # None
      /\ semfs_dirlock' = t
      /\ semnum' = [semnum EXCEPT ![t] = semfs_dents[n]]
      /\ pc' = [pc EXCEPT ![t] = "getvnode"]
      /\ UNCHANGED <<semfs_dents, semfs_sems, semfs_vnodes, semfs_tablelock, sems_lock,
                     sems_hasvnode, sems_linked, vn_refcount, semv_semnum, open, name, panic>>
  BY DEF Find, Goto, Return, dir, table, sems, vns
<1>3. TypeOK'
  BY <1>1, <1>2, SemfsAssumption DEF TypeOK, Places
<1>4. Locks'
  BY <1>1, <1>2, SemfsAssumption DEF Locks, HasDirlock, TypeOK
<1>5. VnodesInTable'
  BY <1>1, <1>2, SemfsAssumption DEF VnodesInTable, InUse, TypeOK
<1>6. OpenVnodes'
  BY <1>1, <1>2, SemfsAssumption DEF OpenVnodes, Reclaimed, TypeOK
<1>7. Entries'
  BY <1>1, <1>2, SemfsAssumption DEF Entries, Named, InUse, Creating, TypeOK
<1>8. Unhooking'
  BY <1>1, <1>2, SemfsAssumption DEF Unhooking, Creating, TypeOK, Locks, HasDirlock
<1>9. Kept'
  BY <1>1, <1>2, SemfsAssumption DEF Kept, Needed, Creating, InUse, TypeOK, Locks, HasDirlock
<1>10. AtHand'
  <2>. SUFFICES ASSUME NEW u \in Threads PROVE AtHandOf(u)'
    BY DEF AtHand
  <2>1. CASE u # t
    <3>1. ~HasDirlock(u)'
      BY <1>1, <1>2, <2>1, SemfsAssumption DEF Locks, HasDirlock, TypeOK
    <3>. QED  BY <3>1 DEF AtHandOf, HasDirlock, Creating
  <2>2. CASE u = t
    BY <1>1, <1>2, <2>2, SemfsAssumption
       DEF AtHandOf, AtHand, Creating, Named, TypeOK, Locks, HasDirlock, Entries
  <2>. QED  BY <2>1, <2>2
<1>11. RefcountExact'
  BY <1>1, <1>2 DEF RefcountExact, Holders
<1>. QED  BY <1>3, <1>4, <1>5, <1>6, <1>7, <1>8, <1>9, <1>10, <1>11 DEF IInv

\* semfs_creat finds no such name.
LEMMA CreateStep ==
  ASSUME IInv, NEW t \in Threads, NEW n \in Names, Create(t, n)
  PROVE  IInv'
<1>1. /\ TypeOK /\ Locks /\ VnodesInTable /\ OpenVnodes /\ RefcountExact
      /\ Entries /\ AtHand /\ Unhooking /\ Kept
  BY DEF IInv
<1>2. /\ pc[t] = "idle" /\ open[t] = None /\ semfs_dirlock = None /\ semfs_dents[n] = None
      /\ semfs_dirlock' = t
      /\ name' = [name EXCEPT ![t] = n]
      /\ pc' = [pc EXCEPT ![t] = "insert"]
      /\ UNCHANGED <<semfs_dents, semfs_sems, semfs_vnodes, semfs_tablelock, sems_lock,
                     sems_hasvnode, sems_linked, vn_refcount, semv_semnum, open, semnum, panic>>
  BY DEF Create, Goto, Return, dir, table, sems, vns
<1>3. TypeOK'
  BY <1>1, <1>2, SemfsAssumption DEF TypeOK, Places
<1>4. Locks'
  BY <1>1, <1>2, SemfsAssumption DEF Locks, HasDirlock, TypeOK
<1>5. VnodesInTable'
  BY <1>1, <1>2, SemfsAssumption DEF VnodesInTable, InUse, TypeOK
<1>6. OpenVnodes'
  BY <1>1, <1>2, SemfsAssumption DEF OpenVnodes, Reclaimed, TypeOK
<1>7. Entries'
  BY <1>1, <1>2, SemfsAssumption DEF Entries, Named, InUse, Creating, TypeOK
<1>8. Unhooking'
  BY <1>1, <1>2, SemfsAssumption DEF Unhooking, Creating, TypeOK
<1>9. Kept'
  BY <1>1, <1>2, SemfsAssumption DEF Kept, Needed, Creating, InUse, TypeOK
<1>10. AtHand'
  <2>. SUFFICES ASSUME NEW u \in Threads PROVE AtHandOf(u)'
    BY DEF AtHand
  <2>1. CASE u # t
    <3>1. ~HasDirlock(u)'
      BY <1>1, <1>2, <2>1, SemfsAssumption DEF Locks, HasDirlock, TypeOK
    <3>. QED  BY <3>1 DEF AtHandOf, HasDirlock, Creating
  <2>2. CASE u = t
    BY <1>1, <1>2, <2>2, SemfsAssumption
       DEF AtHandOf, AtHand, Creating, Named, TypeOK, Locks, HasDirlock, Entries
  <2>. QED  BY <2>1, <2>2
<1>11. RefcountExact'
  BY <1>1, <1>2 DEF RefcountExact, Holders
<1>. QED  BY <1>3, <1>4, <1>5, <1>6, <1>7, <1>8, <1>9, <1>10, <1>11 DEF IInv

\* semfs_creat: the slot was free, so nothing had its semaphore.
LEMMA InsertStep ==
  ASSUME IInv, NEW t \in Threads, NEW s \in Sems, Insert(t, s)
  PROVE  IInv'
<1>1. /\ TypeOK /\ Locks /\ VnodesInTable /\ OpenVnodes /\ RefcountExact
      /\ Entries /\ AtHand /\ Unhooking /\ Kept
  BY DEF IInv
<1>2. /\ pc[t] = "insert" /\ semfs_tablelock = None /\ s \notin semfs_sems
      /\ semfs_sems' = semfs_sems \cup {s}
      /\ semfs_dents' = [semfs_dents EXCEPT ![name[t]] = s]
      /\ sems_hasvnode' = [sems_hasvnode EXCEPT ![s] = FALSE]
      /\ sems_linked' = [sems_linked EXCEPT ![s] = FALSE]
      /\ semnum' = [semnum EXCEPT ![t] = s]
      /\ pc' = [pc EXCEPT ![t] = "getvnode"]
      /\ UNCHANGED <<semfs_vnodes, semfs_dirlock, semfs_tablelock, sems_lock, vn_refcount,
                     semv_semnum, open, name, panic>>
  BY DEF Insert, Goto, Return, dir, table, sems, vns
<1>u. \A u \in Threads : pc[u] # "unhook"
  BY <1>1, <1>2, SemfsAssumption DEF Locks, TypeOK
<1>d. \A u \in Threads : u # t => ~HasDirlock(u)
  BY <1>1, <1>2, SemfsAssumption DEF Locks, HasDirlock, TypeOK
<1>h. name[t] \in Names /\ semfs_dents[name[t]] = None
  BY <1>1, <1>2 DEF Locks, HasDirlock, AtHand, AtHandOf
<1>f. ~Named(s) /\ ~InUse(s)
  BY <1>1, <1>2 DEF Entries
<1>n. \A x \in Sems : Named(x)' <=> Named(x) \/ x = s
  BY <1>1, <1>2, <1>h, SemfsAssumption DEF Named, TypeOK
<1>i. \A x : InUse(x)' <=> InUse(x)
  BY <1>2 DEF InUse
<1>3. TypeOK'
  BY <1>1, <1>2, <1>u, <1>d, <1>h, <1>f, <1>n, <1>i, SemfsAssumption DEF TypeOK, Places
<1>4. Locks'
  BY <1>1, <1>2, <1>u, <1>d, <1>h, <1>f, <1>n, <1>i, SemfsAssumption DEF Locks, HasDirlock, TypeOK
<1>5. VnodesInTable'
  BY <1>1, <1>2, <1>u, <1>d, <1>h, <1>f, <1>n, <1>i, SemfsAssumption DEF VnodesInTable, TypeOK
<1>6. OpenVnodes'
  BY <1>1, <1>2, <1>u, <1>d, <1>h, <1>f, <1>n, <1>i, SemfsAssumption
     DEF OpenVnodes, Reclaimed, TypeOK
<1>7. Entries'
  <2>1. (\A a, b \in Names : semfs_dents[a] # None /\ semfs_dents[a] = semfs_dents[b] => a = b)'
    BY <1>1, <1>2, <1>u, <1>d, <1>h, <1>f, <1>n, <1>i, SemfsAssumption DEF Entries, Named, TypeOK
  <2>2. (\A x \in Sems : Named(x) \/ InUse(x) => x \in semfs_sems)'
    BY <1>1, <1>2, <1>u, <1>d, <1>h, <1>f, <1>n, <1>i, SemfsAssumption DEF Entries, TypeOK
  <2>3. (\A x \in semfs_sems : sems_linked[x] => Named(x))'
    BY <1>1, <1>2, <1>u, <1>d, <1>h, <1>f, <1>n, <1>i, SemfsAssumption DEF Entries, TypeOK
  <2>4. (\A x \in Sems : Named(x) => sems_linked[x] \/ \E u \in Threads :
            semnum[u] = x /\ (Creating(u) \/ pc[u] \in {"link", "unlinked", "clear"}))'
    BY <1>1, <1>2, <1>u, <1>d, <1>h, <1>f, <1>n, <1>i, SemfsAssumption
       DEF Entries, Creating, HasDirlock, TypeOK
  <2>. QED  BY <2>1, <2>2, <2>3, <2>4 DEF Entries
<1>8. Unhooking'
  BY <1>1, <1>2, <1>u, <1>d, <1>h, <1>f, <1>n, <1>i, SemfsAssumption
     DEF Unhooking, Creating, TypeOK, HasDirlock, Locks
<1>9. Kept'
  BY <1>1, <1>2, <1>u, <1>d, <1>h, <1>f, <1>n, <1>i, SemfsAssumption
     DEF Kept, Needed, Creating, TypeOK, Locks, HasDirlock
<1>10. AtHand'
  <2>. SUFFICES ASSUME NEW u \in Threads PROVE AtHandOf(u)'
    BY DEF AtHand
  <2>1. CASE u # t
    <3>1. ~HasDirlock(u)'
      BY <1>1, <1>2, <2>1, SemfsAssumption DEF Locks, HasDirlock, TypeOK
    <3>. QED  BY <3>1 DEF AtHandOf, HasDirlock, Creating
  <2>2. CASE u = t
    BY <1>1, <1>2, <1>u, <1>d, <1>h, <1>f, <1>n, <1>i, <2>2, SemfsAssumption
       DEF AtHandOf, AtHand, Creating, Named, TypeOK, Locks, HasDirlock, Entries
  <2>. QED  BY <2>1, <2>2
<1>11. RefcountExact'
  BY <1>1, <1>2 DEF RefcountExact, Holders
<1>. QED  BY <1>3, <1>4, <1>5, <1>6, <1>7, <1>8, <1>9, <1>10, <1>11 DEF IInv

\* semfs_creat: there is no slot.
LEMMA InsertFailsStep ==
  ASSUME IInv, NEW t \in Threads, InsertFails(t)
  PROVE  IInv'
<1>1. /\ TypeOK /\ Locks /\ VnodesInTable /\ OpenVnodes /\ RefcountExact
      /\ Entries /\ AtHand /\ Unhooking /\ Kept
  BY DEF IInv
<1>2. /\ pc[t] = "insert"
      /\ semfs_dirlock' = None
      /\ name' = [name EXCEPT ![t] = None]
      /\ semnum' = [semnum EXCEPT ![t] = None]
      /\ pc' = [pc EXCEPT ![t] = "idle"]
      /\ UNCHANGED <<semfs_dents, semfs_sems, semfs_vnodes, semfs_tablelock, sems_lock,
                     sems_hasvnode, sems_linked, vn_refcount, semv_semnum, open, panic>>
  BY DEF InsertFails, Goto, Return, dir, table, sems, vns
<1>3. TypeOK'
  BY <1>1, <1>2, SemfsAssumption DEF TypeOK, Places
<1>4. Locks'
  BY <1>1, <1>2, SemfsAssumption DEF Locks, HasDirlock, TypeOK
<1>5. VnodesInTable'
  BY <1>1, <1>2, SemfsAssumption DEF VnodesInTable, InUse, TypeOK
<1>6. OpenVnodes'
  BY <1>1, <1>2, SemfsAssumption DEF OpenVnodes, Reclaimed, TypeOK
<1>7. Entries'
  BY <1>1, <1>2, SemfsAssumption DEF Entries, Named, InUse, Creating, TypeOK
<1>8. Unhooking'
  BY <1>1, <1>2, SemfsAssumption DEF Unhooking, Creating, TypeOK
<1>9. Kept'
  BY <1>1, <1>2, SemfsAssumption DEF Kept, Needed, Creating, InUse, TypeOK
<1>10. AtHand'
  <2>. SUFFICES ASSUME NEW u \in Threads PROVE AtHandOf(u)'
    BY DEF AtHand
  <2>1. CASE u # t
    <3>1. ~HasDirlock(u)'
      BY <1>1, <1>2, <2>1, SemfsAssumption DEF Locks, HasDirlock, TypeOK
    <3>. QED  BY <3>1 DEF AtHandOf, HasDirlock, Creating
  <2>2. CASE u = t
    BY <1>1, <1>2, <2>2, SemfsAssumption
       DEF AtHandOf, AtHand, Creating, Named, TypeOK, Locks, HasDirlock, Entries
  <2>. QED  BY <2>1, <2>2
<1>11. RefcountExact'
  BY <1>1, <1>2 DEF RefcountExact, Holders
<1>. QED  BY <1>3, <1>4, <1>5, <1>6, <1>7, <1>8, <1>9, <1>10, <1>11 DEF IInv

\* semfs_creat takes the entry back: it was of a semaphore not linked yet.
LEMMA MakeVnodeFailsCreatStep ==
  ASSUME IInv, NEW t \in Threads, MakeVnodeFails(t), name[t] # None
  PROVE  IInv'
<1>1. /\ TypeOK /\ Locks /\ VnodesInTable /\ OpenVnodes /\ RefcountExact
      /\ Entries /\ AtHand /\ Unhooking /\ Kept
  BY DEF IInv
<1>2. /\ pc[t] = "getvnode" /\ semfs_tablelock = None
      /\ semfs_dents' = [semfs_dents EXCEPT ![name[t]] = None]
      /\ pc' = [pc EXCEPT ![t] = "undo"]
      /\ UNCHANGED <<semfs_sems, semfs_vnodes, semfs_dirlock, semfs_tablelock, sems_lock,
                     sems_hasvnode, sems_linked, vn_refcount, semv_semnum, open, name, semnum,
                     panic>>
  BY DEF MakeVnodeFails, Goto, Return, dir, table, sems, vns
<1>d. \A u \in Threads : u # t => ~HasDirlock(u)
  BY <1>1, <1>2, SemfsAssumption DEF Locks, HasDirlock, TypeOK
<1>h. name[t] \in Names /\ semnum[t] \in Sems /\ semfs_dents[name[t]] = semnum[t]
  BY <1>1, <1>2, SemfsAssumption DEF Locks, HasDirlock, AtHand, AtHandOf, Creating, TypeOK
<1>n. \A x \in Sems : Named(x)' <=> Named(x) /\ x # semnum[t]
  BY <1>1, <1>2, <1>h, SemfsAssumption DEF Named, Entries, TypeOK
<1>i. \A x : InUse(x)' <=> InUse(x)
  BY <1>2 DEF InUse
<1>k. ~sems_linked[semnum[t]]
  BY <1>1, <1>2 DEF AtHand, AtHandOf, Creating
<1>3. TypeOK'
  BY <1>1, <1>2, <1>d, <1>h, <1>n, <1>i, <1>k, SemfsAssumption
     DEF TypeOK, Places, NotLoaded, VnodesInTable
<1>4. Locks'
  BY <1>1, <1>2, <1>d, <1>h, <1>n, <1>i, <1>k, SemfsAssumption
     DEF Locks, HasDirlock, TypeOK, NotLoaded, VnodesInTable
<1>5. VnodesInTable'
  BY <1>1, <1>2, <1>d, <1>h, <1>n, <1>i, <1>k, SemfsAssumption
     DEF VnodesInTable, TypeOK, NotLoaded
<1>6. OpenVnodes'
  BY <1>1, <1>2, <1>d, <1>h, <1>n, <1>i, <1>k, SemfsAssumption
     DEF OpenVnodes, Reclaimed, TypeOK, NotLoaded, VnodesInTable
<1>7. Entries'
  <2>1. (\A a, b \in Names : semfs_dents[a] # None /\ semfs_dents[a] = semfs_dents[b] => a = b)'
    BY <1>1, <1>2, <1>d, <1>h, <1>n, <1>i, <1>k, SemfsAssumption DEF Entries, Named, TypeOK
  <2>2. (\A x \in Sems : Named(x) \/ InUse(x) => x \in semfs_sems)'
    BY <1>1, <1>2, <1>d, <1>h, <1>n, <1>i, <1>k, SemfsAssumption DEF Entries, TypeOK
  <2>3. (\A x \in semfs_sems : sems_linked[x] => Named(x))'
    BY <1>1, <1>2, <1>d, <1>h, <1>n, <1>i, <1>k, SemfsAssumption DEF Entries, TypeOK
  <2>4. (\A x \in Sems : Named(x) => sems_linked[x] \/ \E u \in Threads :
            semnum[u] = x /\ (Creating(u) \/ pc[u] \in {"link", "unlinked", "clear"}))'
    BY <1>1, <1>2, <1>d, <1>h, <1>n, <1>i, <1>k, SemfsAssumption
       DEF Entries, Creating, HasDirlock, TypeOK
  <2>. QED  BY <2>1, <2>2, <2>3, <2>4 DEF Entries
<1>8. Unhooking'
  BY <1>1, <1>2, <1>d, <1>h, <1>n, <1>i, <1>k, SemfsAssumption
     DEF Unhooking, Creating, TypeOK, Locks, HasDirlock, NotLoaded, VnodesInTable
<1>9. Kept'
  BY <1>1, <1>2, <1>d, <1>h, <1>n, <1>i, <1>k, SemfsAssumption
     DEF Kept, Needed, Creating, TypeOK, Locks, HasDirlock, NotLoaded, VnodesInTable
<1>10. AtHand'
  <2>. SUFFICES ASSUME NEW u \in Threads PROVE AtHandOf(u)'
    BY DEF AtHand
  <2>1. CASE u # t
    <3>1. ~HasDirlock(u)'
      BY <1>1, <1>2, <2>1, SemfsAssumption DEF Locks, HasDirlock, TypeOK
    <3>. QED  BY <3>1 DEF AtHandOf, HasDirlock, Creating
  <2>2. CASE u = t
    BY <1>1, <1>2, <1>d, <1>h, <1>n, <1>i, <1>k, <2>2, SemfsAssumption
       DEF AtHandOf, AtHand, Creating, Named, TypeOK, Locks, HasDirlock, Entries
  <2>. QED  BY <2>1, <2>2
<1>11. RefcountExact'
  BY <1>1, <1>2 DEF RefcountExact, Holders
<1>. QED  BY <1>3, <1>4, <1>5, <1>6, <1>7, <1>8, <1>9, <1>10, <1>11 DEF IInv

\* semfs_lookup: there is no memory.
LEMMA MakeVnodeFailsLookupStep ==
  ASSUME IInv, NEW t \in Threads, MakeVnodeFails(t), name[t] = None
  PROVE  IInv'
<1>1. /\ TypeOK /\ Locks /\ VnodesInTable /\ OpenVnodes /\ RefcountExact
      /\ Entries /\ AtHand /\ Unhooking /\ Kept
  BY DEF IInv
<1>2. /\ pc[t] = "getvnode"
      /\ semfs_dirlock' = None
      /\ name' = [name EXCEPT ![t] = None]
      /\ semnum' = [semnum EXCEPT ![t] = None]
      /\ pc' = [pc EXCEPT ![t] = "idle"]
      /\ UNCHANGED <<semfs_dents, semfs_sems, semfs_vnodes, semfs_tablelock, sems_lock,
                     sems_hasvnode, sems_linked, vn_refcount, semv_semnum, open, panic>>
  BY DEF MakeVnodeFails, Goto, Return, dir, table, sems, vns
<1>3. TypeOK'
  BY <1>1, <1>2, SemfsAssumption DEF TypeOK, Places
<1>4. Locks'
  BY <1>1, <1>2, SemfsAssumption DEF Locks, HasDirlock, TypeOK
<1>5. VnodesInTable'
  BY <1>1, <1>2, SemfsAssumption DEF VnodesInTable, InUse, TypeOK
<1>6. OpenVnodes'
  BY <1>1, <1>2, SemfsAssumption DEF OpenVnodes, Reclaimed, TypeOK
<1>7. Entries'
  BY <1>1, <1>2, SemfsAssumption DEF Entries, Named, InUse, Creating, TypeOK
<1>8. Unhooking'
  BY <1>1, <1>2, SemfsAssumption DEF Unhooking, Creating, TypeOK
<1>9. Kept'
  BY <1>1, <1>2, SemfsAssumption DEF Kept, Needed, Creating, InUse, TypeOK
<1>10. AtHand'
  <2>. SUFFICES ASSUME NEW u \in Threads PROVE AtHandOf(u)'
    BY DEF AtHand
  <2>1. CASE u # t
    <3>1. ~HasDirlock(u)'
      BY <1>1, <1>2, <2>1, SemfsAssumption DEF Locks, HasDirlock, TypeOK
    <3>. QED  BY <3>1 DEF AtHandOf, HasDirlock, Creating
  <2>2. CASE u = t
    BY <1>1, <1>2, <2>2, SemfsAssumption
       DEF AtHandOf, AtHand, Creating, Named, TypeOK, Locks, HasDirlock, Entries
  <2>. QED  BY <2>1, <2>2
<1>11. RefcountExact'
  BY <1>1, <1>2 DEF RefcountExact, Holders
<1>. QED  BY <1>3, <1>4, <1>5, <1>6, <1>7, <1>8, <1>9, <1>10, <1>11 DEF IInv

\* semfs_creat takes the slot back: its semaphore has neither name nor vnode.
LEMMA UndoStep ==
  ASSUME IInv, NEW t \in Threads, Undo(t)
  PROVE  IInv'
<1>1. /\ TypeOK /\ Locks /\ VnodesInTable /\ OpenVnodes /\ RefcountExact
      /\ Entries /\ AtHand /\ Unhooking /\ Kept
  BY DEF IInv
<1>2. /\ pc[t] = "undo" /\ semfs_tablelock = None
      /\ semfs_sems' = semfs_sems \ {semnum[t]}
      /\ semfs_dirlock' = None
      /\ name' = [name EXCEPT ![t] = None]
      /\ semnum' = [semnum EXCEPT ![t] = None]
      /\ pc' = [pc EXCEPT ![t] = "idle"]
      /\ UNCHANGED <<semfs_dents, semfs_vnodes, semfs_tablelock, sems_lock, sems_hasvnode,
                     sems_linked, vn_refcount, semv_semnum, open, panic>>
  BY DEF Undo, Goto, Return, dir, table, sems, vns
<1>d. \A u \in Threads : u # t => ~HasDirlock(u)
  BY <1>1, <1>2, SemfsAssumption DEF Locks, HasDirlock, TypeOK
<1>h. semnum[t] \in Sems /\ ~Named(semnum[t]) /\ ~InUse(semnum[t])
  BY <1>1, <1>2, SemfsAssumption DEF Locks, HasDirlock, AtHand, AtHandOf, VnodesInTable
<1>n. \A x : Named(x)' <=> Named(x)
  BY <1>2 DEF Named
<1>i. \A x : InUse(x)' <=> InUse(x)
  BY <1>2 DEF InUse
<1>3. TypeOK'
  BY <1>1, <1>2, <1>d, <1>h, <1>n, <1>i, SemfsAssumption DEF TypeOK, Places
<1>4. Locks'
  BY <1>1, <1>2, <1>d, <1>h, <1>n, <1>i, SemfsAssumption DEF Locks, HasDirlock, TypeOK
<1>5. VnodesInTable'
  BY <1>1, <1>2, <1>d, <1>h, <1>n, <1>i, SemfsAssumption DEF VnodesInTable, TypeOK
<1>6. OpenVnodes'
  BY <1>1, <1>2, <1>d, <1>h, <1>n, <1>i, SemfsAssumption DEF OpenVnodes, Reclaimed, TypeOK
<1>7. Entries'
  <2>1. (\A a, b \in Names : semfs_dents[a] # None /\ semfs_dents[a] = semfs_dents[b] => a = b)'
    BY <1>1, <1>2, <1>d, <1>h, <1>n, <1>i, SemfsAssumption DEF Entries, Named, TypeOK
  <2>2. (\A x \in Sems : Named(x) \/ InUse(x) => x \in semfs_sems)'
    BY <1>1, <1>2, <1>d, <1>h, <1>n, <1>i, SemfsAssumption DEF Entries, TypeOK
  <2>3. (\A x \in semfs_sems : sems_linked[x] => Named(x))'
    BY <1>1, <1>2, <1>d, <1>h, <1>n, <1>i, SemfsAssumption DEF Entries, TypeOK
  <2>4. (\A x \in Sems : Named(x) => sems_linked[x] \/ \E u \in Threads :
            semnum[u] = x /\ (Creating(u) \/ pc[u] \in {"link", "unlinked", "clear"}))'
    BY <1>1, <1>2, <1>d, <1>h, <1>n, <1>i, SemfsAssumption
       DEF Entries, Creating, HasDirlock, TypeOK
  <2>. QED  BY <2>1, <2>2, <2>3, <2>4 DEF Entries
<1>8. Unhooking'
  BY <1>1, <1>2, <1>d, <1>h, <1>n, <1>i, SemfsAssumption
     DEF Unhooking, Creating, TypeOK, Locks, HasDirlock
<1>9. Kept'
  BY <1>1, <1>2, <1>d, <1>h, <1>n, <1>i, SemfsAssumption
     DEF Kept, Needed, Creating, TypeOK, Locks, HasDirlock
<1>10. AtHand'
  <2>. SUFFICES ASSUME NEW u \in Threads PROVE AtHandOf(u)'
    BY DEF AtHand
  <2>1. CASE u # t
    <3>1. ~HasDirlock(u)'
      BY <1>1, <1>2, <2>1, SemfsAssumption DEF Locks, HasDirlock, TypeOK
    <3>. QED  BY <3>1 DEF AtHandOf, HasDirlock, Creating
  <2>2. CASE u = t
    BY <1>1, <1>2, <1>d, <1>h, <1>n, <1>i, <2>2, SemfsAssumption
       DEF AtHandOf, AtHand, Creating, Named, TypeOK, Locks, HasDirlock, Entries
  <2>. QED  BY <2>1, <2>2
<1>11. RefcountExact'
  BY <1>1, <1>2 DEF RefcountExact, Holders
<1>. QED  BY <1>3, <1>4, <1>5, <1>6, <1>7, <1>8, <1>9, <1>10, <1>11 DEF IInv

\* The end of semfs_creat: the entry is still there.
LEMMA LinkStep ==
  ASSUME IInv, NEW t \in Threads, Link(t)
  PROVE  IInv'
<1>1. /\ TypeOK /\ Locks /\ VnodesInTable /\ OpenVnodes /\ RefcountExact
      /\ Entries /\ AtHand /\ Unhooking /\ Kept
  BY DEF IInv
<1>2. /\ pc[t] = "link"
      /\ sems_linked' = [sems_linked EXCEPT ![semnum[t]] = TRUE]
      /\ semfs_dirlock' = None
      /\ name' = [name EXCEPT ![t] = None]
      /\ semnum' = [semnum EXCEPT ![t] = None]
      /\ pc' = [pc EXCEPT ![t] = "idle"]
      /\ UNCHANGED <<semfs_dents, semfs_sems, semfs_vnodes, semfs_tablelock, sems_lock,
                     sems_hasvnode, vn_refcount, semv_semnum, open, panic>>
  BY DEF Link, Goto, Return, dir, table, sems, vns
<1>d. \A u \in Threads : u # t => ~HasDirlock(u)
  BY <1>1, <1>2, SemfsAssumption DEF Locks, HasDirlock, TypeOK
<1>h. name[t] \in Names /\ semnum[t] \in Sems /\ semfs_dents[name[t]] = semnum[t]
  BY <1>1, <1>2, SemfsAssumption DEF Locks, HasDirlock, AtHand, AtHandOf, Creating, TypeOK
<1>n. \A x : Named(x)' <=> Named(x)
  BY <1>2 DEF Named
<1>i. \A x : InUse(x)' <=> InUse(x)
  BY <1>2 DEF InUse
<1>k. Named(semnum[t])
  BY <1>h DEF Named
<1>3. TypeOK'
  BY <1>1, <1>2, <1>d, <1>h, <1>n, <1>i, <1>k, SemfsAssumption DEF TypeOK, Places
<1>4. Locks'
  BY <1>1, <1>2, <1>d, <1>h, <1>n, <1>i, <1>k, SemfsAssumption DEF Locks, HasDirlock, TypeOK
<1>5. VnodesInTable'
  BY <1>1, <1>2, <1>d, <1>h, <1>n, <1>i, <1>k, SemfsAssumption DEF VnodesInTable, TypeOK
<1>6. OpenVnodes'
  BY <1>1, <1>2, <1>d, <1>h, <1>n, <1>i, <1>k, SemfsAssumption DEF OpenVnodes, Reclaimed, TypeOK
<1>7. Entries'
  <2>1. (\A a, b \in Names : semfs_dents[a] # None /\ semfs_dents[a] = semfs_dents[b] => a = b)'
    BY <1>1, <1>2, <1>d, <1>h, <1>n, <1>i, <1>k, SemfsAssumption DEF Entries, Named, TypeOK
  <2>2. (\A x \in Sems : Named(x) \/ InUse(x) => x \in semfs_sems)'
    BY <1>1, <1>2, <1>d, <1>h, <1>n, <1>i, <1>k, SemfsAssumption DEF Entries, TypeOK
  <2>3. (\A x \in semfs_sems : sems_linked[x] => Named(x))'
    BY <1>1, <1>2, <1>d, <1>h, <1>n, <1>i, <1>k, SemfsAssumption DEF Entries, TypeOK
  <2>4. (\A x \in Sems : Named(x) => sems_linked[x] \/ \E u \in Threads :
            semnum[u] = x /\ (Creating(u) \/ pc[u] \in {"link", "unlinked", "clear"}))'
    BY <1>1, <1>2, <1>d, <1>h, <1>n, <1>i, <1>k, SemfsAssumption
       DEF Entries, Creating, HasDirlock, TypeOK
  <2>. QED  BY <2>1, <2>2, <2>3, <2>4 DEF Entries
<1>8. Unhooking'
  BY <1>1, <1>2, <1>d, <1>h, <1>n, <1>i, <1>k, SemfsAssumption
     DEF Unhooking, Creating, TypeOK, Locks, HasDirlock
<1>9. Kept'
  BY <1>1, <1>2, <1>d, <1>h, <1>n, <1>i, <1>k, SemfsAssumption
     DEF Kept, Needed, Creating, TypeOK, Locks, HasDirlock
<1>10. AtHand'
  <2>. SUFFICES ASSUME NEW u \in Threads PROVE AtHandOf(u)'
    BY DEF AtHand
  <2>1. CASE u # t
    <3>1. ~HasDirlock(u)'
      BY <1>1, <1>2, <2>1, SemfsAssumption DEF Locks, HasDirlock, TypeOK
    <3>. QED  BY <3>1 DEF AtHandOf, HasDirlock, Creating
  <2>2. CASE u = t
    BY <1>1, <1>2, <1>d, <1>h, <1>n, <1>i, <1>k, <2>2, SemfsAssumption
       DEF AtHandOf, AtHand, Creating, Named, TypeOK, Locks, HasDirlock, Entries
  <2>. QED  BY <2>1, <2>2
<1>11. RefcountExact'
  BY <1>1, <1>2 DEF RefcountExact, Holders
<1>. QED  BY <1>3, <1>4, <1>5, <1>6, <1>7, <1>8, <1>9, <1>10, <1>11 DEF IInv

\* semfs_remove finds the name.
LEMMA RemoveStep ==
  ASSUME IInv, NEW t \in Threads, NEW n \in Names, Remove(t, n)
  PROVE  IInv'
<1>1. /\ TypeOK /\ Locks /\ VnodesInTable /\ OpenVnodes /\ RefcountExact
      /\ Entries /\ AtHand /\ Unhooking /\ Kept
  BY DEF IInv
<1>2. /\ pc[t] = "idle" /\ semfs_dirlock = None /\ semfs_tablelock = None /\ semfs_dents[n] # None
      /\ semfs_dirlock' = t
      /\ name' = [name EXCEPT ![t] = n]
      /\ semnum' = [semnum EXCEPT ![t] = semfs_dents[n]]
      /\ pc' = [pc EXCEPT ![t] = "unlink"]
      /\ UNCHANGED <<semfs_dents, semfs_sems, semfs_vnodes, semfs_tablelock, sems_lock,
                     sems_hasvnode, sems_linked, vn_refcount, semv_semnum, open, panic>>
  BY DEF Remove, Goto, Return, dir, table, sems, vns
<1>3. TypeOK'
  BY <1>1, <1>2, SemfsAssumption DEF TypeOK, Places
<1>4. Locks'
  BY <1>1, <1>2, SemfsAssumption DEF Locks, HasDirlock, TypeOK
<1>5. VnodesInTable'
  BY <1>1, <1>2, SemfsAssumption DEF VnodesInTable, InUse, TypeOK
<1>6. OpenVnodes'
  BY <1>1, <1>2, SemfsAssumption DEF OpenVnodes, Reclaimed, TypeOK
<1>7. Entries'
  BY <1>1, <1>2, SemfsAssumption DEF Entries, Named, InUse, Creating, TypeOK
<1>8. Unhooking'
  BY <1>1, <1>2, SemfsAssumption DEF Unhooking, Creating, TypeOK
<1>9. Kept'
  BY <1>1, <1>2, SemfsAssumption DEF Kept, Needed, Creating, InUse, TypeOK
<1>10. AtHand'
  <2>. SUFFICES ASSUME NEW u \in Threads PROVE AtHandOf(u)'
    BY DEF AtHand
  <2>1. CASE u # t
    <3>1. ~HasDirlock(u)'
      BY <1>1, <1>2, <2>1, SemfsAssumption DEF Locks, HasDirlock, TypeOK
    <3>. QED  BY <3>1 DEF AtHandOf, HasDirlock, Creating
  <2>2. CASE u = t
    BY <1>1, <1>2, <2>2, SemfsAssumption
       DEF AtHandOf, AtHand, Creating, Named, TypeOK, Locks, HasDirlock, Entries
  <2>. QED  BY <2>1, <2>2
<1>11. RefcountExact'
  BY <1>1, <1>2 DEF RefcountExact, Holders
<1>. QED  BY <1>3, <1>4, <1>5, <1>6, <1>7, <1>8, <1>9, <1>10, <1>11 DEF IInv

\* semfs_remove: the semaphore is without a name, the call with its lock.
LEMMA UnlinkStep ==
  ASSUME IInv, NEW t \in Threads, Unlink(t), sems_linked[semnum[t]]
  PROVE  IInv'
<1>1. /\ TypeOK /\ Locks /\ VnodesInTable /\ OpenVnodes /\ RefcountExact
      /\ Entries /\ AtHand /\ Unhooking /\ Kept
  BY DEF IInv
<1>2. /\ pc[t] = "unlink" /\ sems_lock[semnum[t]] = None
      /\ sems_lock' = [sems_lock EXCEPT ![semnum[t]] = t]
      /\ sems_linked' = [sems_linked EXCEPT ![semnum[t]] = FALSE]
      /\ pc' = [pc EXCEPT ![t] = "unlinked"]
      /\ UNCHANGED <<semfs_dents, semfs_sems, semfs_vnodes, semfs_dirlock, semfs_tablelock,
                     sems_hasvnode, vn_refcount, semv_semnum, open, name, semnum, panic>>
  BY DEF Unlink, Goto, Return, dir, table, sems, vns
<1>3. TypeOK'
  BY <1>1, <1>2, SemfsAssumption DEF TypeOK, Places
<1>4. Locks'
  BY <1>1, <1>2, SemfsAssumption DEF Locks, HasDirlock, TypeOK
<1>5. VnodesInTable'
  BY <1>1, <1>2, SemfsAssumption DEF VnodesInTable, InUse, TypeOK
<1>6. OpenVnodes'
  BY <1>1, <1>2, SemfsAssumption DEF OpenVnodes, Reclaimed, TypeOK
<1>7. Entries'
  BY <1>1, <1>2, SemfsAssumption DEF Entries, Named, InUse, Creating, TypeOK
<1>8. Unhooking'
  BY <1>1, <1>2, SemfsAssumption DEF Unhooking, Creating, TypeOK
<1>9. Kept'
  BY <1>1, <1>2, SemfsAssumption DEF Kept, Needed, Creating, InUse, TypeOK
<1>10. AtHand'
  <2>. SUFFICES ASSUME NEW u \in Threads PROVE AtHandOf(u)'
    BY DEF AtHand
  <2>1. CASE u # t
    <3>1. ~HasDirlock(u)'
      BY <1>1, <1>2, <2>1, SemfsAssumption DEF Locks, HasDirlock, TypeOK
    <3>. QED  BY <3>1 DEF AtHandOf, HasDirlock, Creating
  <2>2. CASE u = t
    BY <1>1, <1>2, <2>2, SemfsAssumption
       DEF AtHandOf, AtHand, Creating, Named, TypeOK, Locks, HasDirlock, Entries
  <2>. QED  BY <2>1, <2>2
<1>11. RefcountExact'
  BY <1>1, <1>2 DEF RefcountExact, Holders
<1>. QED  BY <1>3, <1>4, <1>5, <1>6, <1>7, <1>8, <1>9, <1>10, <1>11 DEF IInv

\* semfs_remove: the semaphore is open, and is kept.
LEMMA UnlinkedOpenStep ==
  ASSUME IInv, NEW t \in Threads, Unlinked(t), sems_hasvnode[semnum[t]]
  PROVE  IInv'
<1>1. /\ TypeOK /\ Locks /\ VnodesInTable /\ OpenVnodes /\ RefcountExact
      /\ Entries /\ AtHand /\ Unhooking /\ Kept
  BY DEF IInv
<1>2. /\ pc[t] = "unlinked"
      /\ semfs_dents' = [semfs_dents EXCEPT ![name[t]] = None]
      /\ semfs_dirlock' = None
      /\ sems_lock' = [sems_lock EXCEPT ![semnum[t]] = None]
      /\ name' = [name EXCEPT ![t] = None]
      /\ semnum' = [semnum EXCEPT ![t] = None]
      /\ pc' = [pc EXCEPT ![t] = "idle"]
      /\ UNCHANGED <<semfs_sems, semfs_vnodes, semfs_tablelock, sems_hasvnode, sems_linked,
                     vn_refcount, semv_semnum, open, panic>>
  BY DEF Unlinked, Forget, Goto, Return, dir, table, sems, vns
<1>d. \A u \in Threads : u # t => ~HasDirlock(u)
  BY <1>1, <1>2, SemfsAssumption DEF Locks, HasDirlock, TypeOK
<1>h. name[t] \in Names /\ semnum[t] \in Sems /\ semfs_dents[name[t]] = semnum[t]
  BY <1>1, <1>2, SemfsAssumption DEF Locks, HasDirlock, AtHand, AtHandOf, Creating, TypeOK
<1>n. \A x \in Sems : Named(x)' <=> Named(x) /\ x # semnum[t]
  BY <1>1, <1>2, <1>h, SemfsAssumption DEF Named, Entries, TypeOK
<1>i. \A x : InUse(x)' <=> InUse(x)
  BY <1>2 DEF InUse
<1>k. InUse(semnum[t]) /\ ~sems_linked[semnum[t]]
  BY <1>1, <1>2, <1>h DEF VnodesInTable, AtHand, AtHandOf
<1>3. TypeOK'
  BY <1>1, <1>2, <1>d, <1>h, <1>n, <1>i, <1>k, SemfsAssumption DEF TypeOK, Places
<1>4. Locks'
  BY <1>1, <1>2, <1>d, <1>h, <1>n, <1>i, <1>k, SemfsAssumption DEF Locks, HasDirlock, TypeOK
<1>5. VnodesInTable'
  BY <1>1, <1>2, <1>d, <1>h, <1>n, <1>i, <1>k, SemfsAssumption DEF VnodesInTable, TypeOK
<1>6. OpenVnodes'
  BY <1>1, <1>2, <1>d, <1>h, <1>n, <1>i, <1>k, SemfsAssumption DEF OpenVnodes, Reclaimed, TypeOK
<1>7. Entries'
  <2>1. (\A a, b \in Names : semfs_dents[a] # None /\ semfs_dents[a] = semfs_dents[b] => a = b)'
    BY <1>1, <1>2, <1>d, <1>h, <1>n, <1>i, <1>k, SemfsAssumption DEF Entries, Named, TypeOK
  <2>2. (\A x \in Sems : Named(x) \/ InUse(x) => x \in semfs_sems)'
    BY <1>1, <1>2, <1>d, <1>h, <1>n, <1>i, <1>k, SemfsAssumption DEF Entries, TypeOK
  <2>3. (\A x \in semfs_sems : sems_linked[x] => Named(x))'
    BY <1>1, <1>2, <1>d, <1>h, <1>n, <1>i, <1>k, SemfsAssumption DEF Entries, TypeOK
  <2>4. (\A x \in Sems : Named(x) => sems_linked[x] \/ \E u \in Threads :
            semnum[u] = x /\ (Creating(u) \/ pc[u] \in {"link", "unlinked", "clear"}))'
    BY <1>1, <1>2, <1>d, <1>h, <1>n, <1>i, <1>k, SemfsAssumption
       DEF Entries, Creating, HasDirlock, TypeOK
  <2>. QED  BY <2>1, <2>2, <2>3, <2>4 DEF Entries
<1>8. Unhooking'
  BY <1>1, <1>2, <1>d, <1>h, <1>n, <1>i, <1>k, SemfsAssumption
     DEF Unhooking, Creating, TypeOK, Locks, HasDirlock
<1>9. Kept'
  BY <1>1, <1>2, <1>d, <1>h, <1>n, <1>i, <1>k, SemfsAssumption
     DEF Kept, Needed, Creating, TypeOK, Locks, HasDirlock
<1>10. AtHand'
  <2>. SUFFICES ASSUME NEW u \in Threads PROVE AtHandOf(u)'
    BY DEF AtHand
  <2>1. CASE u # t
    <3>1. ~HasDirlock(u)'
      BY <1>1, <1>2, <2>1, SemfsAssumption DEF Locks, HasDirlock, TypeOK
    <3>. QED  BY <3>1 DEF AtHandOf, HasDirlock, Creating
  <2>2. CASE u = t
    BY <1>1, <1>2, <1>d, <1>h, <1>n, <1>i, <1>k, <2>2, SemfsAssumption
       DEF AtHandOf, AtHand, Creating, Named, TypeOK, Locks, HasDirlock, Entries
  <2>. QED  BY <2>1, <2>2
<1>11. RefcountExact'
  BY <1>1, <1>2 DEF RefcountExact, Holders
<1>. QED  BY <1>3, <1>4, <1>5, <1>6, <1>7, <1>8, <1>9, <1>10, <1>11 DEF IInv

\* semfs_remove: it is not open, and cannot be opened.
LEMMA UnlinkedClosedStep ==
  ASSUME IInv, NEW t \in Threads, Unlinked(t), ~sems_hasvnode[semnum[t]]
  PROVE  IInv'
<1>1. /\ TypeOK /\ Locks /\ VnodesInTable /\ OpenVnodes /\ RefcountExact
      /\ Entries /\ AtHand /\ Unhooking /\ Kept
  BY DEF IInv
<1>2. /\ pc[t] = "unlinked"
      /\ pc' = [pc EXCEPT ![t] = "clear"]
      /\ UNCHANGED <<semfs_dents, semfs_sems, semfs_vnodes, semfs_dirlock, semfs_tablelock,
                     sems_lock, sems_hasvnode, sems_linked, vn_refcount, semv_semnum, open,
                     name, semnum, panic>>
  BY DEF Unlinked, Goto, Return, dir, table, sems, vns
<1>3. TypeOK'
  BY <1>1, <1>2, SemfsAssumption DEF TypeOK, Places
<1>4. Locks'
  BY <1>1, <1>2, SemfsAssumption DEF Locks, HasDirlock, TypeOK
<1>5. VnodesInTable'
  BY <1>1, <1>2, SemfsAssumption DEF VnodesInTable, InUse, TypeOK
<1>6. OpenVnodes'
  BY <1>1, <1>2, SemfsAssumption DEF OpenVnodes, Reclaimed, TypeOK
<1>7. Entries'
  BY <1>1, <1>2, SemfsAssumption DEF Entries, Named, InUse, Creating, TypeOK
<1>8. Unhooking'
  BY <1>1, <1>2, SemfsAssumption DEF Unhooking, Creating, TypeOK
<1>9. Kept'
  BY <1>1, <1>2, SemfsAssumption DEF Kept, Needed, Creating, InUse, TypeOK
<1>10. AtHand'
  <2>. SUFFICES ASSUME NEW u \in Threads PROVE AtHandOf(u)'
    BY DEF AtHand
  <2>1. CASE u # t
    <3>1. ~HasDirlock(u)'
      BY <1>1, <1>2, <2>1, SemfsAssumption DEF Locks, HasDirlock, TypeOK
    <3>. QED  BY <3>1 DEF AtHandOf, HasDirlock, Creating
  <2>2. CASE u = t
    BY <1>1, <1>2, <2>2, SemfsAssumption
       DEF AtHandOf, AtHand, Creating, Named, TypeOK, Locks, HasDirlock, Entries
  <2>. QED  BY <2>1, <2>2
<1>11. RefcountExact'
  BY <1>1, <1>2 DEF RefcountExact, Holders
<1>. QED  BY <1>3, <1>4, <1>5, <1>6, <1>7, <1>8, <1>9, <1>10, <1>11 DEF IInv

\* semfs_remove: nothing needs the semaphore it takes out of the table.
LEMMA ClearStep ==
  ASSUME IInv, NEW t \in Threads, Clear(t)
  PROVE  IInv'
<1>1. /\ TypeOK /\ Locks /\ VnodesInTable /\ OpenVnodes /\ RefcountExact
      /\ Entries /\ AtHand /\ Unhooking /\ Kept
  BY DEF IInv
<1>2. /\ pc[t] = "clear" /\ semfs_tablelock = None
      /\ semfs_sems' = semfs_sems \ {semnum[t]}
      /\ semfs_dents' = [semfs_dents EXCEPT ![name[t]] = None]
      /\ semfs_dirlock' = None
      /\ sems_lock' = [sems_lock EXCEPT ![semnum[t]] = None]
      /\ name' = [name EXCEPT ![t] = None]
      /\ semnum' = [semnum EXCEPT ![t] = None]
      /\ pc' = [pc EXCEPT ![t] = "idle"]
      /\ UNCHANGED <<semfs_vnodes, semfs_tablelock, sems_hasvnode, sems_linked, vn_refcount,
                     semv_semnum, open, panic>>
  BY DEF Clear, Forget, Goto, Return, dir, table, sems, vns
<1>d. \A u \in Threads : u # t => ~HasDirlock(u)
  BY <1>1, <1>2, SemfsAssumption DEF Locks, HasDirlock, TypeOK
<1>h. name[t] \in Names /\ semnum[t] \in Sems /\ semfs_dents[name[t]] = semnum[t]
  BY <1>1, <1>2, SemfsAssumption DEF Locks, HasDirlock, AtHand, AtHandOf, Creating, TypeOK
<1>n. \A x \in Sems : Named(x)' <=> Named(x) /\ x # semnum[t]
  BY <1>1, <1>2, <1>h, SemfsAssumption DEF Named, Entries, TypeOK
<1>i. \A x : InUse(x)' <=> InUse(x)
  BY <1>2 DEF InUse
<1>k. ~InUse(semnum[t]) /\ ~sems_linked[semnum[t]]
  BY <1>1, <1>2, <1>h DEF VnodesInTable, AtHand, AtHandOf
<1>3. TypeOK'
  BY <1>1, <1>2, <1>d, <1>h, <1>n, <1>i, <1>k, SemfsAssumption DEF TypeOK, Places
<1>4. Locks'
  BY <1>1, <1>2, <1>d, <1>h, <1>n, <1>i, <1>k, SemfsAssumption DEF Locks, HasDirlock, TypeOK
<1>5. VnodesInTable'
  BY <1>1, <1>2, <1>d, <1>h, <1>n, <1>i, <1>k, SemfsAssumption DEF VnodesInTable, TypeOK
<1>6. OpenVnodes'
  BY <1>1, <1>2, <1>d, <1>h, <1>n, <1>i, <1>k, SemfsAssumption DEF OpenVnodes, Reclaimed, TypeOK
<1>7. Entries'
  <2>1. (\A a, b \in Names : semfs_dents[a] # None /\ semfs_dents[a] = semfs_dents[b] => a = b)'
    BY <1>1, <1>2, <1>d, <1>h, <1>n, <1>i, <1>k, SemfsAssumption DEF Entries, Named, TypeOK
  <2>2. (\A x \in Sems : Named(x) \/ InUse(x) => x \in semfs_sems)'
    BY <1>1, <1>2, <1>d, <1>h, <1>n, <1>i, <1>k, SemfsAssumption DEF Entries, TypeOK
  <2>3. (\A x \in semfs_sems : sems_linked[x] => Named(x))'
    BY <1>1, <1>2, <1>d, <1>h, <1>n, <1>i, <1>k, SemfsAssumption DEF Entries, TypeOK
  <2>4. (\A x \in Sems : Named(x) => sems_linked[x] \/ \E u \in Threads :
            semnum[u] = x /\ (Creating(u) \/ pc[u] \in {"link", "unlinked", "clear"}))'
    BY <1>1, <1>2, <1>d, <1>h, <1>n, <1>i, <1>k, SemfsAssumption
       DEF Entries, Creating, HasDirlock, TypeOK
  <2>. QED  BY <2>1, <2>2, <2>3, <2>4 DEF Entries
<1>8. Unhooking'
  BY <1>1, <1>2, <1>d, <1>h, <1>n, <1>i, <1>k, SemfsAssumption
     DEF Unhooking, Creating, TypeOK, Locks, HasDirlock
<1>9. Kept'
  BY <1>1, <1>2, <1>d, <1>h, <1>n, <1>i, <1>k, SemfsAssumption
     DEF Kept, Needed, Creating, TypeOK, Locks, HasDirlock
<1>10. AtHand'
  <2>. SUFFICES ASSUME NEW u \in Threads PROVE AtHandOf(u)'
    BY DEF AtHand
  <2>1. CASE u # t
    <3>1. ~HasDirlock(u)'
      BY <1>1, <1>2, <2>1, SemfsAssumption DEF Locks, HasDirlock, TypeOK
    <3>. QED  BY <3>1 DEF AtHandOf, HasDirlock, Creating
  <2>2. CASE u = t
    BY <1>1, <1>2, <1>d, <1>h, <1>n, <1>i, <1>k, <2>2, SemfsAssumption
       DEF AtHandOf, AtHand, Creating, Named, TypeOK, Locks, HasDirlock, Entries
  <2>. QED  BY <2>1, <2>2
<1>11. RefcountExact'
  BY <1>1, <1>2 DEF RefcountExact, Holders
<1>. QED  BY <1>3, <1>4, <1>5, <1>6, <1>7, <1>8, <1>9, <1>10, <1>11 DEF IInv

\* A call on an open semaphore returns.
LEMMA EndUseStep ==
  ASSUME IInv, NEW t \in Threads, EndUse(t)
  PROVE  IInv'
<1>1. /\ TypeOK /\ Locks /\ VnodesInTable /\ OpenVnodes /\ RefcountExact
      /\ Entries /\ AtHand /\ Unhooking /\ Kept
  BY DEF IInv
<1>2. /\ pc[t] = "using"
      /\ sems_lock' = [sems_lock EXCEPT ![semv_semnum[open[t]]] = None]
      /\ pc' = [pc EXCEPT ![t] = "idle"]
      /\ UNCHANGED <<semfs_dents, semfs_sems, semfs_vnodes, semfs_dirlock, semfs_tablelock,
                     sems_hasvnode, sems_linked, vn_refcount, semv_semnum, open, name, semnum,
                     panic>>
  BY DEF EndUse, Goto, Return, dir, table, sems, vns
<1>3. TypeOK'
  BY <1>1, <1>2, SemfsAssumption DEF TypeOK, Places
<1>4. Locks'
  BY <1>1, <1>2, SemfsAssumption DEF Locks, HasDirlock, TypeOK
<1>5. VnodesInTable'
  BY <1>1, <1>2, SemfsAssumption DEF VnodesInTable, InUse, TypeOK
<1>6. OpenVnodes'
  BY <1>1, <1>2, SemfsAssumption DEF OpenVnodes, Reclaimed, TypeOK
<1>7. Entries'
  BY <1>1, <1>2, SemfsAssumption DEF Entries, Named, InUse, Creating, TypeOK
<1>8. Unhooking'
  BY <1>1, <1>2, SemfsAssumption DEF Unhooking, Creating, TypeOK
<1>9. Kept'
  BY <1>1, <1>2, SemfsAssumption DEF Kept, Needed, Creating, InUse, TypeOK
<1>10. AtHand'
  <2>. SUFFICES ASSUME NEW u \in Threads PROVE AtHandOf(u)'
    BY DEF AtHand
  <2>. QED  BY <1>1, <1>2, SemfsAssumption DEF AtHandOf, AtHand, Creating, Named, TypeOK
<1>11. RefcountExact'
  BY <1>1, <1>2 DEF RefcountExact, Holders
<1>. QED  BY <1>3, <1>4, <1>5, <1>6, <1>7, <1>8, <1>9, <1>10, <1>11 DEF IInv

\* A call on an open semaphore begins.
LEMMA UseStep ==
  ASSUME IInv, NEW t \in Threads, Use(t), semv_semnum[open[t]] \in semfs_sems
  PROVE  IInv'
<1>1. /\ TypeOK /\ Locks /\ VnodesInTable /\ OpenVnodes /\ RefcountExact
      /\ Entries /\ AtHand /\ Unhooking /\ Kept
  BY DEF IInv
<1>2. /\ pc[t] = "idle" /\ open[t] # None /\ sems_lock[semv_semnum[open[t]]] = None
      /\ sems_lock' = [sems_lock EXCEPT ![semv_semnum[open[t]]] = t]
      /\ pc' = [pc EXCEPT ![t] = "using"]
      /\ UNCHANGED <<semfs_dents, semfs_sems, semfs_vnodes, semfs_dirlock, semfs_tablelock,
                     sems_hasvnode, sems_linked, vn_refcount, semv_semnum, open, name, semnum,
                     panic>>
  BY DEF Use, Goto, Return, dir, table, sems, vns
<1>3. TypeOK'
  BY <1>1, <1>2, SemfsAssumption DEF TypeOK, Places
<1>4. Locks'
  BY <1>1, <1>2, SemfsAssumption DEF Locks, HasDirlock, TypeOK
<1>5. VnodesInTable'
  BY <1>1, <1>2, SemfsAssumption DEF VnodesInTable, InUse, TypeOK
<1>6. OpenVnodes'
  BY <1>1, <1>2, SemfsAssumption DEF OpenVnodes, Reclaimed, TypeOK
<1>7. Entries'
  BY <1>1, <1>2, SemfsAssumption DEF Entries, Named, InUse, Creating, TypeOK
<1>8. Unhooking'
  BY <1>1, <1>2, SemfsAssumption DEF Unhooking, Creating, TypeOK
<1>9. Kept'
  BY <1>1, <1>2, SemfsAssumption DEF Kept, Needed, Creating, InUse, TypeOK
<1>10. AtHand'
  <2>. SUFFICES ASSUME NEW u \in Threads PROVE AtHandOf(u)'
    BY DEF AtHand
  <2>. QED  BY <1>1, <1>2, SemfsAssumption DEF AtHandOf, AtHand, Creating, Named, TypeOK
<1>11. RefcountExact'
  BY <1>1, <1>2 DEF RefcountExact, Holders
<1>. QED  BY <1>3, <1>4, <1>5, <1>6, <1>7, <1>8, <1>9, <1>10, <1>11 DEF IInv

\* semfs_getvnode finds a vnode: one not being reclaimed, as it is in the table.
LEMMA GetVnodeStep ==
  ASSUME IInv, NEW t \in Threads, NEW v \in Vnodes, GetVnode(t, v), name[t] = None
  PROVE  IInv'
<1>1. /\ TypeOK /\ Locks /\ VnodesInTable /\ OpenVnodes /\ RefcountExact
      /\ Entries /\ AtHand /\ Unhooking /\ Kept
  BY DEF IInv
<1>2. /\ pc[t] = "getvnode" /\ semfs_tablelock = None /\ v \in semfs_vnodes /\ semv_semnum[v] = semnum[t]
      /\ vn_refcount' = [vn_refcount EXCEPT ![v] = @ + 1]
      /\ open' = [open EXCEPT ![t] = v]
      /\ semfs_dirlock' = None
      /\ name' = [name EXCEPT ![t] = None]
      /\ semnum' = [semnum EXCEPT ![t] = None]
      /\ pc' = [pc EXCEPT ![t] = "idle"]
      /\ UNCHANGED <<semfs_dents, semfs_sems, semfs_vnodes, semfs_tablelock, sems_lock,
                     sems_hasvnode, sems_linked, semv_semnum, panic>>
  BY DEF GetVnode, Got, Goto, Return, dir, table, sems, vns
<1>3. TypeOK'
  BY <1>1, <1>2, SemfsAssumption DEF TypeOK, Places
<1>4. Locks'
  BY <1>1, <1>2, SemfsAssumption DEF Locks, HasDirlock, TypeOK
<1>5. VnodesInTable'
  BY <1>1, <1>2, SemfsAssumption DEF VnodesInTable, InUse, TypeOK
<1>6. OpenVnodes'
  <2>1. semv_semnum[v] \in Sems /\ ~Reclaimed(t)'
    BY <1>1, <1>2 DEF VnodesInTable, Reclaimed, TypeOK
  <2>2. \A u \in Threads : open[u] = v => ~Reclaimed(u)
    BY <1>1, <1>2, SemfsAssumption DEF OpenVnodes
  <2>. QED  BY <1>1, <1>2, <2>1, <2>2, SemfsAssumption DEF OpenVnodes, Reclaimed, TypeOK
<1>7. Entries'
  BY <1>1, <1>2, SemfsAssumption DEF Entries, Named, InUse, Creating, TypeOK
<1>8. Unhooking'
  BY <1>1, <1>2, SemfsAssumption DEF Unhooking, Creating, TypeOK
<1>9. Kept'
  BY <1>1, <1>2, SemfsAssumption DEF Kept, Needed, Creating, InUse, TypeOK
<1>10. AtHand'
  <2>. SUFFICES ASSUME NEW u \in Threads PROVE AtHandOf(u)'
    BY DEF AtHand
  <2>1. CASE u # t
    <3>1. ~HasDirlock(u)'
      BY <1>1, <1>2, <2>1, SemfsAssumption DEF Locks, HasDirlock, TypeOK
    <3>. QED  BY <3>1 DEF AtHandOf, HasDirlock, Creating
  <2>2. CASE u = t
    BY <1>1, <1>2, <2>2, SemfsAssumption
       DEF AtHandOf, AtHand, Creating, Named, TypeOK, Locks, HasDirlock, Entries
  <2>. QED  BY <2>1, <2>2
<1>11. RefcountExact'
  BY <1>1, <1>2, CountUp DEF Locks
<1>. QED  BY <1>3, <1>4, <1>5, <1>6, <1>7, <1>8, <1>9, <1>10, <1>11 DEF IInv

\* semfs_getvnode makes a vnode for semfs_lookup, of memory nobody uses.
LEMMA MakeVnodeLookupStep ==
  ASSUME IInv, NEW t \in Threads, NEW v \in Vnodes, MakeVnode(t, v), semnum[t] \in semfs_sems,
         ~sems_hasvnode[semnum[t]], name[t] = None
  PROVE  IInv'
<1>1. /\ TypeOK /\ Locks /\ VnodesInTable /\ OpenVnodes /\ RefcountExact
      /\ Entries /\ AtHand /\ Unhooking /\ Kept
  BY DEF IInv
<1>2. /\ pc[t] = "getvnode" /\ semfs_tablelock = None /\ vn_refcount[v] = 0
      /\ vn_refcount' = [vn_refcount EXCEPT ![v] = 1]
      /\ semv_semnum' = [semv_semnum EXCEPT ![v] = semnum[t]]
      /\ semfs_vnodes' = semfs_vnodes \cup {v}
      /\ sems_hasvnode' = [sems_hasvnode EXCEPT ![semnum[t]] = TRUE]
      /\ open' = [open EXCEPT ![t] = v]
      /\ semfs_dirlock' = None
      /\ name' = [name EXCEPT ![t] = None]
      /\ semnum' = [semnum EXCEPT ![t] = None]
      /\ pc' = [pc EXCEPT ![t] = "idle"]
      /\ NotLoaded(semnum[t])
      /\ UNCHANGED <<semfs_dents, semfs_sems, semfs_tablelock, sems_lock, sems_linked, panic>>
  BY DEF MakeVnode, Got, Goto, Return, dir, table, sems, vns
<1>u. \A u \in Threads : pc[u] # "unhook"
  BY <1>1, <1>2, SemfsAssumption DEF Locks, TypeOK
<1>o. v \notin semfs_vnodes /\ \A u \in Threads : open[u] # v
  BY <1>1, <1>2, Counts DEF VnodesInTable
<1>3. TypeOK'
  BY <1>1, <1>2, <1>u, <1>o, SemfsAssumption DEF TypeOK, Places, NotLoaded, VnodesInTable
<1>4. Locks'
  BY <1>1, <1>2, <1>u, <1>o, SemfsAssumption
     DEF Locks, HasDirlock, TypeOK, NotLoaded, VnodesInTable
<1>5. VnodesInTable'
  BY <1>1, <1>2, <1>u, <1>o, SemfsAssumption DEF VnodesInTable, InUse, TypeOK, NotLoaded
<1>6. OpenVnodes'
  BY <1>1, <1>2, <1>u, <1>o, SemfsAssumption
     DEF OpenVnodes, Reclaimed, TypeOK, NotLoaded, VnodesInTable
<1>7. Entries'
  BY <1>1, <1>2, <1>u, <1>o, SemfsAssumption
     DEF Entries, Named, InUse, Creating, TypeOK, NotLoaded, VnodesInTable
<1>8. Unhooking'
  BY <1>1, <1>2, <1>u, <1>o, SemfsAssumption
     DEF Unhooking, Creating, TypeOK, Locks, HasDirlock, NotLoaded, VnodesInTable
<1>9. Kept'
  BY <1>1, <1>2, <1>u, <1>o, SemfsAssumption
     DEF Kept, Needed, Creating, InUse, TypeOK, Locks, HasDirlock, NotLoaded, VnodesInTable
<1>10. AtHand'
  <2>. SUFFICES ASSUME NEW u \in Threads PROVE AtHandOf(u)'
    BY DEF AtHand
  <2>1. CASE u # t
    <3>1. ~HasDirlock(u)'
      BY <1>1, <1>2, <2>1, SemfsAssumption DEF Locks, HasDirlock, TypeOK
    <3>. QED  BY <3>1 DEF AtHandOf, HasDirlock, Creating
  <2>2. CASE u = t
    BY <1>1, <1>2, <1>u, <1>o, <2>2, SemfsAssumption
       DEF AtHandOf, AtHand, Creating, Named, TypeOK, Locks, HasDirlock, Entries
  <2>. QED  BY <2>1, <2>2
<1>11. RefcountExact'
  <2>1. open[t] = None /\ vn_refcount' = [vn_refcount EXCEPT ![v] = vn_refcount[v] + 1]
    BY <1>1, <1>2 DEF Locks
  <2>. QED  BY <1>1, <1>2, <2>1, CountUp
<1>. QED  BY <1>3, <1>4, <1>5, <1>6, <1>7, <1>8, <1>9, <1>10, <1>11 DEF IInv

\* semfs_getvnode makes a vnode for semfs_creat.
LEMMA MakeVnodeCreatStep ==
  ASSUME IInv, NEW t \in Threads, NEW v \in Vnodes, MakeVnode(t, v), semnum[t] \in semfs_sems,
         ~sems_hasvnode[semnum[t]], name[t] # None
  PROVE  IInv'
<1>1. /\ TypeOK /\ Locks /\ VnodesInTable /\ OpenVnodes /\ RefcountExact
      /\ Entries /\ AtHand /\ Unhooking /\ Kept
  BY DEF IInv
<1>2. /\ pc[t] = "getvnode" /\ semfs_tablelock = None /\ vn_refcount[v] = 0
      /\ vn_refcount' = [vn_refcount EXCEPT ![v] = 1]
      /\ semv_semnum' = [semv_semnum EXCEPT ![v] = semnum[t]]
      /\ semfs_vnodes' = semfs_vnodes \cup {v}
      /\ sems_hasvnode' = [sems_hasvnode EXCEPT ![semnum[t]] = TRUE]
      /\ open' = [open EXCEPT ![t] = v]
      /\ pc' = [pc EXCEPT ![t] = "link"]
      /\ NotLoaded(semnum[t])
      /\ UNCHANGED <<semfs_dents, semfs_sems, semfs_dirlock, semfs_tablelock, sems_lock,
                     sems_linked, name, semnum, panic>>
  BY DEF MakeVnode, Got, Goto, Return, dir, table, sems, vns
<1>u. \A u \in Threads : pc[u] # "unhook"
  BY <1>1, <1>2, SemfsAssumption DEF Locks, TypeOK
<1>o. v \notin semfs_vnodes /\ \A u \in Threads : open[u] # v
  BY <1>1, <1>2, Counts DEF VnodesInTable
<1>3. TypeOK'
  BY <1>1, <1>2, <1>u, <1>o, SemfsAssumption DEF TypeOK, Places, NotLoaded, VnodesInTable
<1>4. Locks'
  BY <1>1, <1>2, <1>u, <1>o, SemfsAssumption
     DEF Locks, HasDirlock, TypeOK, NotLoaded, VnodesInTable
<1>5. VnodesInTable'
  BY <1>1, <1>2, <1>u, <1>o, SemfsAssumption DEF VnodesInTable, InUse, TypeOK, NotLoaded
<1>6. OpenVnodes'
  BY <1>1, <1>2, <1>u, <1>o, SemfsAssumption
     DEF OpenVnodes, Reclaimed, TypeOK, NotLoaded, VnodesInTable
<1>7. Entries'
  BY <1>1, <1>2, <1>u, <1>o, SemfsAssumption
     DEF Entries, Named, InUse, Creating, TypeOK, NotLoaded, VnodesInTable
<1>8. Unhooking'
  BY <1>1, <1>2, <1>u, <1>o, SemfsAssumption
     DEF Unhooking, Creating, TypeOK, Locks, HasDirlock, NotLoaded, VnodesInTable
<1>9. Kept'
  BY <1>1, <1>2, <1>u, <1>o, SemfsAssumption
     DEF Kept, Needed, Creating, InUse, TypeOK, Locks, HasDirlock, NotLoaded, VnodesInTable
<1>10. AtHand'
  <2>. SUFFICES ASSUME NEW u \in Threads PROVE AtHandOf(u)'
    BY DEF AtHand
  <2>1. CASE u # t
    <3>1. ~HasDirlock(u)'
      BY <1>1, <1>2, <2>1, SemfsAssumption DEF Locks, HasDirlock, TypeOK
    <3>. QED  BY <3>1 DEF AtHandOf, HasDirlock, Creating
  <2>2. CASE u = t
    BY <1>1, <1>2, <1>u, <1>o, <2>2, SemfsAssumption
       DEF AtHandOf, AtHand, Creating, Named, TypeOK, Locks, HasDirlock, Entries
  <2>. QED  BY <2>1, <2>2
<1>11. RefcountExact'
  <2>1. open[t] = None /\ vn_refcount' = [vn_refcount EXCEPT ![v] = vn_refcount[v] + 1]
    BY <1>1, <1>2 DEF Locks
  <2>. QED  BY <1>1, <1>2, <2>1, CountUp
<1>. QED  BY <1>3, <1>4, <1>5, <1>6, <1>7, <1>8, <1>9, <1>10, <1>11 DEF IInv

\* vnode_decref drops a reference.
LEMMA DecrefStep ==
  ASSUME IInv, NEW t \in Threads, Decref(t)
  PROVE  IInv'
<1>1. /\ TypeOK /\ Locks /\ VnodesInTable /\ OpenVnodes /\ RefcountExact
      /\ Entries /\ AtHand /\ Unhooking /\ Kept
  BY DEF IInv
<1>2. /\ pc[t] = "idle" /\ open[t] # None /\ vn_refcount[open[t]] > 1
      /\ vn_refcount' = [vn_refcount EXCEPT ![open[t]] = @ - 1]
      /\ open' = [open EXCEPT ![t] = None]
      /\ UNCHANGED <<semfs_dents, semfs_sems, semfs_vnodes, semfs_dirlock, semfs_tablelock,
                     sems_lock, sems_hasvnode, sems_linked, semv_semnum, pc, name, semnum, panic>>
  BY DEF Decref, Goto, Return, dir, table, sems, vns
<1>3. TypeOK'
  BY <1>1, <1>2, SemfsAssumption DEF TypeOK, Places
<1>4. Locks'
  BY <1>1, <1>2, SemfsAssumption DEF Locks, HasDirlock, TypeOK
<1>5. VnodesInTable'
  BY <1>1, <1>2, SemfsAssumption DEF VnodesInTable, InUse, TypeOK
<1>6. OpenVnodes'
  BY <1>1, <1>2, SemfsAssumption DEF OpenVnodes, Reclaimed, TypeOK
<1>7. Entries'
  BY <1>1, <1>2, SemfsAssumption DEF Entries, Named, InUse, Creating, TypeOK
<1>8. Unhooking'
  BY <1>1, <1>2, SemfsAssumption DEF Unhooking, Creating, TypeOK
<1>9. Kept'
  BY <1>1, <1>2, SemfsAssumption DEF Kept, Needed, Creating, InUse, TypeOK
<1>10. AtHand'
  <2>. SUFFICES ASSUME NEW u \in Threads PROVE AtHandOf(u)'
    BY DEF AtHand
  <2>. QED  BY <1>1, <1>2, SemfsAssumption DEF AtHandOf, AtHand, Creating, Named, TypeOK
<1>11. RefcountExact'
  <2>1. open[t] \in Vnodes
    BY <1>1, <1>2 DEF Locks, TypeOK
  <2>. QED  BY <1>1, <1>2, <2>1, CountDown
<1>. QED  BY <1>3, <1>4, <1>5, <1>6, <1>7, <1>8, <1>9, <1>10, <1>11 DEF IInv

\* vnode_decref passes the last one on.
LEMMA DecrefLastStep ==
  ASSUME IInv, NEW t \in Threads, DecrefLast(t)
  PROVE  IInv'
<1>1. /\ TypeOK /\ Locks /\ VnodesInTable /\ OpenVnodes /\ RefcountExact
      /\ Entries /\ AtHand /\ Unhooking /\ Kept
  BY DEF IInv
<1>2. /\ pc[t] = "idle" /\ open[t] # None
      /\ pc' = [pc EXCEPT ![t] = "last"]
      /\ UNCHANGED <<semfs_dents, semfs_sems, semfs_vnodes, semfs_dirlock, semfs_tablelock,
                     sems_lock, sems_hasvnode, sems_linked, vn_refcount, semv_semnum, open,
                     name, semnum, panic>>
  BY DEF DecrefLast, Goto, Return, dir, table, sems, vns
<1>3. TypeOK'
  BY <1>1, <1>2, SemfsAssumption DEF TypeOK, Places
<1>4. Locks'
  BY <1>1, <1>2, SemfsAssumption DEF Locks, HasDirlock, TypeOK
<1>5. VnodesInTable'
  BY <1>1, <1>2, SemfsAssumption DEF VnodesInTable, InUse, TypeOK
<1>6. OpenVnodes'
  BY <1>1, <1>2, SemfsAssumption DEF OpenVnodes, Reclaimed, TypeOK
<1>7. Entries'
  BY <1>1, <1>2, SemfsAssumption DEF Entries, Named, InUse, Creating, TypeOK
<1>8. Unhooking'
  BY <1>1, <1>2, SemfsAssumption DEF Unhooking, Creating, TypeOK
<1>9. Kept'
  BY <1>1, <1>2, SemfsAssumption DEF Kept, Needed, Creating, InUse, TypeOK
<1>10. AtHand'
  <2>. SUFFICES ASSUME NEW u \in Threads PROVE AtHandOf(u)'
    BY DEF AtHand
  <2>. QED  BY <1>1, <1>2, SemfsAssumption DEF AtHandOf, AtHand, Creating, Named, TypeOK
<1>11. RefcountExact'
  BY <1>1, <1>2 DEF RefcountExact, Holders
<1>. QED  BY <1>3, <1>4, <1>5, <1>6, <1>7, <1>8, <1>9, <1>10, <1>11 DEF IInv

\* semfs_reclaim drops a reference.
LEMMA ReclaimBusyStep ==
  ASSUME IInv, NEW t \in Threads, ReclaimBusy(t)
  PROVE  IInv'
<1>1. /\ TypeOK /\ Locks /\ VnodesInTable /\ OpenVnodes /\ RefcountExact
      /\ Entries /\ AtHand /\ Unhooking /\ Kept
  BY DEF IInv
<1>2. /\ pc[t] = "last" /\ vn_refcount[open[t]] > 1
      /\ vn_refcount' = [vn_refcount EXCEPT ![open[t]] = @ - 1]
      /\ open' = [open EXCEPT ![t] = None]
      /\ pc' = [pc EXCEPT ![t] = "idle"]
      /\ UNCHANGED <<semfs_dents, semfs_sems, semfs_vnodes, semfs_dirlock, semfs_tablelock,
                     sems_lock, sems_hasvnode, sems_linked, semv_semnum, name, semnum, panic>>
  BY DEF ReclaimBusy, Goto, Return, dir, table, sems, vns
<1>h. open[t] \in Vnodes
  BY <1>1, <1>2 DEF Locks
<1>3. TypeOK'
  BY <1>1, <1>2, <1>h, SemfsAssumption DEF TypeOK, Places
<1>4. Locks'
  BY <1>1, <1>2, <1>h, SemfsAssumption DEF Locks, HasDirlock, TypeOK
<1>5. VnodesInTable'
  BY <1>1, <1>2, <1>h, SemfsAssumption DEF VnodesInTable, InUse, TypeOK
<1>6. OpenVnodes'
  BY <1>1, <1>2, <1>h, SemfsAssumption DEF OpenVnodes, Reclaimed, TypeOK
<1>7. Entries'
  BY <1>1, <1>2, <1>h, SemfsAssumption DEF Entries, Named, InUse, Creating, TypeOK
<1>8. Unhooking'
  BY <1>1, <1>2, <1>h, SemfsAssumption DEF Unhooking, Creating, TypeOK, Locks, HasDirlock
<1>9. Kept'
  BY <1>1, <1>2, <1>h, SemfsAssumption
     DEF Kept, Needed, Creating, InUse, TypeOK, Locks, HasDirlock
<1>10. AtHand'
  <2>. SUFFICES ASSUME NEW u \in Threads PROVE AtHandOf(u)'
    BY DEF AtHand
  <2>. QED  BY <1>1, <1>2, <1>h, SemfsAssumption DEF AtHandOf, AtHand, Creating, Named, TypeOK
<1>11. RefcountExact'
  <2>1. open[t] \in Vnodes
    BY <1>1, <1>2 DEF Locks, TypeOK
  <2>. QED  BY <1>1, <1>2, <2>1, CountDown
<1>. QED  BY <1>3, <1>4, <1>5, <1>6, <1>7, <1>8, <1>9, <1>10, <1>11 DEF IInv

\* semfs_reclaim takes the vnode out of the table: nobody else has it.
LEMMA ReclaimStep ==
  ASSUME IInv, NEW t \in Threads, Reclaim(t), sems_hasvnode[semv_semnum[open[t]]]
  PROVE  IInv'
<1>1. /\ TypeOK /\ Locks /\ VnodesInTable /\ OpenVnodes /\ RefcountExact
      /\ Entries /\ AtHand /\ Unhooking /\ Kept
  BY DEF IInv
<1>2. /\ pc[t] = "last" /\ semfs_tablelock = None /\ vn_refcount[open[t]] = 1
      /\ semfs_tablelock' = t
      /\ semfs_vnodes' = semfs_vnodes \ {open[t]}
      /\ sems_hasvnode' = [sems_hasvnode EXCEPT ![semv_semnum[open[t]]] = FALSE]
      /\ pc' = [pc EXCEPT ![t] = "unhook"]
      /\ UNCHANGED <<semfs_dents, semfs_sems, semfs_dirlock, sems_lock, sems_linked,
                     vn_refcount, semv_semnum, open, name, semnum, panic>>
  BY DEF Reclaim, Goto, Return, dir, table, sems, vns
<1>h. open[t] \in semfs_vnodes /\ semv_semnum[open[t]] \in Sems
  BY <1>1, <1>2, SemfsAssumption DEF Locks, OpenVnodes, Reclaimed, TypeOK
<1>o. \A u \in Threads : open[u] = open[t] => u = t
  BY <1>1, <1>2, Counts DEF Locks, TypeOK
<1>k. \A u \in Threads : pc[u] # "unhook"
  BY <1>1, <1>2, SemfsAssumption DEF Locks, TypeOK
<1>3. TypeOK'
  BY <1>1, <1>2, <1>h, <1>o, <1>k, SemfsAssumption DEF TypeOK, Places
<1>4. Locks'
  BY <1>1, <1>2, <1>h, <1>o, <1>k, SemfsAssumption DEF Locks, HasDirlock, TypeOK
<1>5. VnodesInTable'
  BY <1>1, <1>2, <1>h, <1>o, <1>k, SemfsAssumption DEF VnodesInTable, InUse, TypeOK
<1>6. OpenVnodes'
  BY <1>1, <1>2, <1>h, <1>o, <1>k, SemfsAssumption DEF OpenVnodes, Reclaimed, TypeOK
<1>7. Entries'
  BY <1>1, <1>2, <1>h, <1>o, <1>k, SemfsAssumption DEF Entries, Named, InUse, Creating, TypeOK
<1>8. Unhooking'
  BY <1>1, <1>2, <1>h, <1>o, <1>k, SemfsAssumption
     DEF Unhooking, Creating, TypeOK, Locks, HasDirlock, AtHand, AtHandOf
<1>9. Kept'
  BY <1>1, <1>2, <1>h, <1>o, <1>k, SemfsAssumption
     DEF Kept, Needed, Creating, InUse, TypeOK, Locks, HasDirlock
<1>10. AtHand'
  <2>. SUFFICES ASSUME NEW u \in Threads PROVE AtHandOf(u)'
    BY DEF AtHand
  <2>. QED  BY <1>1, <1>2, <1>h, <1>o, <1>k, SemfsAssumption
      DEF AtHandOf, AtHand, Creating, Named, TypeOK
<1>11. RefcountExact'
  BY <1>1, <1>2 DEF RefcountExact, Holders
<1>. QED  BY <1>3, <1>4, <1>5, <1>6, <1>7, <1>8, <1>9, <1>10, <1>11 DEF IInv

\* semfs_reclaim leaves a semaphore with a name.
LEMMA UnhookNamedStep ==
  ASSUME IInv, NEW t \in Threads, Unhook(t), sems_linked[semv_semnum[open[t]]]
  PROVE  IInv'
<1>1. /\ TypeOK /\ Locks /\ VnodesInTable /\ OpenVnodes /\ RefcountExact
      /\ Entries /\ AtHand /\ Unhooking /\ Kept
  BY DEF IInv
<1>2. /\ pc[t] = "unhook"
      /\ semfs_tablelock' = None
      /\ pc' = [pc EXCEPT ![t] = "destroy"]
      /\ UNCHANGED <<semfs_dents, semfs_sems, semfs_vnodes, semfs_dirlock, sems_lock,
                     sems_hasvnode, sems_linked, vn_refcount, semv_semnum, open, name, semnum,
                     panic>>
  BY DEF Unhook, Goto, Return, dir, table, sems, vns
<1>3. TypeOK'
  BY <1>1, <1>2, SemfsAssumption DEF TypeOK, Places
<1>4. Locks'
  BY <1>1, <1>2, SemfsAssumption DEF Locks, HasDirlock, TypeOK
<1>5. VnodesInTable'
  BY <1>1, <1>2, SemfsAssumption DEF VnodesInTable, InUse, TypeOK
<1>6. OpenVnodes'
  BY <1>1, <1>2, SemfsAssumption DEF OpenVnodes, Reclaimed, TypeOK
<1>7. Entries'
  BY <1>1, <1>2, SemfsAssumption DEF Entries, Named, InUse, Creating, TypeOK
<1>8. Unhooking'
  BY <1>1, <1>2, SemfsAssumption DEF Unhooking, Creating, TypeOK
<1>9. Kept'
  BY <1>1, <1>2, SemfsAssumption DEF Kept, Needed, Creating, InUse, TypeOK
<1>10. AtHand'
  <2>. SUFFICES ASSUME NEW u \in Threads PROVE AtHandOf(u)'
    BY DEF AtHand
  <2>. QED  BY <1>1, <1>2, SemfsAssumption DEF AtHandOf, AtHand, Creating, Named, TypeOK
<1>11. RefcountExact'
  BY <1>1, <1>2 DEF RefcountExact, Holders
<1>. QED  BY <1>3, <1>4, <1>5, <1>6, <1>7, <1>8, <1>9, <1>10, <1>11 DEF IInv

\* semfs_reclaim destroys one without: nobody is about to link it, or removes it.
LEMMA UnhookNamelessStep ==
  ASSUME IInv, NEW t \in Threads, Unhook(t), ~sems_linked[semv_semnum[open[t]]],
         sems_lock[semv_semnum[open[t]]] = None
  PROVE  IInv'
<1>1. /\ TypeOK /\ Locks /\ VnodesInTable /\ OpenVnodes /\ RefcountExact
      /\ Entries /\ AtHand /\ Unhooking /\ Kept
  BY DEF IInv
<1>2. /\ pc[t] = "unhook"
      /\ semfs_sems' = semfs_sems \ {semv_semnum[open[t]]}
      /\ semfs_tablelock' = None
      /\ pc' = [pc EXCEPT ![t] = "destroy"]
      /\ UNCHANGED <<semfs_dents, semfs_vnodes, semfs_dirlock, sems_lock, sems_hasvnode,
                     sems_linked, vn_refcount, semv_semnum, open, name, semnum, panic>>
  BY DEF Unhook, Goto, Return, dir, table, sems, vns
<1>h. open[t] \in Vnodes /\ semv_semnum[open[t]] \in Sems
  BY <1>1, <1>2, SemfsAssumption DEF Locks, OpenVnodes, TypeOK
<1>k. ~InUse(semv_semnum[open[t]])
  BY <1>1, <1>2, <1>h DEF VnodesInTable, Unhooking
<1>m. \A u \in Threads : pc[u] = "link" => InUse(semnum[u])
  BY <1>1, SemfsAssumption DEF Locks, OpenVnodes, AtHand, AtHandOf, Reclaimed, InUse, TypeOK
<1>l. ~Named(semv_semnum[open[t]])
  BY <1>1, <1>2, <1>h, <1>k, <1>m, SemfsAssumption DEF Entries, Unhooking, Locks
<1>n. \A x : Named(x)' <=> Named(x)
  BY <1>2 DEF Named
<1>i. \A x : InUse(x)' <=> InUse(x)
  BY <1>2 DEF InUse
<1>3. TypeOK'
  BY <1>1, <1>2, <1>h, <1>k, <1>m, <1>l, <1>n, <1>i, SemfsAssumption DEF TypeOK, Places
<1>4. Locks'
  BY <1>1, <1>2, <1>h, <1>k, <1>m, <1>l, <1>n, <1>i, SemfsAssumption DEF Locks, HasDirlock, TypeOK
<1>5. VnodesInTable'
  BY <1>1, <1>2, <1>h, <1>k, <1>m, <1>l, <1>n, <1>i, SemfsAssumption DEF VnodesInTable, TypeOK
<1>6. OpenVnodes'
  BY <1>1, <1>2, <1>h, <1>k, <1>m, <1>l, <1>n, <1>i, SemfsAssumption
     DEF OpenVnodes, Reclaimed, TypeOK
<1>7. Entries'
  <2>1. (\A a, b \in Names : semfs_dents[a] # None /\ semfs_dents[a] = semfs_dents[b] => a = b)'
    BY <1>1, <1>2, <1>h, <1>k, <1>m, <1>l, <1>n, <1>i, SemfsAssumption DEF Entries, Named, TypeOK
  <2>2. (\A x \in Sems : Named(x) \/ InUse(x) => x \in semfs_sems)'
    BY <1>1, <1>2, <1>h, <1>k, <1>m, <1>l, <1>n, <1>i, SemfsAssumption DEF Entries, TypeOK
  <2>3. (\A x \in semfs_sems : sems_linked[x] => Named(x))'
    BY <1>1, <1>2, <1>h, <1>k, <1>m, <1>l, <1>n, <1>i, SemfsAssumption DEF Entries, TypeOK
  <2>4. (\A x \in Sems : Named(x) => sems_linked[x] \/ \E u \in Threads :
            semnum[u] = x /\ (Creating(u) \/ pc[u] \in {"link", "unlinked", "clear"}))'
    BY <1>1, <1>2, <1>h, <1>k, <1>m, <1>l, <1>n, <1>i, SemfsAssumption
       DEF Entries, Creating, HasDirlock, TypeOK
  <2>. QED  BY <2>1, <2>2, <2>3, <2>4 DEF Entries
<1>8. Unhooking'
  BY <1>1, <1>2, <1>h, <1>k, <1>m, <1>l, <1>n, <1>i, SemfsAssumption
     DEF Unhooking, Creating, TypeOK, Locks, HasDirlock
<1>9. Kept'
  BY <1>1, <1>2, <1>h, <1>k, <1>m, <1>l, <1>n, <1>i, SemfsAssumption
     DEF Kept, Needed, Creating, TypeOK, Locks, HasDirlock
<1>10. AtHand'
  <2>. SUFFICES ASSUME NEW u \in Threads PROVE AtHandOf(u)'
    BY DEF AtHand
  <2>. QED  BY <1>1, <1>2, <1>h, <1>k, <1>m, <1>l, <1>n, <1>i, SemfsAssumption
      DEF AtHandOf, AtHand, Creating, Named, TypeOK
<1>11. RefcountExact'
  BY <1>1, <1>2 DEF RefcountExact, Holders
<1>. QED  BY <1>3, <1>4, <1>5, <1>6, <1>7, <1>8, <1>9, <1>10, <1>11 DEF IInv

\* semfs_reclaim frees the vnode.
LEMMA DestroyStep ==
  ASSUME IInv, NEW t \in Threads, Destroy(t), vn_refcount[open[t]] = 1
  PROVE  IInv'
<1>1. /\ TypeOK /\ Locks /\ VnodesInTable /\ OpenVnodes /\ RefcountExact
      /\ Entries /\ AtHand /\ Unhooking /\ Kept
  BY DEF IInv
<1>2. /\ pc[t] = "destroy"
      /\ vn_refcount' = [vn_refcount EXCEPT ![open[t]] = 0]
      /\ semv_semnum' = [semv_semnum EXCEPT ![open[t]] = None]
      /\ open' = [open EXCEPT ![t] = None]
      /\ pc' = [pc EXCEPT ![t] = "idle"]
      /\ UNCHANGED <<semfs_dents, semfs_sems, semfs_vnodes, semfs_dirlock, semfs_tablelock,
                     sems_lock, sems_hasvnode, sems_linked, name, semnum, panic>>
  BY DEF Destroy, Goto, Return, dir, table, sems, vns
<1>h. open[t] \in Vnodes /\ open[t] \notin semfs_vnodes
  BY <1>1, <1>2, SemfsAssumption DEF Locks, OpenVnodes, Reclaimed
<1>o. \A u \in Threads : open[u] = open[t] => u = t
  BY <1>1, <1>2, Counts DEF Locks, TypeOK
<1>3. TypeOK'
  BY <1>1, <1>2, <1>h, <1>o, SemfsAssumption DEF TypeOK, Places
<1>4. Locks'
  BY <1>1, <1>2, <1>h, <1>o, SemfsAssumption DEF Locks, HasDirlock, TypeOK
<1>5. VnodesInTable'
  BY <1>1, <1>2, <1>h, <1>o, SemfsAssumption DEF VnodesInTable, InUse, TypeOK
<1>6. OpenVnodes'
  BY <1>1, <1>2, <1>h, <1>o, SemfsAssumption DEF OpenVnodes, Reclaimed, TypeOK
<1>7. Entries'
  BY <1>1, <1>2, <1>h, <1>o, SemfsAssumption DEF Entries, Named, InUse, Creating, TypeOK
<1>8. Unhooking'
  BY <1>1, <1>2, <1>h, <1>o, SemfsAssumption
     DEF Unhooking, Creating, TypeOK, Locks, HasDirlock, OpenVnodes
<1>9. Kept'
  BY <1>1, <1>2, <1>h, <1>o, SemfsAssumption
     DEF Kept, Needed, Creating, InUse, TypeOK, Locks, HasDirlock, Unhooking
<1>10. AtHand'
  <2>. SUFFICES ASSUME NEW u \in Threads PROVE AtHandOf(u)'
    BY DEF AtHand
  <2>. QED  BY <1>1, <1>2, <1>h, <1>o, SemfsAssumption
      DEF AtHandOf, AtHand, Creating, Named, TypeOK, Locks, HasDirlock
<1>11. RefcountExact'
  <2>1. vn_refcount' = [vn_refcount EXCEPT ![open[t]] = vn_refcount[open[t]] - 1]
    BY <1>2
  <2>. QED  BY <1>1, <1>2, <1>h, <2>1, CountDown
<1>. QED  BY <1>3, <1>4, <1>5, <1>6, <1>7, <1>8, <1>9, <1>10, <1>11 DEF IInv

-----------------------------------------------------------------------------
(* The invariant holds, and what follows from it *)

\* A failed assertion, or no step.
LEMMA StandStill ==
  ASSUME IInv, panic' \in BOOLEAN, UNCHANGED <<dir, table, sems, vns, open, pc, name, semnum>>
  PROVE  IInv'
<1>1. UNCHANGED <<semfs_dents, semfs_sems, semfs_vnodes, semfs_dirlock, semfs_tablelock,
                  sems_lock, sems_hasvnode, sems_linked, vn_refcount, semv_semnum, open, pc,
                  name, semnum>>
  BY DEF dir, table, sems, vns
<1>2. TypeOK'
  BY <1>1 DEF IInv, TypeOK
<1>3. Locks' /\ VnodesInTable' /\ OpenVnodes' /\ RefcountExact'
  BY <1>1
     DEF IInv, Locks, HasDirlock, VnodesInTable, InUse, OpenVnodes, Reclaimed, RefcountExact, Holders
<1>4. Entries' /\ AtHand' /\ Unhooking' /\ Kept'
  BY <1>1 DEF IInv, Entries, Named, InUse, Creating, AtHand, AtHandOf, Unhooking, Kept, Needed
<1>. QED  BY <1>2, <1>3, <1>4 DEF IInv

\* A file system without semaphores.
LEMMA InitIInv == Init => IInv
<1>. SUFFICES ASSUME Init PROVE IInv
  OBVIOUS
<1>1. TypeOK
  BY DEF Init, TypeOK, Places
<1>2. Locks /\ VnodesInTable /\ OpenVnodes
  BY SemfsAssumption DEF Init, Locks, HasDirlock, VnodesInTable, InUse, OpenVnodes
<1>3. RefcountExact
  <2>1. \A v \in Vnodes : Holders(v) = {}
    BY SemfsAssumption DEF Init, Holders
  <2>. QED  BY <2>1, FS_EmptySet DEF Init, RefcountExact
<1>4. Entries /\ AtHand /\ Unhooking /\ Kept
  BY SemfsAssumption DEF Init, Entries, Named, InUse, AtHand, AtHandOf, Creating, Unhooking, Kept
<1>. QED  BY <1>1, <1>2, <1>3, <1>4 DEF IInv

\* What a call does once it has begun.
LEMMA FinishStep ==
  ASSUME IInv, NEW t \in Threads, Finish(t)
  PROVE  IInv'
<1>1. CASE InsertFails(t) \/ \E s \in Sems : Insert(t, s)
  BY <1>1, InsertFailsStep, InsertStep
<1>2. ASSUME NEW v \in Vnodes, GetVnode(t, v)
      PROVE  IInv'
  <2>1. name[t] = None
    BY <1>2 DEF IInv, AtHand, AtHandOf, Creating, VnodesInTable, InUse, GetVnode
  <2>. QED  BY <1>2, <2>1, GetVnodeStep
<1>3. ASSUME NEW v \in Vnodes, MakeVnode(t, v)
      PROVE  IInv'
  <2>1. CASE semnum[t] \notin semfs_sems \/ sems_hasvnode[semnum[t]]
    BY <1>3, <2>1, StandStill DEF MakeVnode, Panic
  <2>2. CASE semnum[t] \in semfs_sems /\ ~sems_hasvnode[semnum[t]]
    BY <1>3, <2>2, MakeVnodeLookupStep, MakeVnodeCreatStep
  <2>. QED  BY <2>1, <2>2
<1>4. CASE MakeVnodeFails(t) \/ Undo(t) \/ Link(t)
  BY <1>4, MakeVnodeFailsCreatStep, MakeVnodeFailsLookupStep, UndoStep, LinkStep
<1>5. CASE Unlink(t)
  <2>1. CASE ~sems_linked[semnum[t]]
    BY <1>5, <2>1, StandStill DEF Unlink, Panic
  <2>. QED  BY <1>5, <2>1, UnlinkStep
<1>6. CASE Unlinked(t) \/ Clear(t)
  BY <1>6, UnlinkedOpenStep, UnlinkedClosedStep, ClearStep
<1>7. CASE EndUse(t) \/ ReclaimBusy(t)
  BY <1>7, EndUseStep, ReclaimBusyStep
<1>8. CASE Reclaim(t)
  <2>1. CASE ~sems_hasvnode[semv_semnum[open[t]]]
    BY <1>8, <2>1, StandStill DEF Reclaim, Panic
  <2>. QED  BY <1>8, <2>1, ReclaimStep
<1>9. CASE Unhook(t)
  <2>1. CASE ~sems_linked[semv_semnum[open[t]]] /\ sems_lock[semv_semnum[open[t]]] # None
    BY <1>9, <2>1, StandStill DEF Unhook, Panic
  <2>. QED  BY <1>9, <2>1, UnhookNamedStep, UnhookNamelessStep
<1>10. CASE Destroy(t)
  <2>1. CASE vn_refcount[open[t]] # 1
    BY <1>10, <2>1, StandStill DEF Destroy, Panic
  <2>. QED  BY <1>10, <2>1, DestroyStep
<1>. QED  BY <1>1, <1>2, <1>3, <1>4, <1>5, <1>6, <1>7, <1>8, <1>9, <1>10 DEF Finish

\* Each step keeps the invariant.
LEMMA NextIInv == IInv /\ [Next]_vars => IInv'
<1>. SUFFICES ASSUME IInv, [Next]_vars PROVE IInv'
  OBVIOUS
<1>1. CASE UNCHANGED vars
  BY <1>1, StandStill DEF IInv, TypeOK, vars, dir, table, sems, vns
<1>2. ASSUME NEW t \in Threads, Begin(t)
      PROVE  IInv'
  <2>1. CASE Use(t)
    <3>1. CASE semv_semnum[open[t]] \notin semfs_sems
      BY <2>1, <3>1, StandStill DEF Use, Panic
    <3>. QED  BY <2>1, <3>1, UseStep
  <2>. QED  BY <1>2, <2>1, FindStep, CreateStep, RemoveStep, DecrefStep, DecrefLastStep DEF Begin
<1>. QED  BY <1>1, <1>2, FinishStep DEF Next, Halted

\* The invariant holds in every reachable state.
THEOREM Invariant == Spec => []IInv
<1>. QED  BY InitIInv, NextIInv, PTL DEF Spec

\* Every variable keeps the type its declaration in semfs.h and vnode.h gives it.
THEOREM SemfsTypeCorrect == Spec => []TypeOK
<1>1. IInv => TypeOK
  BY DEF IInv
<1>. QED  BY <1>1, Invariant, PTL

\* vn_refcount is the number of threads that have the vnode open, through every
\* interleaving of vnode_decref, semfs_reclaim and lookups.
THEOREM RefcountsExact == Spec => []RefcountExact
<1>1. IInv => RefcountExact
  BY DEF IInv
<1>. QED  BY <1>1, Invariant, PTL

\* An open vnode is in the table, is not being reclaimed for somebody else, and is
\* the only one of its semaphore.
THEOREM OpenVnodesShared == Spec => []OpenIsShared
<1>1. IInv => OpenIsShared
  BY DEF IInv, OpenIsShared, OpenVnodes, VnodesInTable
<1>. QED  BY <1>1, Invariant, PTL

\* A semaphore is in the table as long as it has a name or an open vnode, and no
\* longer than a call is at work on it after that.
THEOREM SemaphoresKeptWhileUsed == Spec => []KeptWhileUsed
<1>1. IInv => KeptWhileUsed
  <2>. SUFFICES ASSUME IInv, NEW s \in Sems
                PROVE  /\ Named(s) \/ InUse(s) => s \in semfs_sems
                       /\ s \in semfs_sems => Named(s) \/ InUse(s) \/ AtWork(s)
    BY DEF KeptWhileUsed
  <2>1. Named(s) \/ InUse(s) => s \in semfs_sems
    BY DEF IInv, Entries
  <2>2. ASSUME s \in semfs_sems
        PROVE  Named(s) \/ InUse(s) \/ AtWork(s)
    <3>1. Needed(s) /\ (sems_linked[s] => Named(s))
      BY <2>2 DEF IInv, Kept, Entries
    <3>. QED  BY <3>1 DEF Needed, AtWork, Reclaimed
  <2>. QED  BY <2>1, <2>2
<1>. QED  BY <1>1, Invariant, PTL

-----------------------------------------------------------------------------
(* The open file table of asst2: the inductive invariant *)

FileInfo == [vn : Files \cup {NULL}, o_flags : Modes, f_offset : 0..MaxSize,
             ref_count : Nat, f_lock : Procs \cup {NULL}]
CallArgs == [call : Calls, file : Infos \cup {NULL}, fd : FDs, old : FDs \cup {NULL},
             vn : Files \cup {NULL}, mode : Modes, slot : Slots, pos : 0..MaxSize]
OftPlaces == {"none", "run", "open", "find", "alloc", "place", "lock", "dup",
              "copyout", "stopped"} \cup Calls
Buffers == {b \in [is : {"name", "write", "read", "lock"}, of : Files \cup Procs \cup {NULL}] :
              b.is = "write" => b.of \in Procs}

\* The types, without the bound on the counts, which takes counting.
OftShape ==
  /\ of_table \in [Slots -> Infos \cup {NULL}] /\ ofi \in [Infos -> FileInfo]
  /\ fd_table \in [Procs -> [FDs -> Slots \cup {NULL}]] /\ str_buf \in Buffers
  /\ content \in [Files -> Seq(Procs \cup {Zero})] /\ \A v \in Files : Len(content[v]) <= MaxSize
  /\ oft_pc \in [Procs -> OftPlaces] /\ arg \in [Procs -> CallArgs]

CountsBounded == \A x \in Infos : ofi[x].ref_count <= OPEN_MAX

\* What a descriptor names is there, although its slot may name freed memory later.
NamesAreInfos == \A p \in Procs : \A fd \in Open(p) : At(p, fd) \in Infos

\* From lock_acquire on, a call works on an info that a descriptor of its process names:
\* close on the one it closes, dup2 on the one it has just named once more.
OnInfo  == {"lock", "read", "write", "seek", "close", "count", "copyout"}
Opening == {"find", "alloc", "place"}

\* What open_file_info ker_open has made is in its slot, and no descriptor names it.
Made(p) ==
  /\ of_table[arg[p].slot] \in Infos
  /\ Descriptors(of_table[arg[p].slot]) = {}
  /\ ofi[of_table[arg[p].slot]] = [Freed EXCEPT !.vn = arg[p].vn, !.o_flags = arg[p].mode,
                                                !.ref_count = 1]

InCall(p) ==
  /\ oft_pc[p] \in Opening => arg[p].vn \in Files
  /\ oft_pc[p] = "alloc" => of_table[arg[p].slot] = NULL
  /\ oft_pc[p] = "place" => Made(p)
  /\ oft_pc[p] \in Calls => arg[p].call = oft_pc[p]
  /\ oft_pc[p] = "copyout" => arg[p].call = "read"
  /\ arg[p].call = "count" => oft_pc[p] \in {"lock", "count", "stopped"}
  /\ oft_pc[p] \in OnInfo => \E fd \in Open(p) : arg[p].file = At(p, fd)
  /\ oft_pc[p] \in OnInfo /\ arg[p].call = "close" =>
       arg[p].fd \in Open(p) /\ arg[p].file = At(p, arg[p].fd)
  /\ oft_pc[p] = "dup" => arg[p].old \in FDs /\ arg[p].fd \notin Open(p)

OftIInv == /\ OftShape /\ CountsBounded /\ CountsDescriptors /\ NamesAreInfos
           /\ \A p \in Procs : InCall(p)

-----------------------------------------------------------------------------
(* Facts that every step needs *)

\* With one process there is one that calls.
LEMMA OneProcess == Cardinality(Procs) = 1 => \E p : Procs = {p}
BY OftAssumption, FS_Singleton DEF OftAssumption

\* What kfree leaves of an open_file_info, and the variables of no call, have their types.
LEMMA NoArgTyped == NoArg \in CallArgs /\ Freed \in FileInfo /\ Freed.vn = NULL
BY OftAssumption DEF OftAssumption, NoArg, CallArgs, Freed, FileInfo, Calls, Modes, FDs, Slots

\* A step of a call puts the process where it says, with the variables it says.
LEMMA StepTyped ==
  ASSUME NEW p \in Procs, NEW place \in OftPlaces, NEW a \in CallArgs, OftShape, Step(p, place, a)
  PROVE  /\ oft_pc' \in [Procs -> OftPlaces] /\ arg' \in [Procs -> CallArgs]
         /\ oft_pc'[p] = place /\ arg'[p] = a
BY DEF Step, OftShape

\* The parts of a process's call variables, each in its set.
LEMMA ArgParts ==
  ASSUME NEW p \in Procs, OftShape
  PROVE  /\ arg[p] \in CallArgs /\ arg[p].call \in Calls /\ arg[p].file \in Infos \cup {NULL}
         /\ arg[p].fd \in FDs /\ arg[p].old \in FDs \cup {NULL} /\ arg[p].vn \in Files \cup {NULL}
         /\ arg[p].mode \in Modes /\ arg[p].slot \in Slots /\ arg[p].pos \in 0..MaxSize
         /\ oft_pc[p] \in OftPlaces
<1>1. arg[p] \in CallArgs /\ oft_pc[p] \in OftPlaces
  BY DEF OftShape
<1>. QED  BY <1>1 DEF CallArgs

\* The fields of an open_file_info, each in its set.
LEMMA InfoParts ==
  ASSUME NEW x \in Infos, OftShape
  PROVE  /\ ofi[x] \in FileInfo /\ ofi[x].vn \in Files \cup {NULL} /\ ofi[x].o_flags \in Modes
         /\ ofi[x].f_offset \in 0..MaxSize /\ ofi[x].ref_count \in Nat /\ ofi[x].f_lock \in Procs \cup {NULL}
<1>1. ofi[x] \in FileInfo
  BY DEF OftShape
<1>. QED  BY <1>1 DEF FileInfo

\* An open descriptor names a slot, and the slot something.
LEMMA OpenNames ==
  ASSUME NEW p \in Procs, NEW fd \in Open(p), OftShape
  PROVE  fd \in FDs /\ fd_table[p][fd] \in Slots /\ At(p, fd) \in Infos \cup {NULL}
<1>1. fd \in FDs /\ fd_table[p] \in [FDs -> Slots \cup {NULL}] /\ fd_table[p][fd] # NULL
  BY DEF Open, OftShape
<1>2. fd_table[p][fd] \in Slots
  BY <1>1
<1>. QED  BY <1>1, <1>2 DEF At, OftShape

\* An open descriptor names an open_file_info that is there and has its vnode.
LEMMA NamedInfo ==
  ASSUME NEW p \in Procs, NEW fd \in Open(p), OftIInv
  PROVE  /\ At(p, fd) \in Infos /\ <<p, fd>> \in Descriptors(At(p, fd))
         /\ ofi[At(p, fd)].vn \in Files /\ fd \in FDs
<1>1. At(p, fd) \in Infos /\ fd \in FDs
  BY OpenNames DEF OftIInv, NamesAreInfos
<1>2. <<p, fd>> \in Descriptors(At(p, fd))
  BY <1>1 DEF Descriptors
<1>3. ofi[At(p, fd)].vn # NULL
  BY <1>1, <1>2 DEF OftIInv, CountsDescriptors
<1>. QED  BY <1>1, <1>2, <1>3, InfoParts DEF OftIInv

\* An open_file_info is named by finitely many descriptors.
LEMMA DescriptorsFinite ==
  \A x : IsFiniteSet(Descriptors(x)) /\ Cardinality(Descriptors(x)) \in Nat
<1>1. IsFiniteSet(Procs) /\ IsFiniteSet(FDs)
  BY OftAssumption, FS_Interval DEF OftAssumption, FDs
<1>2. IsFiniteSet(Procs \X FDs)
  BY <1>1, FS_Product
<1>3. \A x : Descriptors(x) \subseteq Procs \X FDs
  BY DEF Descriptors
<1>. QED  BY <1>2, <1>3, FS_Subset, FS_CardinalityType

\* One process counts one reference at a time.
LEMMA UncountedIs ==
  ASSUME NEW p, Procs = {p}, NEW x
  PROVE  /\ Cardinality(Uncounted(x)) = IF arg[p].call = "count" /\ arg[p].file = x THEN 1 ELSE 0
         /\ Cardinality(Uncounted(x))' = IF arg'[p].call = "count" /\ arg'[p].file = x THEN 1 ELSE 0
<1>1. /\ Uncounted(x) = IF arg[p].call = "count" /\ arg[p].file = x THEN {p} ELSE {}
      /\ Uncounted(x)' = IF arg'[p].call = "count" /\ arg'[p].file = x THEN {p} ELSE {}
  BY DEF Uncounted
<1>2. Cardinality({p}) = 1 /\ Cardinality({}) = 0
  BY FS_Singleton, FS_EmptySet
<1>. QED  BY <1>1, <1>2

\* While neither table changes, descriptors name what they named.
LEMMA SameNames ==
  ASSUME of_table' = of_table, fd_table' = fd_table
  PROVE  /\ \A p : Open(p)' = Open(p) /\ \A fd : At(p, fd)' = At(p, fd)
         /\ \A x : Descriptors(x)' = Descriptors(x)
<1>1. \A p : Open(p)' = Open(p) /\ \A fd : At(p, fd)' = At(p, fd)
  BY DEF Open, At
<1>. QED  BY <1>1 DEF Descriptors

\* A step that changes no table, no count and no vnode, and that does not begin or end
\* the counting of a reference.
LEMMA QuietStep ==
  ASSUME NEW p, Procs = {p}, OftIInv, OftShape', InCall(p)',
         of_table' = of_table, fd_table' = fd_table,
         \A x \in Infos : ofi'[x].vn = ofi[x].vn /\ ofi'[x].ref_count = ofi[x].ref_count,
         arg'[p].call = "count" <=> arg[p].call = "count",
         arg[p].call = "count" => arg'[p].file = arg[p].file
  PROVE  OftIInv'
<1>1. CountsDescriptors'
  <2>1. \A x \in Infos : Descriptors(x) # {} =>
          /\ ofi[x].vn # NULL
          /\ ofi[x].ref_count + Cardinality(Uncounted(x)) = Cardinality(Descriptors(x))
    BY DEF OftIInv, CountsDescriptors
  <2>2. \A x : Cardinality(Uncounted(x))' = Cardinality(Uncounted(x))
    BY UncountedIs
  <2>3. \A x \in Infos : Descriptors(x)' # {} =>
          /\ ofi'[x].vn # NULL
          /\ ofi'[x].ref_count + Cardinality(Uncounted(x))' = Cardinality(Descriptors(x))'
    BY <2>1, <2>2, SameNames
  <2>. QED  BY <2>3 DEF CountsDescriptors
<1>2. CountsBounded' /\ NamesAreInfos'
  BY SameNames DEF OftIInv, CountsBounded, NamesAreInfos
<1>. QED  BY <1>1, <1>2 DEF OftIInv

\* Between calls, and after a panic, there is nothing to say of a call.
LEMMA NoCall ==
  ASSUME NEW p, \/ oft_pc'[p] = "run" /\ arg'[p] = NoArg
                \/ oft_pc'[p] = "stopped"
  PROVE  InCall(p)'
<1>1. oft_pc'[p] \in {"run", "stopped"} /\ (arg'[p].call = "count" => oft_pc'[p] = "stopped")
  BY DEF NoArg
<1>. QED  BY <1>1 DEF InCall, Opening, Calls, OnInfo

\* A call that returns leaves nothing for the invariant to say of it.
LEMMA DoneTyped ==
  ASSUME NEW p \in Procs, OftShape, Done(p)
  PROVE  /\ oft_pc' \in [Procs -> OftPlaces] /\ arg' \in [Procs -> CallArgs]
         /\ oft_pc'[p] = "run" /\ arg'[p] = NoArg /\ arg'[p].call = "read" /\ InCall(p)'
<1>1. "run" \in OftPlaces
  BY DEF OftPlaces
<1>2. /\ oft_pc' \in [Procs -> OftPlaces] /\ arg' \in [Procs -> CallArgs]
      /\ oft_pc'[p] = "run" /\ arg'[p] = NoArg
  BY <1>1, NoArgTyped, StepTyped DEF Done
<1>. QED  BY <1>2, NoCall DEF NoArg

\* Nor does one that panics.
LEMMA StopTyped ==
  ASSUME NEW p \in Procs, OftShape, Stop(p)
  PROVE  /\ oft_pc' \in [Procs -> OftPlaces] /\ arg' \in [Procs -> CallArgs]
         /\ oft_pc'[p] = "stopped" /\ arg'[p] = arg[p] /\ InCall(p)'
<1>1. "stopped" \in OftPlaces /\ arg[p] \in CallArgs
  BY DEF OftPlaces, OftShape
<1>2. /\ oft_pc' \in [Procs -> OftPlaces] /\ arg' \in [Procs -> CallArgs]
      /\ oft_pc'[p] = "stopped" /\ arg'[p] = arg[p]
  BY <1>1, StepTyped DEF Stop
<1>. QED  BY <1>2, NoCall

\* Only a call of dup2 that has placed its descriptor is counting.
LEMMA NotCounting ==
  ASSUME NEW p \in Procs, InCall(p), oft_pc[p] \notin {"lock", "count", "stopped"}
  PROVE  arg[p].call # "count"
BY DEF InCall

\* A step that does not touch the tables at all.
LEMMA TablesKept ==
  ASSUME NEW p, Procs = {p}, OftIInv, UNCHANGED tables, oft_pc[p] \notin {"lock", "count", "stopped"},
         oft_pc' \in [Procs -> OftPlaces], arg' \in [Procs -> CallArgs],
         str_buf' \in Buffers, content' = content, InCall(p)', arg'[p].call # "count"
  PROVE  OftIInv'
<1>1. OftShape'
  BY DEF OftIInv, OftShape, tables
<1>2. arg[p].call # "count"
  BY NotCounting DEF OftIInv
<1>. QED  BY <1>1, <1>2, QuietStep DEF tables

-----------------------------------------------------------------------------
(* The calls, up to lock_acquire *)

\* proc_create_runprogram starts a process with no descriptor.
LEMMA RunprogramStep == ASSUME NEW p, Procs = {p}, OftIInv, Runprogram(p) PROVE OftIInv'
<1>1. Done(p) /\ UNCHANGED <<tables, str_buf, content>> /\ oft_pc[p] = "none" /\ OftShape
  BY DEF Runprogram, OftIInv
<1>. QED  BY <1>1, DoneTyped, TablesKept DEF OftShape

\* sys__open copies the path into str_buf, and has named nothing yet.
LEMMA OpenCallStep == ASSUME NEW p, Procs = {p}, OftIInv, OpenCall(p) PROVE OftIInv'
<1>. PICK v \in Files, m \in Modes :
          str_buf' = [is |-> "name", of |-> v] /\ Step(p, "open", [NoArg EXCEPT !.vn = v, !.mode = m])
  BY DEF OpenCall
<1>. DEFINE a == [NoArg EXCEPT !.vn = v, !.mode = m]
<1>1. a \in CallArgs /\ "open" \in OftPlaces /\ a.call = "read"
  BY NoArgTyped DEF CallArgs, OftPlaces, NoArg
<1>2. oft_pc' \in [Procs -> OftPlaces] /\ arg' \in [Procs -> CallArgs] /\ oft_pc'[p] = "open" /\ arg'[p] = a
  BY <1>1, StepTyped DEF OftIInv
<1>3. InCall(p)'
  BY <1>1, <1>2 DEF InCall, Opening, OnInfo, Calls
<1>4. str_buf' \in Buffers
  BY DEF Buffers
<1>. QED  BY <1>1, <1>2, <1>3, <1>4, TablesKept DEF OpenCall

\* vfs_open may open another file than was asked for, or truncate it: no table changes.
LEMMA VfsOpenStep == ASSUME NEW p, Procs = {p}, OftIInv, VfsOpen(p) PROVE OftIInv'
<1>1. CASE Done(p) /\ UNCHANGED content
  BY <1>1, DoneTyped, TablesKept DEF VfsOpen, OftIInv, OftShape
<1>2. CASE ~(Done(p) /\ UNCHANGED content)
  <2>. PICK v \in Files, trunc \in BOOLEAN :
            /\ content' = IF trunc THEN [content EXCEPT ![v] = <<>>] ELSE content
            /\ Step(p, "find", [arg[p] EXCEPT !.vn = v])
    BY <1>2 DEF VfsOpen
  <2>. DEFINE a == [arg[p] EXCEPT !.vn = v]
  <2>1. a \in CallArgs /\ "find" \in OftPlaces /\ a.call = arg[p].call /\ a.vn = v
    BY ArgParts DEF CallArgs, OftPlaces, OftIInv
  <2>2. oft_pc' \in [Procs -> OftPlaces] /\ arg' \in [Procs -> CallArgs] /\ oft_pc'[p] = "find" /\ arg'[p] = a
    <3>1. OftShape /\ p \in Procs
      BY DEF OftIInv
    <3>. HIDE DEF a
    <3>2. Step(p, "find", a)
      BY DEF a
    <3>. QED  BY <2>1, <3>1, <3>2, StepTyped
  <2>3. arg[p].call # "count" /\ oft_pc[p] = "open"
    BY NotCounting DEF OftIInv, VfsOpen
  <2>4. InCall(p)'
    BY <2>1, <2>2, <2>3 DEF InCall, Opening, OnInfo, Calls
  <2>5. OftShape'
    <3>1. \A w \in Files : content'[w] = content[w] \/ content'[w] = <<>>
      BY DEF OftIInv, OftShape
    <3>2. content' \in [Files -> Seq(Procs \cup {Zero})]
      BY DEF OftIInv, OftShape
    <3>3. \A w \in Files : Len(content'[w]) <= MaxSize
      BY <3>1, OftAssumption DEF OftIInv, OftShape, OftAssumption
    <3>. QED  BY <2>2, <3>2, <3>3 DEF OftIInv, OftShape, VfsOpen, tables
  <2>. QED  BY <2>1, <2>2, <2>3, <2>4, <2>5, QuietStep DEF VfsOpen, tables
<1>. QED  BY <1>1, <1>2

\* A set of numbers that is not empty has a smallest one: among the initial segments
\* below its members one is the smallest.
LEMMA LowestIn ==
  ASSUME NEW S \in SUBSET Nat, S # {}
  PROVE  Min(S) \in S /\ \A y \in S : Min(S) <= y
<1>. DEFINE Under(x) == 0..x-1
            T == {Under(x) : x \in S}
<1>1. T \subseteq FiniteSubsetsOf(Nat) /\ T # {}
  <2>1. \A x \in S : IsFiniteSet(Under(x)) /\ Under(x) \subseteq Nat
    BY FS_Interval
  <2>. QED  BY <2>1 DEF FiniteSubsetsOf
<1>2. PICK B \in T : \A C \in T : ~ (<<C, B>> \in StrictSubsetOrdering(Nat))
  BY <1>1, FS_StrictSubsetOrderingWellFounded, WFMin
<1>3. PICK x \in S : B = Under(x)
  BY <1>2
<1>4. \A y \in S : x <= y
  <2>1. SUFFICES ASSUME NEW y \in S, y < x  PROVE FALSE
    OBVIOUS
  <2>2. Under(y) \subseteq Under(x) /\ y \in Under(x) /\ y \notin Under(y)
    BY <2>1
  <2>3. Under(y) \in SUBSET Nat /\ Under(x) \in SUBSET Nat /\ Under(y) # Under(x)
    BY <2>2
  <2>4. <<Under(y), Under(x)>> \in StrictSubsetOrdering(Nat)
    <3>. HIDE DEF Under
    <3>. QED  BY <2>2, <2>3 DEF StrictSubsetOrdering
  <2>5. Under(y) \in T
    OBVIOUS
  <2>. QED  BY <1>2, <1>3, <2>4, <2>5
<1>. QED  BY <1>4 DEF Min

\* ker_open finds a slot that is NULL, or runs off the table.
LEMMA FindSlotStep == ASSUME NEW p, Procs = {p}, OftIInv, FindSlot(p) PROVE OftIInv'
<1>1. UNCHANGED <<tables, str_buf, content>> /\ oft_pc[p] = "find" /\ OftShape /\ arg[p].call # "count"
  BY NotCounting DEF FindSlot, OftIInv
<1>2. CASE FreeSlots = {}
  BY <1>1, <1>2, StopTyped, TablesKept DEF FindSlot, OftShape
<1>3. CASE FreeSlots # {}
  <2>. DEFINE i == Min(FreeSlots)
              a == [arg[p] EXCEPT !.slot = i]
  <2>1. FreeSlots \subseteq Nat
    BY DEF FreeSlots, Slots
  <2>2. i \in FreeSlots
    BY <1>3, <2>1, LowestIn
  <2>3. i \in Slots /\ of_table[i] = NULL
    BY <2>2 DEF FreeSlots
  <2>. HIDE DEF i
  <2>4. a \in CallArgs /\ "alloc" \in OftPlaces /\ a.call = arg[p].call /\ a.vn = arg[p].vn /\ a.slot = i
    BY <1>1, <2>3, ArgParts DEF CallArgs, OftPlaces
  <2>5. oft_pc' \in [Procs -> OftPlaces] /\ arg' \in [Procs -> CallArgs] /\ oft_pc'[p] = "alloc" /\ arg'[p] = a
    BY <1>1, <1>3, <2>4, StepTyped DEF FindSlot, i
  <2>6. InCall(p)'
    BY <1>1, <2>3, <2>4, <2>5 DEF InCall, Opening, OnInfo, Calls, tables, OftIInv
  <2>. QED  BY <1>1, <2>4, <2>5, <2>6, TablesKept DEF OftShape
<1>. QED  BY <1>2, <1>3

-----------------------------------------------------------------------------
(* Making an open file and naming it *)

\* An info that no descriptor names, and that nobody counts, may change.
LEMMA FillSlotStep == ASSUME NEW p, Procs = {p}, OftIInv, FillSlot(p) PROVE OftIInv'
<1>1. /\ oft_pc[p] = "alloc" /\ OftShape /\ fd_table' = fd_table /\ content' = content
      /\ arg[p].slot \in Slots /\ of_table[arg[p].slot] = NULL /\ arg[p].call # "count"
      /\ arg[p].vn \in Files /\ arg[p].mode \in Modes
  <2>1. oft_pc[p] = "alloc" /\ OftShape /\ fd_table' = fd_table /\ content' = content /\ InCall(p)
    BY DEF FillSlot, OftIInv
  <2>2. of_table[arg[p].slot] = NULL /\ arg[p].vn \in Files
    BY <2>1 DEF InCall, Opening
  <2>. QED  BY <2>1, <2>2, ArgParts, NotCounting
<1>2. \A fd \in Open(p) : fd_table[p][fd] # arg[p].slot
  <2>1. \A fd \in Open(p) : At(p, fd) # NULL
    BY OftAssumption DEF OftIInv, NamesAreInfos, OftAssumption
  <2>. QED  BY <1>1, <2>1 DEF At
<1>3. CASE /\ of_table' = [of_table EXCEPT ![arg[p].slot] = NULL]
           /\ Done(p) /\ UNCHANGED <<ofi, str_buf>>
  <2>1. of_table' = of_table
    BY <1>1, <1>3 DEF OftShape
  <2>. QED  BY <1>1, <1>3, <2>1, DoneTyped, TablesKept DEF tables, OftShape
<1>4. CASE ~(/\ of_table' = [of_table EXCEPT ![arg[p].slot] = NULL]
             /\ Done(p) /\ UNCHANGED <<ofi, str_buf>>)
  <2>. DEFINE s == arg[p].slot
              new == [Freed EXCEPT !.vn = arg[p].vn, !.o_flags = arg[p].mode, !.ref_count = 1]
  <2>1. PICK x \in Infos :
          /\ ofi[x].vn = NULL
          /\ of_table' = [of_table EXCEPT ![s] = x]
          /\ ofi' = [ofi EXCEPT ![x] = new]
          /\ str_buf' = [is |-> "lock", of |-> NULL]
          /\ Step(p, "place", arg[p])
    BY <1>4 DEF FillSlot
  <2>2. new \in FileInfo /\ new.vn = arg[p].vn /\ new.ref_count = 1
    BY <1>1, NoArgTyped DEF FileInfo, Freed
  <2>. HIDE DEF new
  <2>3. /\ oft_pc' \in [Procs -> OftPlaces] /\ arg' \in [Procs -> CallArgs]
        /\ oft_pc'[p] = "place" /\ arg'[p] = arg[p]
    <3>1. "place" \in OftPlaces /\ arg[p] \in CallArgs
      BY <1>1, ArgParts DEF OftPlaces
    <3>. QED  BY <1>1, <2>1, <3>1, StepTyped
  <2>4. /\ \A i \in Slots : of_table'[i] = IF i = s THEN x ELSE of_table[i]
        /\ \A y \in Infos : ofi'[y] = IF y = x THEN new ELSE ofi[y]
    BY <1>1, <2>1 DEF OftShape
  <2>5. OftShape'
    <3>1. of_table' \in [Slots -> Infos \cup {NULL}] /\ ofi' \in [Infos -> FileInfo] /\ str_buf' \in Buffers
      BY <1>1, <2>1, <2>2 DEF OftShape, Buffers
    <3>. QED  BY <1>1, <2>3, <3>1 DEF OftShape
  <2>6. Open(p)' = Open(p) /\ \A fd \in Open(p) : At(p, fd)' = At(p, fd)
    <3>1. Open(p)' = Open(p)
      BY <1>1 DEF Open
    <3>2. \A fd \in Open(p) : fd_table[p][fd] \in Slots
      BY <1>1, OpenNames
    <3>. QED  BY <1>1, <1>2, <2>4, <3>1, <3>2 DEF At
  <2>7. \A y : Descriptors(y)' = Descriptors(y)
    BY <2>6 DEF Descriptors
  <2>8. Descriptors(x) = {}
    BY <2>1 DEF OftIInv, CountsDescriptors
  <2>9. \A y : Cardinality(Uncounted(y))' = Cardinality(Uncounted(y))
    BY <2>3, UncountedIs
  <2>10. CountsDescriptors'
    <3>1. \A y \in Infos : Descriptors(y)' # {} =>
            /\ ofi'[y].vn # NULL
            /\ ofi'[y].ref_count + Cardinality(Uncounted(y))' = Cardinality(Descriptors(y))'
      <4>1. SUFFICES ASSUME NEW y \in Infos, Descriptors(y)' # {}
                     PROVE  /\ ofi'[y].vn # NULL
                            /\ ofi'[y].ref_count + Cardinality(Uncounted(y))' = Cardinality(Descriptors(y))'
        OBVIOUS
      <4>2. Descriptors(y) # {} /\ ofi'[y] = ofi[y]
        BY <2>4, <2>7, <2>8, <4>1
      <4>3. ofi[y].vn # NULL /\ ofi[y].ref_count + Cardinality(Uncounted(y)) = Cardinality(Descriptors(y))
        BY <4>2 DEF OftIInv, CountsDescriptors
      <4>. QED  BY <2>7, <2>9, <4>2, <4>3
    <3>. QED  BY <3>1 DEF CountsDescriptors
  <2>11. CountsBounded'
    BY <2>2, <2>4, OftAssumption DEF OftIInv, CountsBounded, OftAssumption
  <2>12. NamesAreInfos'
    BY <2>6 DEF OftIInv, NamesAreInfos
  <2>13. InCall(p)'
    <3>1. Made(p)'
      BY <1>1, <2>3, <2>4, <2>7, <2>8 DEF Made, new
    <3>. QED  BY <1>1, <2>3, <3>1 DEF InCall, Opening, OnInfo, Calls
  <2>. QED  BY <2>5, <2>10, <2>11, <2>12, <2>13 DEF OftIInv
<1>. QED  BY <1>3, <1>4

\* A closed descriptor comes to name a slot: the references to what is in there are one
\* more, those to others are the same.
NamesAlso(p, fd, s) ==
  /\ fd \in FDs /\ fd \notin Open(p) /\ s \in Slots /\ of_table' = of_table
  /\ fd_table' \in [Procs -> [FDs -> Slots \cup {NULL}]]
  /\ \A e \in FDs : fd_table'[p][e] = IF e = fd THEN s ELSE fd_table[p][e]

Gains(p, fd, x) == \A y : Descriptors(y)' = IF y = x THEN Descriptors(y) \cup {<<p, fd>>} ELSE Descriptors(y)

\* A descriptor that names a slot is one more descriptor of what is in it.
LEMMA NamesOneMore ==
  ASSUME NEW p, Procs = {p}, OftShape, NEW fd, NEW s, NamesAlso(p, fd, s)
  PROVE  /\ Open(p)' = Open(p) \cup {fd} /\ At(p, fd)' = of_table[s]
         /\ \A e \in Open(p) : At(p, e)' = At(p, e)
         /\ Gains(p, fd, of_table[s])
         /\ \A x : <<p, fd>> \notin Descriptors(x)
<1>1. fd_table \in [Procs -> [FDs -> Slots \cup {NULL}]] /\ s # NULL
  BY OftAssumption DEF OftShape, OftAssumption, NamesAlso
<1>3. Open(p)' = Open(p) \cup {fd}
  BY <1>1 DEF Open, NamesAlso
<1>4. At(p, fd)' = of_table[s] /\ \A e \in Open(p) : At(p, e)' = At(p, e)
  BY DEF At, Open, NamesAlso
<1>5. \A x : <<p, fd>> \notin Descriptors(x)
  BY DEF Descriptors, NamesAlso
<1>6. \A x : Descriptors(x) = {d \in Procs \X FDs : d[2] \in Open(p) /\ At(p, d[2]) = x}
  BY DEF Descriptors
<1>7. \A x : Descriptors(x)' = {d \in Procs \X FDs : d[2] \in Open(p)' /\ At(p, d[2])' = x}
  BY DEF Descriptors
<1>8. \A x : Descriptors(x)' = IF x = of_table[s] THEN Descriptors(x) \cup {<<p, fd>>} ELSE Descriptors(x)
  BY <1>3, <1>4, <1>6, <1>7 DEF NamesAlso
<1>. QED  BY <1>3, <1>4, <1>5, <1>8 DEF Gains

\* What PlaceSlot does, when a descriptor is free: the lowest names the new slot.
LEMMA PlaceSlotIs ==
  ASSUME NEW p, Procs = {p}, OftIInv, PlaceSlot(p), FreeFDs(p) # {}
  PROVE  \E f \in FDs : /\ f \in FreeFDs(p) /\ \A e \in FreeFDs(p) : f <= e
                        /\ NamesAlso(p, f, arg[p].slot)
<1>1. OftShape /\ p \in Procs /\ arg[p].slot \in Slots /\ of_table' = of_table
  BY ArgParts DEF PlaceSlot, OftIInv
<1>. DEFINE fd == Min(FreeFDs(p))
<1>2. fd \in FreeFDs(p) /\ \A e \in FreeFDs(p) : fd <= e
  <2>1. FreeFDs(p) \subseteq Nat
    BY DEF FreeFDs, FDs
  <2>. QED  BY <2>1, LowestIn
<1>3. fd \in FDs /\ fd \notin Open(p)
  BY <1>2 DEF FreeFDs, Open
<1>4. fd_table' = [fd_table EXCEPT ![p][fd] = arg[p].slot]
  BY DEF PlaceSlot
<1>. HIDE DEF fd
<1>5. NamesAlso(p, fd, arg[p].slot)
  BY <1>1, <1>3, <1>4 DEF OftShape, NamesAlso
<1>. QED  BY <1>2, <1>3, <1>5

\* The new open_file_info has a count of one: the descriptor it is given, if there is one.
LEMMA PlaceSlotStep == ASSUME NEW p, Procs = {p}, OftIInv, PlaceSlot(p) PROVE OftIInv'
<1>1. /\ oft_pc[p] = "place" /\ OftShape /\ Made(p) /\ arg[p].slot \in Slots /\ arg[p].call # "count"
      /\ of_table' = of_table /\ ofi' = ofi /\ str_buf' = str_buf /\ content' = content
  BY ArgParts, NotCounting DEF PlaceSlot, OftIInv, InCall
<1>2. /\ oft_pc' \in [Procs -> OftPlaces] /\ arg' \in [Procs -> CallArgs]
      /\ arg'[p].call = "read" /\ InCall(p)'
  BY <1>1, DoneTyped DEF PlaceSlot
<1>3. CASE FreeFDs(p) = {}
  BY <1>1, <1>2, <1>3, TablesKept DEF PlaceSlot, OftShape, tables
<1>4. CASE FreeFDs(p) # {}
  <2>. PICK s \in Slots : s = arg[p].slot
    BY <1>1
  <2>. DEFINE x == of_table[s]
  <2>1. PICK f \in FDs : f \in FreeFDs(p) /\ NamesAlso(p, f, s)
    BY <1>4, PlaceSlotIs
  <2>2. OftShape
    BY <1>1
  <2>3. Gains(p, f, of_table[s])
    BY <2>1, <2>2, NamesOneMore
  <2>4. /\ Open(p)' = Open(p) \cup {f} /\ At(p, f)' = x
        /\ \A e \in Open(p) : At(p, e)' = At(p, e)
        /\ \A y : Descriptors(y)' = IF y = x THEN Descriptors(y) \cup {<<p, f>>} ELSE Descriptors(y)
        /\ fd_table' \in [Procs -> [FDs -> Slots \cup {NULL}]]
    <3>1. fd_table' \in [Procs -> [FDs -> Slots \cup {NULL}]]
      BY <2>1 DEF NamesAlso
    <3>2. /\ Open(p)' = Open(p) \cup {f} /\ At(p, f)' = of_table[s]
          /\ \A e \in Open(p) : At(p, e)' = At(p, e)
      BY <2>1, <2>2, NamesOneMore
    <3>. QED  BY <2>3, <3>1, <3>2 DEF Gains
  <2>5. x \in Infos /\ Descriptors(x) = {} /\ ofi[x].vn # NULL /\ ofi[x].ref_count = 1
    <3>1. x \in Infos /\ Descriptors(x) = {} /\ arg[p].vn \in Files
      BY <1>1 DEF Made, OftIInv, InCall, Opening
    <3>2. ofi[x] = [Freed EXCEPT !.vn = arg[p].vn, !.o_flags = arg[p].mode, !.ref_count = 1]
      BY <1>1 DEF Made
    <3>3. ofi[x].vn = arg[p].vn /\ ofi[x].ref_count = 1
      BY <3>2 DEF Freed
    <3>. QED  BY <3>1, <3>3, OftAssumption DEF OftAssumption
  <2>6. \A y : Cardinality(Uncounted(y)) = 0 /\ Cardinality(Uncounted(y))' = 0
    BY <1>1, <1>2, UncountedIs
  <2>7. CountsDescriptors'
    <3>1. \A y \in Infos : Descriptors(y)' # {} =>
            /\ ofi'[y].vn # NULL
            /\ ofi'[y].ref_count + Cardinality(Uncounted(y))' = Cardinality(Descriptors(y))'
      <4>1. SUFFICES ASSUME NEW y \in Infos, Descriptors(y)' # {}
                     PROVE  /\ ofi'[y].vn # NULL
                            /\ ofi'[y].ref_count + Cardinality(Uncounted(y))' = Cardinality(Descriptors(y))'
        OBVIOUS
      <4>2. CASE y = x
        <5>1. Descriptors(y)' = {<<p, f>>}
          BY <2>4, <2>5, <4>2
        <5>2. Cardinality(Descriptors(y))' = 1
          BY <5>1, FS_Singleton
        <5>. QED  BY <1>1, <2>5, <2>6, <4>2, <5>2
      <4>3. CASE y # x
        <5>1. Descriptors(y)' = Descriptors(y) /\ Descriptors(y) # {}
          BY <2>4, <4>1, <4>3
        <5>2. ofi[y].vn # NULL /\ ofi[y].ref_count + Cardinality(Uncounted(y)) = Cardinality(Descriptors(y))
          BY <5>1 DEF OftIInv, CountsDescriptors
        <5>. QED  BY <1>1, <2>6, <5>1, <5>2
      <4>. QED  BY <4>2, <4>3
    <3>. QED  BY <3>1 DEF CountsDescriptors
  <2>8. NamesAreInfos'
    BY <2>4, <2>5 DEF OftIInv, NamesAreInfos
  <2>9. OftShape'
    BY <1>1, <1>2, <2>4 DEF OftShape
  <2>10. CountsBounded'
    BY <1>1 DEF OftIInv, CountsBounded
  <2>. QED  BY <1>2, <2>7, <2>8, <2>9, <2>10 DEF OftIInv
<1>. QED  BY <1>3, <1>4

-----------------------------------------------------------------------------
(* Calls on a descriptor *)

\* A call that asks for the lock of what an open descriptor names.
LEMMA LockStep ==
  ASSUME NEW p, Procs = {p}, OftIInv, UNCHANGED <<tables, content>>, str_buf' \in Buffers,
         oft_pc[p] = "run", NEW a \in CallArgs, Step(p, "lock", a), a.call # "count",
         NEW fd \in Open(p), a.file = At(p, fd),
         a.call = "close" => a.fd \in Open(p) /\ a.file = At(p, a.fd)
  PROVE  OftIInv'
<1>1. OftShape /\ p \in Procs /\ "lock" \in OftPlaces
  BY DEF OftIInv, OftPlaces
<1>2. oft_pc' \in [Procs -> OftPlaces] /\ arg' \in [Procs -> CallArgs] /\ oft_pc'[p] = "lock" /\ arg'[p] = a
  BY <1>1, StepTyped
<1>3. Open(p)' = Open(p) /\ \A e : At(p, e)' = At(p, e)
  BY SameNames DEF tables
<1>4. InCall(p)'
  BY <1>2, <1>3 DEF InCall, Opening, OnInfo, Calls
<1>. QED  BY <1>2, <1>4, TablesKept

\* sys__read works on what its descriptor names.
LEMMA ReadCallStep == ASSUME NEW p, Procs = {p}, OftIInv, ReadCall(p) PROVE OftIInv'
<1>. PICK fd \in Open(p) :
       Lock(p, "read", [NoArg EXCEPT !.file = At(p, fd), !.pos = ofi[At(p, fd)].f_offset])
  BY DEF ReadCall
<1>. DEFINE a == [[NoArg EXCEPT !.file = At(p, fd), !.pos = ofi[At(p, fd)].f_offset] EXCEPT !.call = "read"]
<1>1. OftShape /\ p \in Procs
  BY DEF OftIInv
<1>2. At(p, fd) \in Infos
  BY NamedInfo
<1>3. ofi[At(p, fd)].f_offset \in 0..MaxSize
  BY <1>1, <1>2, InfoParts
<1>4. a \in CallArgs /\ a.call = "read" /\ a.file = At(p, fd)
  BY <1>2, <1>3, NoArgTyped DEF CallArgs, NoArg, Calls
<1>5. Step(p, "lock", a)
  BY DEF Lock
<1>. HIDE DEF a
<1>. QED  BY <1>1, <1>4, <1>5, LockStep DEF ReadCall, OftShape

\* sys__write does, and has filled str_buf.
LEMMA WriteCallStep == ASSUME NEW p, Procs = {p}, OftIInv, WriteCall(p) PROVE OftIInv'
<1>. PICK fd \in Open(p) :
       Lock(p, "write", [NoArg EXCEPT !.file = At(p, fd), !.pos = ofi[At(p, fd)].f_offset])
  BY DEF WriteCall
<1>. DEFINE a == [[NoArg EXCEPT !.file = At(p, fd), !.pos = ofi[At(p, fd)].f_offset] EXCEPT !.call = "write"]
<1>1. OftShape /\ p \in Procs
  BY DEF OftIInv
<1>2. At(p, fd) \in Infos
  BY NamedInfo
<1>3. ofi[At(p, fd)].f_offset \in 0..MaxSize
  BY <1>1, <1>2, InfoParts
<1>4. a \in CallArgs /\ a.call = "write" /\ a.file = At(p, fd)
  BY <1>2, <1>3, NoArgTyped DEF CallArgs, NoArg, Calls
<1>5. Step(p, "lock", a)
  BY DEF Lock
<1>6. str_buf' \in Buffers
  BY <1>1 DEF WriteCall, Buffers
<1>. HIDE DEF a
<1>. QED  BY <1>1, <1>4, <1>5, <1>6, LockStep DEF WriteCall

\* sys__lseek does.
LEMMA SeekCallStep == ASSUME NEW p, Procs = {p}, OftIInv, SeekCall(p) PROVE OftIInv'
<1>. PICK fd \in Open(p) : Lock(p, "seek", [NoArg EXCEPT !.file = At(p, fd)])
  BY DEF SeekCall
<1>. DEFINE a == [[NoArg EXCEPT !.file = At(p, fd)] EXCEPT !.call = "seek"]
<1>1. OftShape /\ p \in Procs
  BY DEF OftIInv
<1>2. At(p, fd) \in Infos
  BY NamedInfo
<1>4. a \in CallArgs /\ a.call = "seek" /\ a.file = At(p, fd)
  BY <1>2, NoArgTyped DEF CallArgs, NoArg, Calls
<1>5. Step(p, "lock", a)
  BY DEF Lock
<1>. HIDE DEF a
<1>. QED  BY <1>1, <1>4, <1>5, LockStep DEF SeekCall, OftShape

\* ker__close keeps its descriptor until it has the lock.
LEMMA CloseCallStep == ASSUME NEW p, Procs = {p}, OftIInv, CloseCall(p) PROVE OftIInv'
<1>. PICK fd \in Open(p) : Lock(p, "close", [NoArg EXCEPT !.file = At(p, fd), !.fd = fd])
  BY DEF CloseCall
<1>. DEFINE a == [[NoArg EXCEPT !.file = At(p, fd), !.fd = fd] EXCEPT !.call = "close"]
<1>1. OftShape /\ p \in Procs
  BY DEF OftIInv
<1>2. At(p, fd) \in Infos /\ fd \in FDs
  BY NamedInfo
<1>4. a \in CallArgs /\ a.call = "close" /\ a.file = At(p, fd) /\ a.fd = fd
  BY <1>2, NoArgTyped DEF CallArgs, NoArg, Calls
<1>5. Step(p, "lock", a)
  BY DEF Lock
<1>. HIDE DEF a
<1>. QED  BY <1>1, <1>4, <1>5, LockStep DEF CloseCall, OftShape

\* sys__dup2 begins with the close of newfd, or needs none.
LEMMA Dup2CallStep == ASSUME NEW p, Procs = {p}, OftIInv, Dup2Call(p) PROVE OftIInv'
<1>. PICK old \in Open(p), new \in FDs :
       IF new \in Open(p)
       THEN Lock(p, "close", [NoArg EXCEPT !.file = At(p, new), !.fd = new, !.old = old])
       ELSE Step(p, "dup", [NoArg EXCEPT !.fd = new, !.old = old])
  BY DEF Dup2Call
<1>1. OftShape /\ p \in Procs /\ oft_pc[p] = "run" /\ UNCHANGED <<tables, str_buf, content>> /\ str_buf \in Buffers
  BY DEF OftIInv, Dup2Call, OftShape
<1>2. old \in FDs
  BY NamedInfo
<1>3. CASE new \in Open(p)
  <2>. DEFINE a == [[NoArg EXCEPT !.file = At(p, new), !.fd = new, !.old = old] EXCEPT !.call = "close"]
  <2>1. At(p, new) \in Infos
    BY <1>3, NamedInfo
  <2>2. a \in CallArgs /\ a.call = "close" /\ a.file = At(p, new) /\ a.fd = new
    BY <1>2, <2>1, NoArgTyped DEF CallArgs, NoArg, Calls
  <2>3. Step(p, "lock", a)
    BY <1>3 DEF Lock
  <2>. HIDE DEF a
  <2>. QED  BY <1>1, <1>3, <2>2, <2>3, LockStep
<1>4. CASE new \notin Open(p)
  <2>. DEFINE a == [NoArg EXCEPT !.fd = new, !.old = old]
  <2>1. a \in CallArgs /\ a.call = "read" /\ a.fd = new /\ a.old = old
    BY <1>2, NoArgTyped DEF CallArgs, NoArg
  <2>2. Step(p, "dup", a) /\ "dup" \in OftPlaces
    BY <1>4 DEF OftPlaces
  <2>. HIDE DEF a
  <2>3. oft_pc' \in [Procs -> OftPlaces] /\ arg' \in [Procs -> CallArgs] /\ oft_pc'[p] = "dup" /\ arg'[p] = a
    BY <1>1, <2>1, <2>2, StepTyped
  <2>4. Open(p)' = Open(p)
    BY <1>1, SameNames DEF tables
  <2>5. InCall(p)'
    BY <1>2, <1>4, <2>1, <2>3, <2>4 DEF InCall, Opening, OnInfo, Calls
  <2>. QED  BY <1>1, <2>1, <2>3, <2>5, TablesKept
<1>. QED  BY <1>3, <1>4

\* lock_acquire changes who holds f_lock, and no count.
LEMMA AcquireStep == ASSUME NEW p, Procs = {p}, OftIInv, Acquire(p) PROVE OftIInv'
<1>. DEFINE x == arg[p].file
<1>1. /\ OftShape /\ p \in Procs /\ oft_pc[p] = "lock" /\ InCall(p) /\ arg[p] \in CallArgs
      /\ of_table' = of_table /\ fd_table' = fd_table /\ str_buf' = str_buf /\ content' = content
  BY ArgParts DEF Acquire, OftIInv
<1>2. CASE ofi[x].vn = NULL \/ ofi[x].f_lock = p
  <2>1. Stop(p) /\ ofi' = ofi
    BY <1>2 DEF Acquire
  <2>2. /\ oft_pc' \in [Procs -> OftPlaces] /\ arg' \in [Procs -> CallArgs]
        /\ arg'[p] = arg[p] /\ InCall(p)'
    BY <1>1, <2>1, StopTyped
  <2>3. OftShape'
    BY <1>1, <2>1, <2>2 DEF OftShape
  <2>. QED  BY <1>1, <2>1, <2>2, <2>3, QuietStep
<1>3. CASE ~(ofi[x].vn = NULL \/ ofi[x].f_lock = p)
  <2>1. ofi' = [ofi EXCEPT ![x].f_lock = p] /\ Step(p, arg[p].call, arg[p])
    BY <1>3 DEF Acquire
  <2>2. PICK k \in Calls : k = arg[p].call
    BY <1>1, ArgParts
  <2>3. k \in OftPlaces /\ Step(p, k, arg[p])
    BY <2>1, <2>2 DEF OftPlaces
  <2>4. /\ oft_pc' \in [Procs -> OftPlaces] /\ arg' \in [Procs -> CallArgs]
        /\ oft_pc'[p] = k /\ arg'[p] = arg[p]
    BY <1>1, <2>3, StepTyped
  <2>5. \A y \in Infos : /\ ofi'[y].vn = ofi[y].vn /\ ofi'[y].ref_count = ofi[y].ref_count
                         /\ ofi'[y] \in FileInfo
    <3>1. \A y \in Infos : ofi'[y] = IF y = x THEN [ofi[y] EXCEPT !.f_lock = p] ELSE ofi[y]
      BY <1>1, <2>1 DEF OftShape
    <3>2. \A y \in Infos : ofi[y] \in FileInfo
      BY <1>1 DEF OftShape
    <3>. QED  BY <1>1, <3>1, <3>2 DEF FileInfo
  <2>6. OftShape'
    <3>1. DOMAIN ofi' = Infos /\ ofi' = [y \in DOMAIN ofi' |-> ofi'[y]]
      BY <1>1, <2>1 DEF OftShape
    <3>2. ofi' \in [Infos -> FileInfo]
      BY <2>5, <3>1
    <3>. QED  BY <1>1, <2>4, <3>2 DEF OftShape
  <2>7. Open(p)' = Open(p) /\ \A e : At(p, e)' = At(p, e)
    BY <1>1, SameNames
  <2>8. InCall(p)'
    <3>1. \E fd \in Open(p) : arg[p].file = At(p, fd)
      BY <1>1 DEF InCall, OnInfo
    <3>2. arg[p].call = "close" => arg[p].fd \in Open(p) /\ arg[p].file = At(p, arg[p].fd)
      BY <1>1 DEF InCall, OnInfo
    <3>. QED  BY <2>2, <2>4, <2>7, <3>1, <3>2 DEF InCall, Opening, OnInfo, Calls
  <2>. QED  BY <1>1, <2>4, <2>5, <2>6, <2>8, QuietStep
<1>. QED  BY <1>2, <1>3

-----------------------------------------------------------------------------
(* With the lock *)

\* A transfer or a seek moves the position of its info and touches no count; it ends,
\* or goes on to copy out.
LEMMA MoveStep ==
  ASSUME NEW p, Procs = {p}, OftIInv, oft_pc[p] \in {"read", "write", "seek", "copyout"},
         of_table' = of_table, fd_table' = fd_table, str_buf' \in Buffers,
         ofi' \in [Infos -> FileInfo],
         \A y \in Infos : ofi'[y].vn = ofi[y].vn /\ ofi'[y].ref_count = ofi[y].ref_count,
         content' \in [Files -> Seq(Procs \cup {Zero})], \A v \in Files : Len(content'[v]) <= MaxSize,
         Done(p) \/ (oft_pc[p] = "read" /\ Step(p, "copyout", arg[p]))
  PROVE  OftIInv'
<1>1. OftShape /\ p \in Procs /\ InCall(p) /\ arg[p] \in CallArgs /\ arg[p].call # "count"
  BY ArgParts DEF OftIInv, InCall, Calls
<1>4. CASE Done(p)
  <2>1. /\ oft_pc' \in [Procs -> OftPlaces] /\ arg' \in [Procs -> CallArgs]
        /\ arg'[p].call = "read" /\ InCall(p)'
    BY <1>1, <1>4, DoneTyped
  <2>2. OftShape'
    BY <1>1, <2>1 DEF OftShape
  <2>. QED  BY <1>1, <2>1, <2>2, QuietStep
<1>5. CASE oft_pc[p] = "read" /\ Step(p, "copyout", arg[p])
  <2>1. "copyout" \in OftPlaces
    BY DEF OftPlaces
  <2>2. /\ oft_pc' \in [Procs -> OftPlaces] /\ arg' \in [Procs -> CallArgs]
        /\ oft_pc'[p] = "copyout" /\ arg'[p] = arg[p]
    BY <1>1, <1>5, <2>1, StepTyped
  <2>3. OftShape'
    BY <1>1, <2>2 DEF OftShape
  <2>4. Open(p)' = Open(p) /\ \A e : At(p, e)' = At(p, e)
    BY SameNames
  <2>5. InCall(p)'
    <3>1. arg'[p].call = "read" /\ \E fd \in Open(p)' : arg'[p].file = At(p, fd)'
      BY <1>1, <1>5, <2>2, <2>4 DEF InCall, OnInfo, Calls
    <3>. QED  BY <2>2, <3>1 DEF InCall, Opening, OnInfo, Calls
  <2>. QED  BY <1>1, <2>2, <2>3, <2>5, QuietStep
<1>. QED  BY <1>4, <1>5

\* Where a call has the lock, its info is there and has a vnode.
LEMMA InfoAtHand ==
  ASSUME NEW p, Procs = {p}, OftIInv, oft_pc[p] \in OnInfo
  PROVE  /\ arg[p].file \in Infos /\ ofi[arg[p].file].vn \in Files
         /\ ofi[arg[p].file] \in FileInfo /\ ofi[arg[p].file].f_offset \in 0..MaxSize
<1>1. OftShape /\ p \in Procs
  BY DEF OftIInv
<1>2. PICK fd \in Open(p) : arg[p].file = At(p, fd)
  BY DEF OftIInv, InCall
<1>3. arg[p].file \in Infos /\ ofi[arg[p].file].vn \in Files
  BY <1>2, NamedInfo
<1>. QED  BY <1>1, <1>3, InfoParts

\* What Unlock assigns leaves vnodes and counts.
LEMMA UnlockIs ==
  ASSUME NEW p \in Procs, OftShape, NEW offset \in 0..MaxSize, Unlock(p, offset)
  PROVE  /\ ofi' \in [Infos -> FileInfo] /\ Done(p)
         /\ \A y \in Infos : ofi'[y].vn = ofi[y].vn /\ ofi'[y].ref_count = ofi[y].ref_count
<1>. DEFINE x == arg[p].file
<1>1. ofi' = [ofi EXCEPT ![x] = [ofi[x] EXCEPT !.f_offset = offset, !.f_lock = NULL]] /\ Done(p)
  BY DEF Unlock, OftShape
<1>2. ofi \in [Infos -> FileInfo]
  BY DEF OftShape
<1>3. \A y \in Infos : LET new == [ofi[y] EXCEPT !.f_offset = offset, !.f_lock = NULL]
                       IN  new \in FileInfo /\ new.vn = ofi[y].vn /\ new.ref_count = ofi[y].ref_count
  <2>1. SUFFICES ASSUME NEW y \in Infos
                 PROVE  LET new == [ofi[y] EXCEPT !.f_offset = offset, !.f_lock = NULL]
                        IN  new \in FileInfo /\ new.vn = ofi[y].vn /\ new.ref_count = ofi[y].ref_count
    OBVIOUS
  <2>2. ofi[y] \in FileInfo
    BY <1>2
  <2>. QED  BY <2>2 DEF FileInfo
<1>. QED  BY <1>1, <1>2, <1>3

\* A read that fails returns with f_lock held, and every count as it was.
LEMMA ReadFailsStep == ASSUME NEW p, Procs = {p}, OftIInv, ReadFails(p) PROVE OftIInv'
<1>1. OftShape /\ p \in Procs /\ str_buf \in Buffers
  BY DEF OftIInv, OftShape
<1>. QED  BY <1>1, DoneTyped, TablesKept DEF ReadFails

\* Max of two numbers is the greater.
LEMMA MaxOfTwo ==
  ASSUME NEW a \in Int, NEW b \in Int
  PROVE  Max({a, b}) = IF a >= b THEN a ELSE b
BY DEF Max

\* Min of two numbers is the lesser.
LEMMA MinOfTwo ==
  ASSUME NEW a \in Int, NEW b \in Int
  PROVE  Min({a, b}) = IF a <= b THEN a ELSE b
BY DEF Min

\* A file is a sequence of bytes, no longer than the bound.
LEMMA ContentParts ==
  ASSUME NEW v \in Files, OftShape
  PROVE  content[v] \in Seq(Procs \cup {Zero}) /\ Len(content[v]) \in 0..MaxSize
<1>1. content[v] \in Seq(Procs \cup {Zero}) /\ Len(content[v]) <= MaxSize
  BY DEF OftShape
<1>. QED  BY <1>1, OftAssumption DEF OftAssumption

\* sys__read moves f_offset to the end of what it has read, and no further than the file.
LEMMA ReadStep == ASSUME NEW p, Procs = {p}, OftIInv, Read(p) PROVE OftIInv'
<1>1. OftShape /\ p \in Procs /\ oft_pc[p] = "read" /\ arg[p].pos \in 0..MaxSize
  BY ArgParts DEF Read, OftIInv
<1>2. PICK x \in Infos : x = arg[p].file /\ ofi[x].vn \in Files /\ ofi[x] \in FileInfo
  BY <1>1, InfoAtHand DEF OnInfo
<1>. DEFINE left == Max({Len(content[ofi[x].vn]) - arg[p].pos, 0})
            to(n) == arg[p].pos + Min({n, left})
<1>3. PICK n \in Lengths :
        IF to(n) = ofi[x].f_offset THEN Unlock(p, to(n)) /\ UNCHANGED str_buf
        ELSE /\ str_buf' = [is |-> "read", of |-> p]
             /\ ofi' = [ofi EXCEPT ![x].f_offset = to(n)]
             /\ Step(p, "copyout", arg[p])
  BY <1>2 DEF Read
<1>4. PICK next \in 0..MaxSize : next = to(n)
  <2>1. Len(content[ofi[x].vn]) \in 0..MaxSize
    BY <1>1, <1>2, ContentParts
  <2>2. PICK l \in Nat : l = left /\ (arg[p].pos + l <= MaxSize)
    <3>1. left = IF Len(content[ofi[x].vn]) - arg[p].pos >= 0 THEN Len(content[ofi[x].vn]) - arg[p].pos ELSE 0
      BY <1>1, <2>1, MaxOfTwo
    <3>. QED  BY <1>1, <2>1, <3>1, OftAssumption DEF OftAssumption
  <2>3. n \in Nat
    BY OftAssumption DEF OftAssumption
  <2>. HIDE DEF left
  <2>4. Min({n, l}) = IF n <= l THEN n ELSE l
    BY <2>3, MinOfTwo
  <2>5. Min({n, left}) = IF n <= l THEN n ELSE l
    BY <2>2, <2>4
  <2>. QED  BY <1>1, <2>2, <2>3, <2>5, OftAssumption DEF OftAssumption
<1>. HIDE DEF to, left
<1>5. /\ of_table' = of_table /\ fd_table' = fd_table /\ content' = content
      /\ content' \in [Files -> Seq(Procs \cup {Zero})] /\ \A v \in Files : Len(content'[v]) <= MaxSize
  BY <1>1 DEF Read, OftShape
<1>6. CASE next = ofi[x].f_offset
  <2>1. Unlock(p, next) /\ str_buf' = str_buf /\ str_buf \in Buffers
    BY <1>1, <1>3, <1>4, <1>6 DEF OftShape
  <2>2. /\ ofi' \in [Infos -> FileInfo] /\ Done(p)
        /\ \A y \in Infos : ofi'[y].vn = ofi[y].vn /\ ofi'[y].ref_count = ofi[y].ref_count
    BY <1>1, <2>1, UnlockIs
  <2>. QED  BY <1>1, <1>5, <2>1, <2>2, MoveStep
<1>7. CASE next # ofi[x].f_offset
  <2>1. /\ str_buf' = [is |-> "read", of |-> p] /\ Step(p, "copyout", arg[p])
        /\ ofi' = [ofi EXCEPT ![x].f_offset = next]
    BY <1>3, <1>4, <1>7
  <2>2. ofi \in [Infos -> FileInfo] /\ ofi' = [ofi EXCEPT ![x] = [ofi[x] EXCEPT !.f_offset = next]]
    BY <1>1, <2>1 DEF OftShape
  <2>3. /\ ofi' \in [Infos -> FileInfo]
        /\ \A y \in Infos : ofi'[y].vn = ofi[y].vn /\ ofi'[y].ref_count = ofi[y].ref_count
    <3>. DEFINE new == [ofi[x] EXCEPT !.f_offset = next]
    <3>1. new \in FileInfo /\ new.vn = ofi[x].vn /\ new.ref_count = ofi[x].ref_count
      BY <1>2 DEF FileInfo
    <3>. QED  BY <2>2, <3>1
  <2>4. str_buf' \in Buffers
    BY <1>1, <2>1 DEF Buffers
  <2>. QED  BY <1>1, <1>5, <2>1, <2>3, <2>4, MoveStep
<1>. QED  BY <1>6, <1>7

\* Then it copies out and lets go of the lock.
LEMMA CopyOutStep == ASSUME NEW p, Procs = {p}, OftIInv, CopyOut(p) PROVE OftIInv'
<1>1. /\ OftShape /\ p \in Procs /\ oft_pc[p] = "copyout" /\ str_buf' \in Buffers
      /\ of_table' = of_table /\ fd_table' = fd_table /\ content' = content
      /\ content' \in [Files -> Seq(Procs \cup {Zero})] /\ \A v \in Files : Len(content'[v]) <= MaxSize
  BY DEF CopyOut, OftIInv, OftShape
<1>2. PICK x \in Infos : x = arg[p].file /\ ofi[x].f_offset \in 0..MaxSize
  BY <1>1, InfoAtHand DEF OnInfo
<1>3. PICK offset \in 0..MaxSize : offset = ofi[x].f_offset
  BY <1>2
<1>4. Unlock(p, offset)
  BY <1>2, <1>3 DEF CopyOut
<1>5. /\ ofi' \in [Infos -> FileInfo] /\ Done(p)
      /\ \A y \in Infos : ofi'[y].vn = ofi[y].vn /\ ofi'[y].ref_count = ofi[y].ref_count
  BY <1>1, <1>4, UnlockIs
<1>. QED  BY <1>1, <1>5, MoveStep

\* sys__lseek keeps a position from going below zero.
LEMMA SeekStep == ASSUME NEW p, Procs = {p}, OftIInv, Seek(p) PROVE OftIInv'
<1>1. /\ OftShape /\ p \in Procs /\ oft_pc[p] = "seek" /\ str_buf' \in Buffers
      /\ of_table' = of_table /\ fd_table' = fd_table /\ content' = content
      /\ content' \in [Files -> Seq(Procs \cup {Zero})] /\ \A v \in Files : Len(content'[v]) <= MaxSize
  BY DEF Seek, OftIInv, OftShape
<1>2. PICK x \in Infos : x = arg[p].file /\ ofi[x].f_offset \in 0..MaxSize /\ ofi[x].vn \in Files
  BY <1>1, InfoAtHand DEF OnInfo
<1>3. PICK base \in {0, ofi[x].f_offset, Len(content[ofi[x].vn])}, d \in {-1, 0, 1} :
        /\ base + d <= MaxSize
        /\ Unlock(p, IF base + d < 0 THEN ofi[x].f_offset ELSE base + d)
  BY <1>2 DEF Seek
<1>4. PICK offset \in 0..MaxSize : offset = IF base + d < 0 THEN ofi[x].f_offset ELSE base + d
  <2>1. base \in Nat /\ MaxSize \in Nat
    BY <1>1, <1>2, ContentParts, OftAssumption DEF OftAssumption
  <2>. QED  BY <1>2, <1>3, <2>1
<1>5. Unlock(p, offset)
  BY <1>3, <1>4
<1>6. /\ ofi' \in [Infos -> FileInfo] /\ Done(p)
      /\ \A y \in Infos : ofi'[y].vn = ofi[y].vn /\ ofi'[y].ref_count = ofi[y].ref_count
  BY <1>1, <1>5, UnlockIs
<1>. QED  BY <1>1, <1>6, MoveStep

\* Writing yields a sequence as long as the longer of what was there and what is there
\* after.
LEMMA OverwriteTyped ==
  ASSUME NEW S, Zero \in S, NEW s \in Seq(S), NEW m \in Nat, NEW w \in Seq(S)
  PROVE  /\ Overwrite(s, m, w) \in Seq(S)
         /\ Len(Overwrite(s, m, w)) = IF Len(s) >= m + Len(w) THEN Len(s) ELSE m + Len(w)
<1>. DEFINE k == IF Len(s) >= m + Len(w) THEN Len(s) ELSE m + Len(w)
<1>1. Max({Len(s), m + Len(w)}) = k
  BY MaxOfTwo
<1>2. Overwrite(s, m, w) =
        [i \in 1..k |-> IF i - m \in 1..Len(w) THEN w[i - m] ELSE IF i \in 1..Len(s) THEN s[i] ELSE Zero]
  BY <1>1 DEF Overwrite
<1>3. k \in Nat
  OBVIOUS
<1>4. /\ \A i \in 1..Len(s) : s[i] \in S
      /\ \A i \in 1..Len(w) : w[i] \in S
  OBVIOUS
<1>5. Overwrite(s, m, w) \in [1..k -> S]
  BY <1>2, <1>4
<1>6. ASSUME NEW l \in Nat, NEW t \in [1..l -> S]
      PROVE  t \in Seq(S) /\ Len(t) = l
  OBVIOUS
<1>. HIDE DEF k
<1>7. Overwrite(s, m, w) \in Seq(S) /\ Len(Overwrite(s, m, w)) = k
  BY <1>3, <1>5, <1>6
<1>. QED  BY <1>7 DEF k

\* sys__write lengthens the file and moves f_offset, or fails where it was.
LEMMA WriteStep == ASSUME NEW p, Procs = {p}, OftIInv, Write(p) PROVE OftIInv'
<1>1. /\ OftShape /\ p \in Procs /\ oft_pc[p] = "write" /\ str_buf' \in Buffers
      /\ of_table' = of_table /\ fd_table' = fd_table /\ arg[p].pos \in 0..MaxSize
  BY ArgParts DEF Write, OftIInv, OftShape
<1>2. PICK x \in Infos : x = arg[p].file /\ ofi[x].vn \in Files /\ ofi[x].f_offset \in 0..MaxSize
  BY <1>1, InfoAtHand DEF OnInfo
<1>. PICK byte : byte = IF str_buf.is = "write" THEN str_buf.of ELSE Zero
  OBVIOUS
<1>3. PICK k \in Lengths \cup {0} :
        /\ arg[p].pos + k <= MaxSize
        /\ content' = [content EXCEPT ![ofi[x].vn] =
                         IF k = 0 THEN @ ELSE Overwrite(@, arg[p].pos, [i \in 1..k |-> byte])]
        /\ Unlock(p, arg[p].pos + k) \/ Unlock(p, ofi[x].f_offset)
  BY <1>2 DEF Write
<1>4. k \in Nat /\ arg[p].pos \in Nat
  BY <1>1, <1>3, OftAssumption DEF OftAssumption
<1>5. PICK offset \in 0..MaxSize : Unlock(p, offset)
  BY <1>1, <1>2, <1>3, <1>4
<1>6. /\ ofi' \in [Infos -> FileInfo] /\ Done(p)
      /\ \A y \in Infos : ofi'[y].vn = ofi[y].vn /\ ofi'[y].ref_count = ofi[y].ref_count
  BY <1>1, <1>5, UnlockIs
<1>7. content' \in [Files -> Seq(Procs \cup {Zero})] /\ \A v \in Files : Len(content'[v]) <= MaxSize
  <2>. PICK v \in Files : v = ofi[x].vn
    BY <1>2
  <2>. DEFINE w == [i \in 1..k |-> byte]
              new == Overwrite(content[v], arg[p].pos, w)
  <2>1. content[v] \in Seq(Procs \cup {Zero}) /\ Len(content[v]) \in 0..MaxSize
    BY <1>1, ContentParts
  <2>2. CASE k = 0
    <3>1. content' = content
      BY <1>1, <1>3, <2>2 DEF OftShape
    <3>. QED  BY <1>1, <3>1 DEF OftShape
  <2>3. CASE k # 0
    <3>1. byte \in Procs \cup {Zero}
      <4>1. str_buf \in Buffers
        BY <1>1 DEF OftShape
      <4>. QED  BY <4>1 DEF Buffers
    <3>2. w \in Seq(Procs \cup {Zero}) /\ Len(w) = k
      BY <1>4, <3>1
    <3>3. /\ new \in Seq(Procs \cup {Zero})
          /\ Len(new) = IF Len(content[v]) >= arg[p].pos + Len(w) THEN Len(content[v]) ELSE arg[p].pos + Len(w)
      <4>1. PICK S : S = Procs \cup {Zero}
        OBVIOUS
      <4>2. PICK u : u = w
        OBVIOUS
      <4>. HIDE DEF w
      <4>3. Zero \in S /\ content[v] \in Seq(S) /\ u \in Seq(S) /\ arg[p].pos \in Nat
        BY <1>4, <2>1, <3>2, <4>1, <4>2
      <4>4. /\ Overwrite(content[v], arg[p].pos, u) \in Seq(S)
            /\ Len(Overwrite(content[v], arg[p].pos, u)) =
                 IF Len(content[v]) >= arg[p].pos + Len(u) THEN Len(content[v]) ELSE arg[p].pos + Len(u)
        BY <4>3, OverwriteTyped
      <4>. QED  BY <4>1, <4>2, <4>4
    <3>4. content' = [content EXCEPT ![v] = new]
      BY <1>3, <2>3
    <3>. HIDE DEF new, w
    <3>5. Len(new) <= MaxSize
      BY <1>3, <1>4, <2>1, <3>2, <3>3, OftAssumption DEF OftAssumption
    <3>. QED  BY <1>1, <3>3, <3>4, <3>5 DEF OftShape
  <2>. QED  BY <2>2, <2>3
<1>. QED  BY <1>1, <1>6, <1>7, MoveStep

-----------------------------------------------------------------------------
(* The end of a reference, and the reference that dup2 counts late *)

\* What Dup2Place does: nothing, when olddescriptor is closed by now, or else one more
\* descriptor names what olddescriptor does.
LEMMA Dup2PlaceIs ==
  ASSUME NEW p, Procs = {p}, OftIInv, Dup2Place(p)
  PROVE  \/ fd_table' = fd_table /\ Stop(p)
         \/ \E s \in Slots, f \in FDs, old \in Open(p), x \in Infos :
              /\ f = arg[p].fd /\ f \notin Open(p) /\ x = of_table[s] /\ x = At(p, old)
              /\ NamesAlso(p, f, s)
              /\ Lock(p, "count", [arg[p] EXCEPT !.file = x])
<1>1. /\ OftShape /\ p \in Procs /\ oft_pc[p] = "dup"
      /\ arg[p].old \in FDs /\ arg[p].fd \in FDs /\ arg[p].fd \notin Open(p)
      /\ of_table' = of_table
  BY ArgParts DEF Dup2Place, OftIInv, InCall
<1>2. PICK s \in Slots \cup {NULL}, f \in FDs : s = fd_table[p][arg[p].old] /\ f = arg[p].fd
  BY <1>1 DEF OftShape
<1>3. /\ fd_table' = [fd_table EXCEPT ![p][f] = s]
      /\ IF s = NULL THEN Stop(p) ELSE Lock(p, "count", [arg[p] EXCEPT !.file = of_table[s]])
  BY <1>2 DEF Dup2Place
<1>4. CASE s = NULL
  <2>1. fd_table[p][f] = NULL
    BY <1>1, <1>2 DEF Open
  <2>. QED  BY <1>1, <1>2, <1>3, <1>4, <2>1 DEF OftShape
<1>5. CASE s # NULL
  <2>1. PICK old \in FDs : old = arg[p].old
    BY <1>1
  <2>2. s \in Slots /\ old \in Open(p) /\ At(p, old) = of_table[s]
    BY <1>2, <1>5, <2>1 DEF Open, At
  <2>3. PICK x \in Infos : x = of_table[s]
    BY <1>1, <2>2, NamedInfo
  <2>4. NamesAlso(p, f, s)
    <3>1. /\ fd_table' \in [Procs -> [FDs -> Slots \cup {NULL}]]
          /\ \A e \in FDs : fd_table'[p][e] = IF e = f THEN s ELSE fd_table[p][e]
      BY <1>1, <1>2, <1>3 DEF OftShape
    <3>. QED  BY <1>1, <1>2, <2>2, <3>1 DEF NamesAlso
  <2>5. Lock(p, "count", [arg[p] EXCEPT !.file = x])
    BY <1>3, <1>5, <2>3
  <2>. QED  BY <1>1, <1>2, <2>2, <2>3, <2>4, <2>5
<1>. QED  BY <1>4, <1>5

\* sys__dup2 sets newfd; the reference is counted when it has the lock, in Dup2Count.
LEMMA Dup2PlaceStep == ASSUME NEW p, Procs = {p}, OftIInv, Dup2Place(p) PROVE OftIInv'
<1>1. /\ OftShape /\ p \in Procs /\ oft_pc[p] = "dup" /\ arg[p].call # "count" /\ arg[p] \in CallArgs
      /\ arg[p].old \in FDs /\ arg[p].fd \in FDs /\ arg[p].fd \notin Open(p)
      /\ of_table' = of_table /\ ofi' = ofi /\ str_buf' = str_buf /\ content' = content
  BY ArgParts, NotCounting DEF Dup2Place, OftIInv, InCall
<1>2. CASE fd_table' = fd_table /\ Stop(p)
  <2>1. /\ oft_pc' \in [Procs -> OftPlaces] /\ arg' \in [Procs -> CallArgs]
        /\ arg'[p] = arg[p] /\ InCall(p)'
    BY <1>1, <1>2, StopTyped
  <2>2. str_buf \in Buffers
    BY <1>1 DEF OftShape
  <2>. QED  BY <1>1, <1>2, <2>1, <2>2, TablesKept DEF tables
<1>3. CASE ~ (fd_table' = fd_table /\ Stop(p))
  <2>1. PICK s \in Slots, f \in FDs, old \in Open(p), x \in Infos :
          /\ f = arg[p].fd /\ f \notin Open(p) /\ x = of_table[s] /\ x = At(p, old)
          /\ NamesAlso(p, f, s)
          /\ Lock(p, "count", [arg[p] EXCEPT !.file = x])
    BY <1>3, Dup2PlaceIs
  <2>2. OftShape /\ s \in Slots
    BY <1>1
  <2>3. x = of_table[s]
    BY <2>1
  <2>4. ofi[x].vn # NULL /\ <<p, old>> \in Descriptors(x)
    BY <1>1, <2>1, NamedInfo, OftAssumption DEF OftAssumption
  <2>. DEFINE a == [[arg[p] EXCEPT !.file = x] EXCEPT !.call = "count"]
  <2>5. a \in CallArgs /\ a.call = "count" /\ a.file = x /\ "lock" \in OftPlaces
    BY <1>1, <2>3 DEF CallArgs, Calls, OftPlaces
  <2>6. Step(p, "lock", a)
    BY <2>1 DEF Lock
  <2>. HIDE DEF a
  <2>7. oft_pc' \in [Procs -> OftPlaces] /\ arg' \in [Procs -> CallArgs] /\ oft_pc'[p] = "lock" /\ arg'[p] = a
    BY <1>1, <2>5, <2>6, StepTyped
  <2>8. NamesAlso(p, f, s)
    BY <2>1
  <2>9. /\ Open(p)' = Open(p) \cup {f} /\ At(p, f)' = x
        /\ \A e \in Open(p) : At(p, e)' = At(p, e)
        /\ \A y : <<p, f>> \notin Descriptors(y)
    BY <1>1, <2>3, <2>8, NamesOneMore
  <2>10. \A y : Descriptors(y)' = IF y = x THEN Descriptors(y) \cup {<<p, f>>} ELSE Descriptors(y)
    <3>1. Gains(p, f, of_table[s])
      BY <1>1, <2>8, NamesOneMore
    <3>. QED  BY <2>3, <3>1 DEF Gains
  <2>11. \A y : /\ Cardinality(Uncounted(y)) = 0
                /\ Cardinality(Uncounted(y))' = IF y = x THEN 1 ELSE 0
    BY <1>1, <2>5, <2>7, UncountedIs
  <2>12. CountsDescriptors'
    <3>1. \A y \in Infos : Descriptors(y)' # {} =>
            /\ ofi'[y].vn # NULL
            /\ ofi'[y].ref_count + Cardinality(Uncounted(y))' = Cardinality(Descriptors(y))'
      <4>1. SUFFICES ASSUME NEW y \in Infos, Descriptors(y)' # {}
                     PROVE  /\ ofi'[y].vn # NULL
                            /\ ofi'[y].ref_count + Cardinality(Uncounted(y))' = Cardinality(Descriptors(y))'
        OBVIOUS
      <4>2. Descriptors(y) # {}
        BY <2>4, <2>10, <4>1
      <4>3. ofi[y].vn # NULL /\ ofi[y].ref_count = Cardinality(Descriptors(y))
        <5>1. ofi[y].vn # NULL /\ ofi[y].ref_count + Cardinality(Uncounted(y)) = Cardinality(Descriptors(y))
          BY <4>2 DEF OftIInv, CountsDescriptors
        <5>2. ofi[y].ref_count \in Nat
          BY <1>1, InfoParts
        <5>. QED  BY <2>11, <5>1, <5>2
      <4>4. Cardinality(Descriptors(y))' = IF y = x THEN Cardinality(Descriptors(y)) + 1 ELSE Cardinality(Descriptors(y))
        BY <2>9, <2>10, DescriptorsFinite, FS_AddElement
      <4>5. Cardinality(Descriptors(y)) \in Nat
        BY DescriptorsFinite
      <4>. QED  BY <1>1, <2>11, <4>3, <4>4, <4>5
    <3>. QED  BY <3>1 DEF CountsDescriptors
  <2>13. NamesAreInfos'
    BY <2>3, <2>9 DEF OftIInv, NamesAreInfos
  <2>14. OftShape'
    BY <1>1, <2>7, <2>8 DEF OftShape, NamesAlso
  <2>15. CountsBounded'
    BY <1>1 DEF OftIInv, CountsBounded
  <2>16. InCall(p)'
    <3>1. f \in Open(p)' /\ arg'[p].file = At(p, f)'
      BY <2>5, <2>7, <2>9
    <3>. QED  BY <2>5, <2>7, <3>1 DEF InCall, Opening, OnInfo, Calls
  <2>. QED  BY <2>12, <2>13, <2>14, <2>15, <2>16 DEF OftIInv
<1>. QED  BY <1>2, <1>3

\* Of one process no more than OPEN_MAX descriptors name an info.
LEMMA AtMostOpenMax ==
  ASSUME NEW p, Procs = {p}
  PROVE  \A x : Cardinality(Descriptors(x)) <= OPEN_MAX /\ Cardinality(Descriptors(x))' <= OPEN_MAX
<1>1. IsFiniteSet(FDs) /\ Cardinality(FDs) = OPEN_MAX
  BY OftAssumption, FS_Interval DEF OftAssumption, FDs
<1>2. IsFiniteSet(Procs) /\ Cardinality(Procs) = 1
  BY FS_Singleton
<1>3. IsFiniteSet(Procs \X FDs) /\ Cardinality(Procs \X FDs) = OPEN_MAX
  BY <1>1, <1>2, FS_Product, OftAssumption DEF OftAssumption
<1>4. \A x : Descriptors(x) \subseteq Procs \X FDs /\ Descriptors(x)' \subseteq Procs \X FDs
  BY DEF Descriptors
<1>. QED  BY <1>3, <1>4, FS_Subset

\* The count catches up with the descriptors.
LEMMA Dup2CountStep == ASSUME NEW p, Procs = {p}, OftIInv, Dup2Count(p) PROVE OftIInv'
<1>1. /\ OftShape /\ p \in Procs /\ oft_pc[p] = "count" /\ arg[p].call = "count"
      /\ of_table' = of_table /\ fd_table' = fd_table /\ str_buf' = str_buf /\ content' = content
  BY DEF Dup2Count, OftIInv, InCall, Calls
<1>2. PICK x \in Infos : x = arg[p].file /\ ofi[x] \in FileInfo
  BY <1>1, InfoAtHand DEF OnInfo
<1>3. /\ ofi' = [ofi EXCEPT ![x] = [ofi[x] EXCEPT !.ref_count = ofi[x].ref_count + 1, !.f_lock = NULL]]
      /\ Done(p)
  BY <1>1, <1>2 DEF Dup2Count, OftShape
<1>4. /\ oft_pc' \in [Procs -> OftPlaces] /\ arg' \in [Procs -> CallArgs]
      /\ arg'[p].call = "read" /\ InCall(p)'
  BY <1>1, <1>3, DoneTyped
<1>. DEFINE new == [ofi[x] EXCEPT !.ref_count = ofi[x].ref_count + 1, !.f_lock = NULL]
<1>5. new \in FileInfo /\ new.vn = ofi[x].vn /\ new.ref_count = ofi[x].ref_count + 1
  <2>1. PICK k \in Nat : k = ofi[x].ref_count + 1
    BY <1>2 DEF FileInfo
  <2>2. [ofi[x] EXCEPT !.ref_count = k, !.f_lock = NULL] \in FileInfo
    BY <1>2, <2>1 DEF FileInfo
  <2>3. new.vn = ofi[x].vn /\ new.ref_count = ofi[x].ref_count + 1
    BY <1>2 DEF FileInfo
  <2>. QED  BY <2>1, <2>2, <2>3
<1>6. ofi' \in [Infos -> FileInfo] /\ \A y \in Infos : ofi'[y] = IF y = x THEN new ELSE ofi[y]
  BY <1>1, <1>3, <1>5 DEF OftShape
<1>. HIDE DEF new
<1>7. \A y : /\ Cardinality(Uncounted(y)) = IF y = x THEN 1 ELSE 0
             /\ Cardinality(Uncounted(y))' = 0
  BY <1>1, <1>2, <1>4, UncountedIs
<1>8. \A y \in Infos : Descriptors(y)' # {} =>
        /\ ofi'[y].vn # NULL
        /\ ofi'[y].ref_count + Cardinality(Uncounted(y))' = Cardinality(Descriptors(y))'
        /\ ofi'[y].ref_count \in Nat
  <2>1. SUFFICES ASSUME NEW y \in Infos, Descriptors(y)' # {}
                 PROVE  /\ ofi'[y].vn # NULL
                        /\ ofi'[y].ref_count + Cardinality(Uncounted(y))' = Cardinality(Descriptors(y))'
                        /\ ofi'[y].ref_count \in Nat
    OBVIOUS
  <2>2. Descriptors(y)' = Descriptors(y) /\ Descriptors(y) # {}
    BY <1>1, <2>1, SameNames
  <2>3. ofi[y].vn # NULL /\ ofi[y].ref_count + Cardinality(Uncounted(y)) = Cardinality(Descriptors(y))
    BY <2>2 DEF OftIInv, CountsDescriptors
  <2>4. ofi[y].ref_count \in Nat
    BY <1>1, InfoParts
  <2>. QED  BY <1>5, <1>6, <1>7, <2>2, <2>3, <2>4
<1>9. CountsDescriptors'
  BY <1>8 DEF CountsDescriptors
<1>10. CountsBounded'
  <2>1. SUFFICES ASSUME NEW y \in Infos  PROVE ofi'[y].ref_count <= OPEN_MAX
    BY DEF CountsBounded
  <2>2. CASE y = x
    <3>1. \E fd \in Open(p) : x = At(p, fd)
      BY <1>1, <1>2 DEF OftIInv, InCall, OnInfo
    <3>2. Descriptors(x) # {}
      BY <3>1, NamedInfo
    <3>3. Descriptors(x)' # {}
      BY <1>1, <3>2, SameNames
    <3>4. ofi'[x].ref_count + 0 = Cardinality(Descriptors(x))' /\ ofi'[x].ref_count \in Nat
      BY <1>7, <1>8, <3>3
    <3>5. Cardinality(Descriptors(x))' <= OPEN_MAX
      BY AtMostOpenMax
    <3>. QED  BY <2>2, <3>4, <3>5
  <2>3. CASE y # x
    BY <1>6, <2>3 DEF OftIInv, CountsBounded
  <2>. QED  BY <2>2, <2>3
<1>11. NamesAreInfos'
  BY <1>1, SameNames DEF OftIInv, NamesAreInfos
<1>12. OftShape'
  BY <1>1, <1>4, <1>6 DEF OftShape
<1>. QED  BY <1>4, <1>9, <1>10, <1>11, <1>12 DEF OftIInv

\* A descriptor ceases to name an info.
Unnames(p, fd) ==
  /\ fd \in Open(p) /\ of_table' = of_table
  /\ fd_table' \in [Procs -> [FDs -> Slots \cup {NULL}]]
  /\ \A e \in FDs : fd_table'[p][e] = IF e = fd THEN NULL ELSE fd_table[p][e]

Loses(p, fd, x) == \A y : Descriptors(y)' = IF y = x THEN Descriptors(y) \ {<<p, fd>>} ELSE Descriptors(y)

\* A descriptor set to NULL is one less of what it named.
LEMMA NamesOneLess ==
  ASSUME NEW p, Procs = {p}, OftShape, NEW fd, Unnames(p, fd)
  PROVE  /\ Open(p)' = Open(p) \ {fd}
         /\ \A e \in Open(p) \ {fd} : At(p, e)' = At(p, e)
         /\ Loses(p, fd, At(p, fd))
<1>1. Open(p)' = Open(p) \ {fd}
  BY DEF Open, Unnames
<1>2. \A e \in Open(p) \ {fd} : At(p, e)' = At(p, e)
  BY DEF At, Open, Unnames
<1>3. \A x : Descriptors(x) = {d \in Procs \X FDs : d[2] \in Open(p) /\ At(p, d[2]) = x}
  BY DEF Descriptors
<1>4. \A x : Descriptors(x)' = {d \in Procs \X FDs : d[2] \in Open(p)' /\ At(p, d[2])' = x}
  BY DEF Descriptors
<1>5. \A x : Descriptors(x)' = IF x = At(p, fd) THEN Descriptors(x) \ {<<p, fd>>} ELSE Descriptors(x)
  <2>1. SUFFICES ASSUME NEW x, NEW d \in Procs \X FDs
                 PROVE  d \in Descriptors(x)' <=> d \in Descriptors(x) /\ ~(x = At(p, fd) /\ d = <<p, fd>>)
    BY <1>3, <1>4
  <2>2. d = <<p, d[2]>>
    OBVIOUS
  <2>3. d \in Descriptors(x)' <=> d[2] \in Open(p) \ {fd} /\ At(p, d[2]) = x
    BY <1>1, <1>2, <1>4
  <2>4. d \in Descriptors(x) <=> d[2] \in Open(p) /\ At(p, d[2]) = x
    BY <1>3
  <2>. QED  BY <2>2, <2>3, <2>4
<1>. QED  BY <1>1, <1>2, <1>5 DEF Loses

\* What Close does to the one descriptor and to the info it names.
LEMMA CloseIs ==
  ASSUME NEW p, Procs = {p}, OftIInv, Close(p)
  PROVE  \E f \in Open(p), x \in Infos :
           /\ f = arg[p].fd /\ f \in FDs /\ x = arg[p].file /\ x = At(p, f)
           /\ <<p, f>> \in Descriptors(x) /\ ofi[x] \in FileInfo /\ ofi[x].vn # NULL
           /\ Unnames(p, f)
           /\ ofi' = [ofi EXCEPT ![x] = IF ofi[x].ref_count = 1 THEN Freed
                                        ELSE [ofi[x] EXCEPT !.ref_count = ofi[x].ref_count - 1, !.f_lock = NULL]]
<1>1. /\ OftShape /\ p \in Procs /\ oft_pc[p] = "close" /\ arg[p].call = "close"
      /\ arg[p].fd \in Open(p) /\ arg[p].file = At(p, arg[p].fd)
  BY DEF Close, OftIInv, InCall, Calls, OnInfo
<1>2. PICK f \in Open(p) : f = arg[p].fd
  BY <1>1
<1>3. f \in FDs /\ <<p, f>> \in Descriptors(At(p, f))
  BY <1>2, NamedInfo
<1>4. PICK x \in Infos : x = arg[p].file /\ x = At(p, f) /\ ofi[x] \in FileInfo /\ ofi[x].vn # NULL
  BY <1>1, <1>2, InfoAtHand, OftAssumption DEF OnInfo, OftAssumption
<1>5. Unnames(p, f)
  <2>1. fd_table' = [fd_table EXCEPT ![p][f] = NULL] /\ of_table' = of_table
    BY <1>2 DEF Close
  <2>. QED  BY <1>1, <1>2, <1>3, <2>1 DEF Unnames, OftShape
<1>6. ofi' = [ofi EXCEPT ![x] = IF ofi[x].ref_count = 1 THEN Freed
                                ELSE [ofi[x] EXCEPT !.ref_count = ofi[x].ref_count - 1, !.f_lock = NULL]]
  <2>1. x = arg[p].file
    BY <1>4
  <2>2. ofi' = [ofi EXCEPT ![arg[p].file] = IF ofi[arg[p].file].ref_count = 1 THEN Freed
                  ELSE [ofi[arg[p].file] EXCEPT !.ref_count = ofi[arg[p].file].ref_count - 1, !.f_lock = NULL]]
    BY Zenon DEF Close
  <2>. QED  BY <2>1, <2>2, Zenon
<1>. QED  BY <1>2, <1>3, <1>4, <1>5, <1>6

\* The last close frees the info, which no descriptor names then.
LEMMA CloseStep == ASSUME NEW p, Procs = {p}, OftIInv, Close(p) PROVE OftIInv'
<1>1. /\ OftShape /\ p \in Procs /\ oft_pc[p] = "close" /\ arg[p].call = "close" /\ arg[p] \in CallArgs
      /\ arg[p].fd \in Open(p) /\ arg[p].file = At(p, arg[p].fd)
      /\ of_table' = of_table /\ str_buf' = str_buf /\ content' = content
  BY ArgParts DEF Close, OftIInv, InCall, Calls, OnInfo
<1>2. PICK f \in Open(p), x \in Infos :
        /\ f = arg[p].fd /\ f \in FDs /\ x = arg[p].file /\ x = At(p, f)
        /\ <<p, f>> \in Descriptors(x) /\ ofi[x] \in FileInfo /\ ofi[x].vn # NULL
        /\ Unnames(p, f)
        /\ ofi' = [ofi EXCEPT ![x] = IF ofi[x].ref_count = 1 THEN Freed
                                     ELSE [ofi[x] EXCEPT !.ref_count = ofi[x].ref_count - 1, !.f_lock = NULL]]
  BY CloseIs
<1>3. f \in FDs /\ <<p, f>> \in Descriptors(At(p, f))
  BY <1>2
<1>4. x = arg[p].file /\ x = At(p, f) /\ ofi[x] \in FileInfo /\ ofi[x].vn # NULL
  BY <1>2
<1>. DEFINE less == [ofi[x] EXCEPT !.ref_count = ofi[x].ref_count - 1, !.f_lock = NULL]
            new == IF ofi[x].ref_count = 1 THEN Freed ELSE less
<1>5. /\ ofi' = [ofi EXCEPT ![x] = new]
      /\ IF arg[p].old = NULL THEN Done(p) ELSE Step(p, "dup", arg[p])
  BY <1>2 DEF Close
<1>6. Unnames(p, f)
  BY <1>2
<1>7. /\ Open(p)' = Open(p) \ {f}
      /\ \A e \in Open(p) \ {f} : At(p, e)' = At(p, e)
      /\ \A y : Descriptors(y)' = IF y = x THEN Descriptors(y) \ {<<p, f>>} ELSE Descriptors(y)
  <2>1. Loses(p, f, At(p, f))
    BY <1>1, <1>6, NamesOneLess
  <2>. QED  BY <1>1, <1>4, <1>6, <2>1, NamesOneLess DEF Loses
<1>8. \A y : Cardinality(Uncounted(y)) = 0
  BY <1>1, UncountedIs
<1>9. ofi[x].ref_count \in Nat /\ ofi[x].ref_count = Cardinality(Descriptors(x)) /\ ofi[x].ref_count # 0
  <2>1. Descriptors(x) # {} /\ ofi[x].ref_count \in Nat
    BY <1>1, <1>3, <1>4, InfoParts
  <2>2. ofi[x].ref_count + Cardinality(Uncounted(x)) = Cardinality(Descriptors(x))
    BY <2>1 DEF OftIInv, CountsDescriptors
  <2>3. Cardinality(Descriptors(x)) # 0
    BY <2>1, DescriptorsFinite, FS_EmptySet
  <2>. QED  BY <1>8, <2>1, <2>2, <2>3
<1>10. Cardinality(Descriptors(x))' = ofi[x].ref_count - 1 /\ IsFiniteSet(Descriptors(x)')
  BY <1>3, <1>4, <1>7, <1>9, DescriptorsFinite, FS_RemoveElement
<1>11. new \in FileInfo
  <2>1. CASE ofi[x].ref_count = 1
    BY <2>1, NoArgTyped
  <2>2. CASE ofi[x].ref_count # 1
    <3>1. PICK k \in Nat : k = ofi[x].ref_count - 1
      BY <1>9
    <3>2. [ofi[x] EXCEPT !.ref_count = k, !.f_lock = NULL] \in FileInfo
      BY <1>4 DEF FileInfo
    <3>. QED  BY <2>2, <3>1, <3>2
  <2>. QED  BY <2>1, <2>2
<1>12. /\ new.ref_count = ofi[x].ref_count - 1
       /\ ofi[x].ref_count # 1 => new.vn = ofi[x].vn
  <2>1. CASE ofi[x].ref_count = 1
    BY <2>1 DEF Freed
  <2>2. CASE ofi[x].ref_count # 1
    <3>1. less.ref_count = ofi[x].ref_count - 1 /\ less.vn = ofi[x].vn
      BY <1>4 DEF FileInfo
    <3>. QED  BY <2>2, <3>1
  <2>. QED  BY <2>1, <2>2
<1>. HIDE DEF new
<1>13. ofi' \in [Infos -> FileInfo] /\ \A y \in Infos : ofi'[y] = IF y = x THEN new ELSE ofi[y]
  BY <1>1, <1>5, <1>11 DEF OftShape
<1>14. /\ oft_pc' \in [Procs -> OftPlaces] /\ arg' \in [Procs -> CallArgs]
       /\ arg'[p].call # "count" /\ InCall(p)'
  <2>1. CASE arg[p].old = NULL
    BY <1>1, <1>5, <2>1, DoneTyped
  <2>2. CASE arg[p].old # NULL
    <3>1. Step(p, "dup", arg[p]) /\ "dup" \in OftPlaces
      BY <1>5, <2>2 DEF OftPlaces
    <3>2. /\ oft_pc' \in [Procs -> OftPlaces] /\ arg' \in [Procs -> CallArgs]
          /\ oft_pc'[p] = "dup" /\ arg'[p] = arg[p]
      BY <1>1, <3>1, StepTyped
    <3>3. arg[p].old \in FDs
      BY <1>1, <2>2, ArgParts
    <3>4. arg[p].fd \notin Open(p)'
      BY <1>2, <1>7
    <3>5. InCall(p)'
      BY <1>1, <3>2, <3>3, <3>4 DEF InCall, Opening, OnInfo, Calls
    <3>. QED  BY <1>1, <3>2, <3>5
  <2>. QED  BY <2>1, <2>2
<1>15. \A y : Cardinality(Uncounted(y))' = 0
  BY <1>14, UncountedIs
<1>16. CountsDescriptors'
  <2>1. \A y \in Infos : Descriptors(y)' # {} =>
          /\ ofi'[y].vn # NULL
          /\ ofi'[y].ref_count + Cardinality(Uncounted(y))' = Cardinality(Descriptors(y))'
    <3>1. SUFFICES ASSUME NEW y \in Infos, Descriptors(y)' # {}
                   PROVE  /\ ofi'[y].vn # NULL
                          /\ ofi'[y].ref_count + Cardinality(Uncounted(y))' = Cardinality(Descriptors(y))'
      OBVIOUS
    <3>2. CASE y = x
      <4>1. Cardinality(Descriptors(x))' # 0
        BY <1>10, <3>1, <3>2, FS_EmptySet
      <4>2. ofi[x].ref_count # 1
        BY <1>9, <1>10, <4>1
      <4>3. ofi'[x].vn # NULL /\ ofi'[x].ref_count = ofi[x].ref_count - 1
        BY <1>4, <1>12, <1>13, <4>2
      <4>. QED  BY <1>9, <1>10, <1>15, <3>2, <4>3
    <3>3. CASE y # x
      <4>1. Descriptors(y)' = Descriptors(y) /\ Descriptors(y) # {} /\ ofi'[y] = ofi[y]
        BY <1>7, <1>13, <3>1, <3>3
      <4>2. ofi[y].vn # NULL /\ ofi[y].ref_count + Cardinality(Uncounted(y)) = Cardinality(Descriptors(y))
        BY <4>1 DEF OftIInv, CountsDescriptors
      <4>. QED  BY <1>8, <1>15, <4>1, <4>2
    <3>. QED  BY <3>2, <3>3
  <2>. QED  BY <2>1 DEF CountsDescriptors
<1>17. CountsBounded'
  <2>1. SUFFICES ASSUME NEW y \in Infos  PROVE ofi'[y].ref_count <= OPEN_MAX
    BY DEF CountsBounded
  <2>2. ofi[y].ref_count <= OPEN_MAX /\ OPEN_MAX \in Nat
    BY OftAssumption DEF OftIInv, CountsBounded, OftAssumption
  <2>. QED  BY <1>9, <1>12, <1>13, <2>2
<1>18. NamesAreInfos'
  BY <1>7 DEF OftIInv, NamesAreInfos
<1>19. OftShape'
  BY <1>1, <1>6, <1>13, <1>14 DEF OftShape, Unnames
<1>. QED  BY <1>14, <1>16, <1>17, <1>18, <1>19 DEF OftIInv

-----------------------------------------------------------------------------
(* All steps together *)

\* The table is empty at the start.
LEMMA OftInitInvariant == OftInit => OftIInv
<1>. SUFFICES ASSUME OftInit PROVE OftIInv
  OBVIOUS
<1>1. OftShape
  <2>1. str_buf \in Buffers
    BY DEF OftInit, Buffers
  <2>2. content \in [Files -> Seq(Procs \cup {Zero})] /\ \A v \in Files : Len(content[v]) <= MaxSize
    BY OftAssumption DEF OftInit, OftAssumption
  <2>3. oft_pc \in [Procs -> OftPlaces]
    BY DEF OftInit, OftPlaces
  <2>. QED  BY <2>1, <2>2, <2>3, NoArgTyped DEF OftInit, OftShape
<1>2. \A p \in Procs : Open(p) = {}
  BY DEF OftInit, Open
<1>3. \A x : Descriptors(x) = {}
  BY <1>2 DEF Descriptors
<1>4. \A p \in Procs : InCall(p)
  BY DEF OftInit, InCall, NoArg, Opening, OnInfo, Calls
<1>5. CountsBounded
  BY OftAssumption DEF OftInit, CountsBounded, Freed, OftAssumption
<1>. QED  BY <1>1, <1>2, <1>3, <1>4, <1>5 DEF OftIInv, CountsDescriptors, NamesAreInfos

\* While nothing changes, the invariant stays.
LEMMA OftStutter == ASSUME NEW p, Procs = {p}, OftIInv, UNCHANGED oftVars PROVE OftIInv'
<1>1. OftShape'
  BY DEF OftIInv, OftShape, oftVars
<1>2. /\ Open(p)' = Open(p) /\ \A e : At(p, e)' = At(p, e)
      /\ \A x : Descriptors(x)' = Descriptors(x)
  BY SameNames DEF oftVars
<1>3. InCall(p)'
  <2>1. InCall(p) /\ oft_pc' = oft_pc /\ arg' = arg /\ of_table' = of_table /\ ofi' = ofi
    BY DEF OftIInv, oftVars
  <2>2. Made(p) => Made(p)'
    BY <1>2, <2>1 DEF Made
  <2>. QED  BY <1>2, <2>1, <2>2 DEF InCall
<1>. QED  BY <1>1, <1>3, QuietStep DEF oftVars

\* Each step of a single process keeps the invariant.
LEMMA OftNextStep == ASSUME Cardinality(Procs) = 1, OftIInv, [OftNext]_oftVars PROVE OftIInv'
<1>1. PICK p : Procs = {p}
  BY OneProcess
<1>2. CASE UNCHANGED oftVars
  BY <1>1, <1>2, OftStutter
<1>3. CASE OftNext
  <2>. CASE Runprogram(p)
    BY <1>1, RunprogramStep
  <2>. CASE OpenCall(p)
    BY <1>1, OpenCallStep
  <2>. CASE VfsOpen(p)
    BY <1>1, VfsOpenStep
  <2>. CASE FindSlot(p)
    BY <1>1, FindSlotStep
  <2>. CASE FillSlot(p)
    BY <1>1, FillSlotStep
  <2>. CASE PlaceSlot(p)
    BY <1>1, PlaceSlotStep
  <2>. CASE ReadCall(p)
    BY <1>1, ReadCallStep
  <2>. CASE WriteCall(p)
    BY <1>1, WriteCallStep
  <2>. CASE SeekCall(p)
    BY <1>1, SeekCallStep
  <2>. CASE CloseCall(p)
    BY <1>1, CloseCallStep
  <2>. CASE Dup2Call(p)
    BY <1>1, Dup2CallStep
  <2>. CASE Dup2Place(p)
    BY <1>1, Dup2PlaceStep
  <2>. CASE Acquire(p)
    BY <1>1, AcquireStep
  <2>. CASE ReadFails(p)
    BY <1>1, ReadFailsStep
  <2>. CASE Read(p)
    BY <1>1, ReadStep
  <2>. CASE CopyOut(p)
    BY <1>1, CopyOutStep
  <2>. CASE Write(p)
    BY <1>1, WriteStep
  <2>. CASE Seek(p)
    BY <1>1, SeekStep
  <2>. CASE Close(p)
    BY <1>1, CloseStep
  <2>. CASE Dup2Count(p)
    BY <1>1, Dup2CountStep
  <2>. QED  BY <1>1, <1>3 DEF OftNext
<1>. QED  BY <1>2, <1>3

\* The inductive invariant of the open file table, for one process.
THEOREM OftInvariant == Cardinality(Procs) = 1 => (OftSpec => []OftIInv)
<1>. SUFFICES ASSUME Cardinality(Procs) = 1 PROVE OftSpec => []OftIInv
  OBVIOUS
<1>1. OftIInv /\ [OftNext]_oftVars => OftIInv'
  BY OftNextStep
<1>. QED  BY <1>1, OftInitInvariant, PTL DEF OftSpec

\* For one process, ref_count (file.h) is the number of descriptors that name an open
\* file, but for the one dup2 has set and not counted yet; so that ker__close frees it
\* with its last descriptor and not before.
THEOREM CountsExact == Cardinality(Procs) = 1 => (OftSpec => []CountsDescriptors)
<1>. SUFFICES ASSUME Cardinality(Procs) = 1 PROVE OftSpec => []CountsDescriptors
  OBVIOUS
<1>1. OftIInv => CountsDescriptors
  BY DEF OftIInv
<1>. QED  BY <1>1, OftInvariant, PTL

\* The types, and that no count goes beyond the size of a descriptor table.
THEOREM OftTypeCorrect == Cardinality(Procs) = 1 => (OftSpec => []OftTypeOK)
<1>. SUFFICES ASSUME Cardinality(Procs) = 1 PROVE OftSpec => []OftTypeOK
  OBVIOUS
<1>1. OftIInv => OftTypeOK
  <2>. SUFFICES ASSUME OftIInv PROVE OftTypeOK
    OBVIOUS
  <2>1. \A x \in Infos : /\ ofi[x] \in FileInfo
                         /\ ofi[x].ref_count \in 0..Cardinality(Procs) * OPEN_MAX
    <3>1. Cardinality(Procs) * OPEN_MAX = OPEN_MAX
      BY OftAssumption DEF OftAssumption
    <3>. QED  BY <3>1, InfoParts, OftAssumption DEF OftIInv, CountsBounded, OftAssumption
  <2>2. \A x \in Infos : ofi[x] \in [vn : Files \cup {NULL}, o_flags : Modes, f_offset : 0..MaxSize,
                                     ref_count : 0..Cardinality(Procs) * OPEN_MAX, f_lock : Procs \cup {NULL}]
    BY <2>1 DEF FileInfo
  <2>3. str_buf \in [is : {"name", "write", "read", "lock"}, of : Files \cup Procs \cup {NULL}]
    BY DEF OftIInv, OftShape, Buffers
  <2>4. \A v \in Files : content[v] \in Seq(Procs \cup {Zero}) /\ Len(content[v]) <= MaxSize
    BY DEF OftIInv, OftShape
  <2>. QED  BY <2>2, <2>3, <2>4 DEF OftIInv, OftShape, OftTypeOK, OftPlaces, CallArgs
<1>. QED  BY <1>1, OftInvariant, PTL

-----------------------------------------------------------------------------
(* The manual's calls: what is shown of the tables *)

\* What a call has read before it has the lock: sys__read and sys__write look at o_flags
\* and f_offset first, and sys__write has its bytes in str_buf.
KeptCall(p) ==
  LET x == arg[p].file
  IN  /\ oft_pc[p] \in {"lock", "read"} /\ arg[p].call = "read" =>
           ofi[x].o_flags # "w" /\ arg[p].pos = ofi[x].f_offset
      /\ oft_pc[p] \in {"lock", "write"} /\ arg[p].call = "write" =>
           /\ ofi[x].o_flags # "r" /\ arg[p].pos = ofi[x].f_offset
           /\ str_buf = [is |-> "write", of |-> p]

OftRInv == OftIInv /\ \A p \in Procs : KeptCall(p)

\* What is said of one open.
SeenOf(x) == [file |-> ofi[x].vn, mode |-> ofi[x].o_flags, seek |-> ofi[x].f_offset]

\* With one process, what is shown are the rows of its own descriptors.
LEMMA ShownIs ==
  ASSUME NEW p, Procs = {p}
  PROVE  /\ Described = [q \in {p} |-> [fd \in Open(p) |-> At(p, fd)]]
         /\ Described' = [q \in {p} |-> [fd \in Open(p)' |-> At(p, fd)']]
         /\ Seen = [x \in Live |-> SeenOf(x)]
         /\ Seen' = [x \in Live' |-> SeenOf(x)']
         /\ Started = IF oft_pc[p] # "none" THEN {p} ELSE {}
         /\ Started' = IF oft_pc'[p] # "none" THEN {p} ELSE {}
BY DEF Described, Seen, SeenOf, Started

\* The same, name by name.
LEMMA RowsAre ==
  ASSUME NEW p, Procs = {p}
  PROVE  /\ Described = [q \in {p} |-> Described[p]] /\ Described' = [q \in {p} |-> Described'[p]]
         /\ Described[p] = [fd \in Open(p) |-> Described[p][fd]]
         /\ Described'[p] = [fd \in Open(p)' |-> Described'[p][fd]]
         /\ \A fd \in Open(p) : Described[p][fd] = At(p, fd)
         /\ \A fd \in Open(p)' : Described'[p][fd] = At(p, fd)'
<1>1. /\ Described[p] = [fd \in Open(p) |-> At(p, fd)] /\ Described'[p] = [fd \in Open(p)' |-> At(p, fd)']
      /\ DOMAIN Described = {p} /\ DOMAIN Described' = {p}
      /\ Described = [q \in DOMAIN Described |-> Described[q]]
      /\ Described' = [q \in DOMAIN Described' |-> Described'[q]]
  BY ShownIs
<1>2. /\ \A fd \in Open(p) : Described[p][fd] = At(p, fd)
      /\ \A fd \in Open(p)' : Described'[p][fd] = At(p, fd)'
      /\ DOMAIN Described[p] = Open(p) /\ DOMAIN Described'[p] = Open(p)'
  BY <1>1 DEF At
<1>3. /\ Described[p] = [fd \in Open(p) |-> Described[p][fd]]
      /\ Described'[p] = [fd \in Open(p)' |-> Described'[p][fd]]
  BY <1>1, <1>2 DEF At
<1>4. /\ Described = [q \in {p} |-> Described[p]]
      /\ Described' = [q \in {p} |-> Described'[p]]
  BY <1>1
<1>. QED  BY <1>2, <1>3, <1>4

\* The opens that descriptors name, as the manual counts them and as the code does.
LEMMA LiveIs ==
  ASSUME NEW p, Procs = {p}
  PROVE  /\ Live = {x \in Infos : \E fd \in Open(p) : At(p, fd) = x}
         /\ Live' = {x \in Infos : \E fd \in Open(p)' : At(p, fd)' = x}
         /\ Manual!Named(Described) = Live
         /\ Manual!Named(Described') = Live'
<1>1. Open(p) \subseteq FDs /\ Open(p)' \subseteq FDs
  BY DEF Open
<1>2. \A x : Descriptors(x) = {d \in Procs \X FDs : d[2] \in Open(p) /\ At(p, d[2]) = x}
  BY DEF Descriptors
<1>3. \A x : Descriptors(x)' = {d \in Procs \X FDs : d[2] \in Open(p)' /\ At(p, d[2])' = x}
  BY DEF Descriptors
<1>4. \A x : Descriptors(x) # {} <=> \E fd \in Open(p) : At(p, fd) = x
  <2>1. SUFFICES ASSUME NEW x  PROVE Descriptors(x) # {} <=> \E fd \in Open(p) : At(p, fd) = x
    OBVIOUS
  <2>2. ASSUME NEW fd \in Open(p), At(p, fd) = x  PROVE <<p, fd>> \in Descriptors(x)
    BY <1>1, <1>2, <2>2
  <2>3. ASSUME NEW d \in Descriptors(x)  PROVE d[2] \in Open(p) /\ At(p, d[2]) = x
    BY <1>2
  <2>. QED  BY <2>2, <2>3
<1>5. \A x : Descriptors(x)' # {} <=> \E fd \in Open(p)' : At(p, fd)' = x
  <2>1. SUFFICES ASSUME NEW x  PROVE Descriptors(x)' # {} <=> \E fd \in Open(p)' : At(p, fd)' = x
    OBVIOUS
  <2>2. ASSUME NEW fd \in Open(p)', At(p, fd)' = x  PROVE <<p, fd>> \in Descriptors(x)'
    BY <1>1, <1>3, <2>2
  <2>3. ASSUME NEW d \in Descriptors(x)'  PROVE d[2] \in Open(p)' /\ At(p, d[2])' = x
    BY <1>3
  <2>. QED  BY <2>2, <2>3
<1>6. Live = {x \in Infos : \E fd \in Open(p) : At(p, fd) = x}
  BY <1>4 DEF Live
<1>7. Live' = {x \in Infos : \E fd \in Open(p)' : At(p, fd)' = x}
  BY <1>5 DEF Live
<1>8. DOMAIN Described[p] = Open(p) /\ \A fd \in Open(p) : Described[p][fd] = At(p, fd)
  BY ShownIs
<1>9. DOMAIN Described'[p] = Open(p)' /\ \A fd \in Open(p)' : Described'[p][fd] = At(p, fd)'
  BY ShownIs
<1>10. Manual!Named(Described) = Live
  BY <1>6, <1>8 DEF Manual!Named
<1>11. Manual!Named(Described') = Live'
  BY <1>7, <1>9 DEF Manual!Named
<1>. QED  BY <1>6, <1>7, <1>10, <1>11

\* While a process runs, its descriptors name what they named, and those opens stay as
\* they are, nothing is seen.
LEMMA CalmStep ==
  ASSUME NEW p, Procs = {p}, oft_pc[p] # "none", oft_pc'[p] # "none",
         Open(p)' = Open(p), \A fd \in Open(p) : At(p, fd)' = At(p, fd)
  PROVE  /\ Started' = Started /\ Described' = Described /\ Live' = Live
         /\ (\A x \in Live : SeenOf(x)' = SeenOf(x)) => Seen' = Seen
<1>1. Started' = Started /\ Described' = Described
  BY ShownIs
<1>2. Live' = Live
  BY LiveIs
<1>3. (\A x \in Live : SeenOf(x)' = SeenOf(x)) => Seen' = Seen
  BY <1>2, ShownIs
<1>. QED  BY <1>1, <1>2, <1>3

-----------------------------------------------------------------------------
(* What a call has read stays true until it uses it *)

\* A step of a call, whatever its variables.
LEMMA PlaceIs ==
  ASSUME NEW p \in Procs, OftShape
  PROVE  /\ \A place, a : Step(p, place, a) => oft_pc'[p] = place /\ arg'[p] = a
         /\ Done(p) => oft_pc'[p] = "run"
         /\ Stop(p) => oft_pc'[p] = "stopped"
BY DEF Step, Done, Stop, OftShape

\* Elsewhere than at the lock and at the transfer there is nothing to keep.
LEMMA NothingKept ==
  ASSUME NEW p, oft_pc'[p] \notin {"lock", "read", "write"}
  PROVE  KeptCall(p)'
BY DEF KeptCall

\* Nor when the lock is for another call.
LEMMA OtherCall ==
  ASSUME NEW p, arg'[p].call \in {"seek", "close", "count"}
  PROVE  KeptCall(p)'
BY DEF KeptCall

\* Steps that end a call, or go on within open or close.
LEMMA EndKept ==
  ASSUME NEW p, Procs = {p}, OftIInv,
         \/ Runprogram(p) \/ OpenCall(p) \/ VfsOpen(p) \/ FindSlot(p) \/ FillSlot(p) \/ PlaceSlot(p)
         \/ ReadFails(p) \/ Read(p) \/ CopyOut(p) \/ Write(p) \/ Seek(p) \/ Close(p) \/ Dup2Count(p)
  PROVE  KeptCall(p)'
<1>1. p \in Procs /\ OftShape
  BY DEF OftIInv
<1>2. CASE Runprogram(p) \/ PlaceSlot(p) \/ ReadFails(p) \/ CopyOut(p) \/ Write(p) \/ Seek(p) \/ Dup2Count(p)
  <2>1. Done(p)
    BY <1>2 DEF Runprogram, PlaceSlot, ReadFails, CopyOut, Write, Seek, Dup2Count, Unlock
  <2>. QED  BY <1>1, <2>1, PlaceIs, NothingKept
<1>3. CASE OpenCall(p)
  <2>1. \E a : Step(p, "open", a)
    BY <1>3 DEF OpenCall
  <2>. QED  BY <1>1, <2>1, PlaceIs, NothingKept
<1>4. CASE VfsOpen(p)
  <2>1. Done(p) \/ \E a : Step(p, "find", a)
    BY <1>4 DEF VfsOpen
  <2>. QED  BY <1>1, <2>1, PlaceIs, NothingKept
<1>5. CASE FindSlot(p)
  <2>1. Stop(p) \/ \E a : Step(p, "alloc", a)
    BY <1>5 DEF FindSlot
  <2>. QED  BY <1>1, <2>1, PlaceIs, NothingKept
<1>6. CASE FillSlot(p)
  <2>1. Done(p) \/ Step(p, "place", arg[p])
    BY <1>6 DEF FillSlot
  <2>. QED  BY <1>1, <2>1, PlaceIs, NothingKept
<1>7. CASE Read(p)
  <2>1. Done(p) \/ Step(p, "copyout", arg[p])
    BY <1>7 DEF Read, Unlock
  <2>. QED  BY <1>1, <2>1, PlaceIs, NothingKept
<1>8. CASE Close(p)
  <2>1. Done(p) \/ Step(p, "dup", arg[p])
    BY <1>8 DEF Close
  <2>. QED  BY <1>1, <2>1, PlaceIs, NothingKept
<1>. QED  BY <1>2, <1>3, <1>4, <1>5, <1>6, <1>7, <1>8

\* A call that asks for a lock has the variables it was given.
LEMMA LockIs ==
  ASSUME NEW p \in Procs, OftShape, NEW a \in CallArgs, NEW c, Lock(p, c, a)
  PROVE  /\ oft_pc'[p] = "lock" /\ arg'[p].call = c
         /\ arg'[p].file = a.file /\ arg'[p].pos = a.pos
<1>1. Step(p, "lock", [a EXCEPT !.call = c])
  BY DEF Lock
<1>2. /\ [a EXCEPT !.call = c].call = c
      /\ [a EXCEPT !.call = c].file = a.file /\ [a EXCEPT !.call = c].pos = a.pos
  BY DEF CallArgs
<1>. QED  BY <1>1, <1>2, PlaceIs

\* sys__lseek, close and dup2 read nothing of the open before they have its lock.
LEMMA OtherKept ==
  ASSUME NEW p, Procs = {p}, OftIInv, SeekCall(p) \/ CloseCall(p) \/ Dup2Call(p) \/ Dup2Place(p)
  PROVE  KeptCall(p)'
<1>1. p \in Procs /\ OftShape /\ arg[p] \in CallArgs
  BY DEF OftIInv, OftShape
<1>2. Open(p) \subseteq FDs
  BY DEF Open
<1>3. CASE SeekCall(p)
  <2>1. PICK fd \in Open(p) : Lock(p, "seek", [NoArg EXCEPT !.file = At(p, fd)])
    BY <1>3 DEF SeekCall
  <2>2. [NoArg EXCEPT !.file = At(p, fd)] \in CallArgs
    BY <1>1, NamedInfo, NoArgTyped DEF CallArgs
  <2>. QED  BY <1>1, <2>1, <2>2, LockIs, OtherCall
<1>4. CASE CloseCall(p)
  <2>1. PICK fd \in Open(p) : Lock(p, "close", [NoArg EXCEPT !.file = At(p, fd), !.fd = fd])
    BY <1>4 DEF CloseCall
  <2>2. [NoArg EXCEPT !.file = At(p, fd), !.fd = fd] \in CallArgs
    BY <1>1, <1>2, NamedInfo, NoArgTyped DEF CallArgs
  <2>. QED  BY <1>1, <2>1, <2>2, LockIs, OtherCall
<1>5. CASE Dup2Call(p)
  <2>1. PICK old \in Open(p), new \in FDs :
          IF new \in Open(p)
          THEN Lock(p, "close", [NoArg EXCEPT !.file = At(p, new), !.fd = new, !.old = old])
          ELSE Step(p, "dup", [NoArg EXCEPT !.fd = new, !.old = old])
    BY <1>5 DEF Dup2Call
  <2>2. CASE new \in Open(p)
    <3>1. [NoArg EXCEPT !.file = At(p, new), !.fd = new, !.old = old] \in CallArgs
      BY <1>1, <1>2, <2>1, <2>2, NamedInfo, NoArgTyped DEF CallArgs
    <3>. QED  BY <1>1, <2>1, <2>2, <3>1, LockIs, OtherCall
  <2>3. CASE new \notin Open(p)
    BY <1>1, <2>1, <2>3, PlaceIs, NothingKept
  <2>. QED  BY <2>2, <2>3
<1>6. CASE Dup2Place(p)
  <2>. DEFINE s == fd_table[p][arg[p].old]
  <2>1. Stop(p) \/ (s # NULL /\ Lock(p, "count", [arg[p] EXCEPT !.file = of_table[s]]))
    BY <1>6 DEF Dup2Place
  <2>2. ASSUME s # NULL  PROVE [arg[p] EXCEPT !.file = of_table[s]] \in CallArgs
    <3>1. arg[p].old \in FDs
      BY <1>1, <1>6 DEF Dup2Place, OftIInv, InCall
    <3>2. s \in Slots
      BY <1>1, <2>2, <3>1 DEF OftShape
    <3>3. of_table[s] \in Infos \cup {NULL}
      BY <1>1, <3>2 DEF OftShape
    <3>. HIDE DEF s
    <3>. QED  BY <1>1, <3>3 DEF CallArgs
  <2>. HIDE DEF s
  <2>. QED  BY <1>1, <2>1, <2>2, PlaceIs, LockIs, OtherCall, NothingKept
<1>. QED  BY <1>3, <1>4, <1>5, <1>6

\* sys__read and sys__write begin with what they find.
LEMMA BeginKept ==
  ASSUME NEW p, Procs = {p}, OftIInv, ReadCall(p) \/ WriteCall(p)
  PROVE  KeptCall(p)'
<1>1. p \in Procs /\ OftShape
  BY DEF OftIInv
<1>2. ASSUME NEW fd \in Open(p)
      PROVE  LET a == [NoArg EXCEPT !.file = At(p, fd), !.pos = ofi[At(p, fd)].f_offset]
             IN  a \in CallArgs /\ a.file = At(p, fd) /\ a.pos = ofi[At(p, fd)].f_offset
  <2>1. At(p, fd) \in Infos
    BY <1>1, <1>2, NamedInfo
  <2>2. ofi[At(p, fd)].f_offset \in 0..MaxSize
    BY <1>1, <2>1, InfoParts
  <2>. QED  BY <2>1, <2>2, NoArgTyped DEF CallArgs, NoArg
<1>3. CASE ReadCall(p)
  <2>1. PICK fd \in Open(p) :
          /\ ofi[At(p, fd)].o_flags # "w"
          /\ Lock(p, "read", [NoArg EXCEPT !.file = At(p, fd), !.pos = ofi[At(p, fd)].f_offset])
    BY <1>3 DEF ReadCall
  <2>2. /\ arg'[p].call = "read" /\ arg'[p].file = At(p, fd) /\ arg'[p].pos = ofi[At(p, fd)].f_offset
    BY <1>1, <1>2, <2>1, LockIs
  <2>3. ofi' = ofi
    BY <1>3 DEF ReadCall, tables
  <2>. QED  BY <2>1, <2>2, <2>3 DEF KeptCall
<1>4. CASE WriteCall(p)
  <2>1. PICK fd \in Open(p) :
          /\ ofi[At(p, fd)].o_flags # "r"
          /\ Lock(p, "write", [NoArg EXCEPT !.file = At(p, fd), !.pos = ofi[At(p, fd)].f_offset])
    BY <1>4 DEF WriteCall
  <2>2. /\ arg'[p].call = "write" /\ arg'[p].file = At(p, fd) /\ arg'[p].pos = ofi[At(p, fd)].f_offset
    BY <1>1, <1>2, <2>1, LockIs
  <2>3. ofi' = ofi /\ str_buf' = [is |-> "write", of |-> p]
    BY <1>4 DEF WriteCall, tables
  <2>. QED  BY <2>1, <2>2, <2>3 DEF KeptCall
<1>. QED  BY <1>3, <1>4

\* lock_acquire changes none of it: nobody else moves the position meanwhile.
LEMMA AcquireKept ==
  ASSUME NEW p, Procs = {p}, OftIInv, KeptCall(p), Acquire(p)
  PROVE  KeptCall(p)'
<1>1. p \in Procs /\ OftShape /\ oft_pc[p] = "lock"
  BY DEF OftIInv, Acquire
<1>2. CASE Stop(p)
  BY <1>1, <1>2, PlaceIs, NothingKept
<1>3. CASE ~ Stop(p)
  <2>1. PICK x \in Infos : x = arg[p].file /\ ofi[x] \in FileInfo
    BY <1>1, InfoAtHand DEF OnInfo
  <2>2. /\ ofi' = [ofi EXCEPT ![x].f_lock = p] /\ str_buf' = str_buf
        /\ Step(p, arg[p].call, arg[p])
    BY <1>3, <2>1 DEF Acquire
  <2>3. oft_pc'[p] = arg[p].call /\ arg'[p] = arg[p]
    BY <1>1, <2>2, PlaceIs
  <2>4. ofi'[x].o_flags = ofi[x].o_flags /\ ofi'[x].f_offset = ofi[x].f_offset
    <3>1. ofi'[x] = [ofi[x] EXCEPT !.f_lock = p]
      BY <1>1, <2>1, <2>2 DEF OftShape
    <3>. QED  BY <2>1, <3>1 DEF FileInfo
  <2>. QED  BY <1>1, <2>1, <2>2, <2>3, <2>4 DEF KeptCall
<1>. QED  BY <1>2, <1>3

\* The invariant the refinement rests on.
LEMMA OftRInvariant == Cardinality(Procs) = 1 => (OftSpec => []OftRInv)
<1>. SUFFICES ASSUME Cardinality(Procs) = 1 PROVE OftSpec => []OftRInv
  OBVIOUS
<1>1. OftInit => OftRInv
  <2>1. OftInit => \A p \in Procs : KeptCall(p)
    BY DEF OftInit, KeptCall
  <2>. QED  BY <2>1, OftInitInvariant DEF OftRInv
<1>2. OftRInv /\ [OftNext]_oftVars => OftRInv'
  <2>. SUFFICES ASSUME OftRInv, [OftNext]_oftVars PROVE OftRInv'
    OBVIOUS
  <2>1. OftIInv /\ OftIInv'
    BY OftNextStep DEF OftRInv
  <2>2. PICK p : Procs = {p}
    BY OneProcess
  <2>3. KeptCall(p)
    BY <2>2 DEF OftRInv
  <2>4. KeptCall(p)'
    <3>1. CASE UNCHANGED oftVars
      BY <2>3, <3>1 DEF KeptCall, oftVars
    <3>2. CASE OftNext
      BY <2>1, <2>2, <2>3, <3>2, EndKept, OtherKept, BeginKept, AcquireKept DEF OftNext
    <3>. QED  BY <3>1, <3>2
  <2>. QED  BY <2>1, <2>2, <2>4 DEF OftRInv
<1>. QED  BY <1>1, <1>2, PTL DEF OftSpec

-----------------------------------------------------------------------------
(* Each step is one of the manual's, or none *)

\* Once it runs, a process does not go back to not being there.
LEMMA RunsOn ==
  ASSUME NEW p, Procs = {p}, OftIInv,
         \/ OpenCall(p) \/ VfsOpen(p) \/ FindSlot(p) \/ FillSlot(p) \/ PlaceSlot(p)
         \/ ReadCall(p) \/ WriteCall(p) \/ SeekCall(p) \/ CloseCall(p) \/ Dup2Call(p) \/ Dup2Place(p)
         \/ Acquire(p)
         \/ ReadFails(p) \/ Read(p) \/ CopyOut(p) \/ Write(p) \/ Seek(p) \/ Close(p) \/ Dup2Count(p)
  PROVE  oft_pc[p] # "none" /\ oft_pc'[p] # "none"
<1>1. p \in Procs /\ OftShape
  BY DEF OftIInv
<1>2. arg[p].call # "none"
  BY <1>1, ArgParts DEF Calls
<1>. USE <1>1, PlaceIs
<1>3. CASE OpenCall(p)
  <2>1. oft_pc[p] = "run" /\ \E a : Step(p, "open", a)
    BY <1>3 DEF OpenCall
  <2>. QED  BY <2>1
<1>4. CASE VfsOpen(p)
  <2>1. oft_pc[p] = "open" /\ (Done(p) \/ \E a : Step(p, "find", a))
    BY <1>4 DEF VfsOpen
  <2>. QED  BY <2>1
<1>5. CASE FindSlot(p)
  <2>1. oft_pc[p] = "find" /\ (Stop(p) \/ \E a : Step(p, "alloc", a))
    BY <1>5 DEF FindSlot
  <2>. QED  BY <2>1
<1>6. CASE FillSlot(p)
  <2>1. oft_pc[p] = "alloc" /\ (Done(p) \/ Step(p, "place", arg[p]))
    BY <1>6 DEF FillSlot
  <2>. QED  BY <2>1
<1>7. CASE PlaceSlot(p) \/ ReadFails(p) \/ CopyOut(p) \/ Write(p) \/ Seek(p) \/ Dup2Count(p)
  <2>1. Done(p) /\ oft_pc[p] \in {"place", "read", "copyout", "write", "seek", "count"}
    BY <1>7 DEF PlaceSlot, ReadFails, CopyOut, Write, Seek, Dup2Count, Unlock
  <2>. QED  BY <2>1
<1>8. CASE ReadCall(p) \/ WriteCall(p) \/ SeekCall(p) \/ CloseCall(p)
  <2>1. oft_pc[p] = "run" /\ \E a : Step(p, "lock", a)
    BY <1>8 DEF ReadCall, WriteCall, SeekCall, CloseCall, Lock
  <2>. QED  BY <2>1
<1>9. CASE Dup2Call(p)
  <2>1. oft_pc[p] = "run" /\ \E a : Step(p, "lock", a) \/ Step(p, "dup", a)
    BY <1>9 DEF Dup2Call, Lock
  <2>. QED  BY <2>1
<1>10. CASE Dup2Place(p)
  <2>1. oft_pc[p] = "dup" /\ (Stop(p) \/ \E a : Step(p, "lock", a))
    BY <1>10 DEF Dup2Place, Lock
  <2>. QED  BY <2>1
<1>11. CASE Acquire(p)
  <2>1. oft_pc[p] = "lock" /\ (Stop(p) \/ Step(p, arg[p].call, arg[p]))
    BY <1>11 DEF Acquire
  <2>. QED  BY <1>2, <2>1
<1>12. CASE Read(p)
  <2>1. oft_pc[p] = "read" /\ (Done(p) \/ Step(p, "copyout", arg[p]))
    BY <1>12 DEF Read, Unlock
  <2>. QED  BY <2>1
<1>13. CASE Close(p)
  <2>1. oft_pc[p] = "close" /\ (Done(p) \/ Step(p, "dup", arg[p]))
    BY <1>13 DEF Close
  <2>. QED  BY <2>1
<1>. QED  BY <1>3, <1>4, <1>5, <1>6, <1>7, <1>8, <1>9, <1>10, <1>11, <1>12, <1>13

\* A step that changes no descriptor and nothing of an open but its lock and its count.
LEMMA NothingSeen ==
  ASSUME NEW p, Procs = {p}, oft_pc[p] # "none", oft_pc'[p] # "none",
         of_table' = of_table, fd_table' = fd_table, content' = content,
         \A x \in Infos : SeenOf(x)' = SeenOf(x)
  PROVE  UNCHANGED Manual!shVars
<1>1. Open(p)' = Open(p) /\ \A fd \in Open(p) : At(p, fd)' = At(p, fd)
  BY SameNames
<1>2. Started' = Started /\ Described' = Described /\ Seen' = Seen
  BY <1>1, CalmStep DEF Live
<1>. QED  BY <1>2 DEF Manual!shVars

\* Steps that leave the tables alone, and the files.
LEMMA TablesSeen ==
  ASSUME NEW p, Procs = {p}, OftIInv,
         \/ OpenCall(p) \/ FindSlot(p) \/ ReadCall(p) \/ WriteCall(p) \/ SeekCall(p) \/ CloseCall(p)
         \/ Dup2Call(p) \/ ReadFails(p)
  PROVE  UNCHANGED Manual!shVars
<1>1. oft_pc[p] # "none" /\ oft_pc'[p] # "none"
  BY RunsOn
<1>2. UNCHANGED <<tables, content>>
  BY DEF OpenCall, FindSlot, ReadCall, WriteCall, SeekCall, CloseCall, Dup2Call, ReadFails
<1>. QED  BY <1>1, <1>2, NothingSeen DEF tables, SeenOf

\* Taking the lock, copying out, and counting a reference.
LEMMA LockSeen ==
  ASSUME NEW p, Procs = {p}, OftIInv, Acquire(p) \/ CopyOut(p) \/ Dup2Count(p)
  PROVE  UNCHANGED Manual!shVars
<1>1. oft_pc[p] # "none" /\ oft_pc'[p] # "none"
  BY RunsOn
<1>2. /\ of_table' = of_table /\ fd_table' = fd_table /\ content' = content
      /\ p \in Procs /\ OftShape /\ oft_pc[p] \in OnInfo
  BY DEF Acquire, CopyOut, Dup2Count, OftIInv, OnInfo
<1>3. PICK x \in Infos : x = arg[p].file /\ ofi[x] \in FileInfo
  BY <1>2, InfoAtHand
<1>4. PICK r : /\ ofi' = ofi \/ ofi' = [ofi EXCEPT ![x] = r]
               /\ r.vn = ofi[x].vn /\ r.o_flags = ofi[x].o_flags /\ r.f_offset = ofi[x].f_offset
  <2>1. CASE Acquire(p)
    <3>. DEFINE new == [ofi[x] EXCEPT !.f_lock = p]
    <3>1. ofi' = ofi \/ ofi' = [ofi EXCEPT ![x] = new]
      BY <1>2, <1>3, <2>1 DEF Acquire, OftShape
    <3>2. new.vn = ofi[x].vn /\ new.o_flags = ofi[x].o_flags /\ new.f_offset = ofi[x].f_offset
      BY <1>3 DEF FileInfo
    <3>. QED  BY <3>1, <3>2
  <2>2. CASE CopyOut(p)
    <3>. DEFINE new == [ofi[x] EXCEPT !.f_offset = ofi[x].f_offset, !.f_lock = NULL]
    <3>1. ofi' = [ofi EXCEPT ![x] = new]
      BY <1>2, <1>3, <2>2 DEF CopyOut, Unlock, OftShape
    <3>2. new.vn = ofi[x].vn /\ new.o_flags = ofi[x].o_flags /\ new.f_offset = ofi[x].f_offset
      BY <1>3 DEF FileInfo
    <3>. QED  BY <3>1, <3>2
  <2>3. CASE Dup2Count(p)
    <3>. DEFINE new == [ofi[x] EXCEPT !.ref_count = ofi[x].ref_count + 1, !.f_lock = NULL]
    <3>1. ofi' = [ofi EXCEPT ![x] = new]
      BY <1>2, <1>3, <2>3 DEF Dup2Count, OftShape
    <3>2. new.vn = ofi[x].vn /\ new.o_flags = ofi[x].o_flags /\ new.f_offset = ofi[x].f_offset
      BY <1>3 DEF FileInfo
    <3>. QED  BY <3>1, <3>2
  <2>. QED  BY <2>1, <2>2, <2>3
<1>5. \A y \in Infos : SeenOf(y)' = SeenOf(y)
  BY <1>2, <1>4 DEF SeenOf, OftShape
<1>. QED  BY <1>1, <1>2, <1>5, NothingSeen

\* vfs_open may truncate a file, and shows nothing else.
LEMMA VfsOpenSeen ==
  ASSUME NEW p, Procs = {p}, OftIInv, VfsOpen(p)
  PROVE  Manual!ShNext \/ UNCHANGED Manual!shVars
<1>1. oft_pc[p] # "none" /\ oft_pc'[p] # "none"
  BY RunsOn
<1>2. of_table' = of_table /\ fd_table' = fd_table /\ ofi' = ofi
  BY DEF VfsOpen, tables
<1>3. Started' = Started /\ Described' = Described /\ Seen' = Seen /\ Started # {}
  BY <1>1, <1>2, SameNames, CalmStep, ShownIs DEF SeenOf
<1>4. content' = content \/ \E v \in Files : content' = [content EXCEPT ![v] = <<>>]
  BY DEF VfsOpen
<1>. QED  BY <1>3, <1>4 DEF Manual!ShNext, Manual!Truncate, Manual!shVars

\* Making an open file before any descriptor names it.
LEMMA FillSlotSeen ==
  ASSUME NEW p, Procs = {p}, OftIInv, FillSlot(p)
  PROVE  UNCHANGED Manual!shVars
<1>1. oft_pc[p] # "none" /\ oft_pc'[p] # "none"
  BY RunsOn
<1>2. /\ fd_table' = fd_table /\ content' = content /\ OftShape /\ p \in Procs
      /\ arg[p].slot \in Slots /\ of_table[arg[p].slot] = NULL /\ oft_pc[p] = "alloc"
  BY ArgParts DEF FillSlot, OftIInv, InCall
<1>3. \A s \in Slots : s # arg[p].slot => of_table'[s] = of_table[s]
  BY <1>2 DEF FillSlot, OftShape
<1>4. Open(p)' = Open(p) /\ \A fd \in Open(p) : At(p, fd)' = At(p, fd)
  <2>1. \A fd \in Open(p) : fd_table[p][fd] \in Slots /\ fd_table[p][fd] # arg[p].slot
    <3>1. SUFFICES ASSUME NEW fd \in Open(p)
                   PROVE  fd_table[p][fd] \in Slots /\ of_table[fd_table[p][fd]] # NULL
      BY <1>2
    <3>. QED  BY <1>2, OpenNames, NamedInfo, OftAssumption DEF At, OftAssumption
  <2>. QED  BY <1>2, <1>3, <2>1 DEF Open, At
<1>5. \A x \in Live : SeenOf(x)' = SeenOf(x)
  <2>1. \A x \in Live : x \in Infos /\ ofi[x].vn # NULL
    BY DEF Live, OftIInv, CountsDescriptors
  <2>2. ofi' = ofi \/ \E x \in Infos : ofi[x].vn = NULL /\ \E r : ofi' = [ofi EXCEPT ![x] = r]
    BY DEF FillSlot
  <2>. QED  BY <1>2, <2>1, <2>2 DEF SeenOf, OftShape
<1>6. Started' = Started /\ Described' = Described /\ Seen' = Seen
  BY <1>1, <1>4, <1>5, CalmStep
<1>. QED  BY <1>2, <1>6 DEF Manual!shVars

\* proc_create_runprogram is the manual's start of a process.
LEMMA RunprogramSeen ==
  ASSUME NEW p, Procs = {p}, OftIInv, Runprogram(p)
  PROVE  Manual!ShNext
<1>1. oft_pc[p] = "none" /\ oft_pc'[p] = "run" /\ p \in Procs
  BY PlaceIs DEF Runprogram, OftIInv
<1>2. Started = {} /\ Started' = {p}
  BY <1>1, ShownIs
<1>3. UNCHANGED <<tables, content>>
  BY DEF Runprogram
<1>4. /\ Open(p)' = Open(p) /\ \A fd : At(p, fd)' = At(p, fd)
      /\ \A x : SeenOf(x)' = SeenOf(x)
  BY <1>3, SameNames DEF tables, SeenOf
<1>5. Described' = Described /\ Live' = Live
  BY <1>4, ShownIs, LiveIs
<1>6. Seen' = Seen
  BY <1>4, <1>5, ShownIs
<1>7. Manual!Start(p)
  BY <1>2, <1>3, <1>5, <1>6 DEF Manual!Start
<1>. QED  BY <1>1, <1>7 DEF Manual!ShNext

\* Of all opens only this one moves.
OneMoves(x, n) == \A y \in Infos : SeenOf(y)' = IF y = x THEN [SeenOf(y) EXCEPT !.seek = n] ELSE SeenOf(y)

\* Letting go of the lock stores the position.
LEMMA UnlockMoves ==
  ASSUME NEW p \in Procs, OftShape, NEW x \in Infos, x = arg[p].file, NEW n, Unlock(p, n)
  PROVE  OneMoves(x, n)
<1>. DEFINE new == [ofi[x] EXCEPT !.f_offset = n, !.f_lock = NULL]
<1>1. ofi' = [ofi EXCEPT ![x] = new]
  BY DEF Unlock, OftShape
<1>2. ofi \in [Infos -> FileInfo] /\ ofi[x] \in FileInfo
  BY DEF OftShape
<1>3. new.vn = ofi[x].vn /\ new.o_flags = ofi[x].o_flags /\ new.f_offset = n
  BY <1>2 DEF FileInfo
<1>. HIDE DEF new
<1>4. \A y \in Infos : ofi'[y] = IF y = x THEN new ELSE ofi[y]
  BY <1>1, <1>2
<1>. QED  BY <1>3, <1>4 DEF OneMoves, SeenOf

\* The open a call moves is one of the manual's, of a descriptor of its process.
LEMMA MovingOpen ==
  ASSUME NEW p, Procs = {p}, OftIInv, oft_pc[p] \in {"read", "write", "seek"}
  PROVE  \E x \in Live, d \in Open(p) :
           /\ x = arg[p].file /\ x \in Infos /\ ofi[x].vn \in Files /\ ofi[x] \in FileInfo
           /\ d \in DOMAIN Described[p] /\ Described[p][d] = x /\ Seen[x] = SeenOf(x)
           /\ p \in Started
<1>1. PICK d \in Open(p) : arg[p].file = At(p, d)
  BY DEF OftIInv, InCall, OnInfo
<1>2. PICK x \in Infos : x = arg[p].file /\ ofi[x].vn \in Files /\ ofi[x] \in FileInfo
  BY InfoAtHand DEF OnInfo
<1>3. x \in Live
  BY <1>1, <1>2, LiveIs
<1>4. d \in DOMAIN Described[p] /\ Described[p][d] = x
  BY <1>1, <1>2, ShownIs
<1>5. Seen[x] = SeenOf(x) /\ p \in Started
  BY <1>3, ShownIs
<1>. QED  BY <1>1, <1>2, <1>3, <1>4, <1>5

\* What the manual sees of that.
LEMMA SeeksTo ==
  ASSUME NEW p, Procs = {p}, oft_pc[p] # "none", oft_pc'[p] # "none",
         of_table' = of_table, fd_table' = fd_table, NEW x \in Live, NEW n, OneMoves(x, n)
  PROVE  Manual!SeekTo(x, n) /\ Started' = Started /\ Described' = Described
<1>1. Open(p)' = Open(p) /\ \A fd \in Open(p) : At(p, fd)' = At(p, fd)
  BY SameNames
<1>2. Started' = Started /\ Described' = Described /\ Live' = Live
  BY <1>1, CalmStep
<1>3. \A y \in Live : SeenOf(y)' = IF y = x THEN [SeenOf(y) EXCEPT !.seek = n] ELSE SeenOf(y)
  BY DEF OneMoves, Live
<1>4. Seen = [y \in Live |-> SeenOf(y)] /\ Seen' = [y \in Live |-> SeenOf(y)']
  BY <1>2, ShownIs
<1>. HIDE DEF SeenOf
<1>5. Seen' = [Seen EXCEPT ![x] = [SeenOf(x) EXCEPT !.seek = n]]
  BY <1>3, <1>4
<1>6. Seen' = [Seen EXCEPT ![x].seek = n]
  BY <1>4, <1>5
<1>. QED  BY <1>2, <1>6 DEF Manual!SeekTo

\* sys__lseek is the manual's, from the start, the position or the end; a seek to below
\* zero stays where it is.
LEMMA SeekSeen ==
  ASSUME NEW p, Procs = {p}, OftIInv, Seek(p)
  PROVE  Manual!ShNext
<1>1. /\ oft_pc[p] = "seek" /\ of_table' = of_table /\ fd_table' = fd_table /\ content' = content
      /\ p \in Procs /\ OftShape
  BY DEF Seek, OftIInv
<1>2. oft_pc[p] # "none" /\ oft_pc'[p] # "none"
  BY RunsOn
<1>3. PICK x \in Live, d \in Open(p) :
        /\ x = arg[p].file /\ x \in Infos /\ ofi[x].vn \in Files /\ ofi[x] \in FileInfo
        /\ d \in DOMAIN Described[p] /\ Described[p][d] = x /\ Seen[x] = SeenOf(x)
        /\ p \in Started
  BY <1>1, MovingOpen
<1>4. PICK base \in {0, ofi[x].f_offset, Len(content[ofi[x].vn])}, e \in {-1, 0, 1} :
        /\ base + e <= MaxSize
        /\ Unlock(p, IF base + e < 0 THEN ofi[x].f_offset ELSE base + e)
  BY <1>3 DEF Seek
<1>5. PICK n \in 0..MaxSize : n = IF base + e < 0 THEN ofi[x].f_offset ELSE base + e
  <2>1. base \in Nat /\ MaxSize \in Nat /\ ofi[x].f_offset \in 0..MaxSize
    BY <1>1, <1>3, InfoParts, ContentParts, OftAssumption DEF OftAssumption
  <2>. QED  BY <1>4, <2>1
<1>6. OneMoves(x, n)
  BY <1>1, <1>3, <1>4, <1>5, UnlockMoves
<1>7. Manual!Lseek(p, d, n)
  BY <1>1, <1>2, <1>3, <1>6, SeeksTo DEF Manual!Lseek
<1>. QED  BY <1>1, <1>3, <1>5, <1>7 DEF Manual!ShNext

\* sys__read is the manual's when it moves the position: what it copies out later is in
\* str_buf by then.
LEMMA ReadSeen ==
  ASSUME NEW p, Procs = {p}, OftIInv, KeptCall(p), Read(p)
  PROVE  Manual!ShNext
<1>1. /\ oft_pc[p] = "read" /\ of_table' = of_table /\ fd_table' = fd_table /\ content' = content
      /\ p \in Procs /\ OftShape /\ arg[p].call = "read" /\ arg[p].pos \in 0..MaxSize
  BY ArgParts DEF Read, OftIInv, InCall, Calls
<1>2. oft_pc[p] # "none" /\ oft_pc'[p] # "none"
  BY RunsOn
<1>3. PICK x \in Live, d \in Open(p) :
        /\ x = arg[p].file /\ x \in Infos /\ ofi[x].vn \in Files /\ ofi[x] \in FileInfo
        /\ d \in DOMAIN Described[p] /\ Described[p][d] = x /\ Seen[x] = SeenOf(x)
        /\ p \in Started
  BY <1>1, MovingOpen
<1>4. ofi[x].o_flags # "w" /\ arg[p].pos = ofi[x].f_offset
  BY <1>1, <1>3 DEF KeptCall
<1>. PICK left \in Int : left = Len(content[ofi[x].vn]) - arg[p].pos
  BY <1>1, <1>3, ContentParts
<1>5. PICK k \in Lengths :
        LET next == arg[p].pos + Min({k, Max({left, 0})})
        IN IF next = ofi[x].f_offset THEN Unlock(p, next)
           ELSE ofi' = [ofi EXCEPT ![x].f_offset = next]
  BY <1>3 DEF Read
<1>6. k \in Nat
  BY OftAssumption DEF OftAssumption
<1>7. Min({k, Max({left, 0})}) = IF left <= 0 THEN 0 ELSE IF left < k THEN left ELSE k
  <2>1. Max({left, 0}) = IF left >= 0 THEN left ELSE 0
    BY MaxOfTwo
  <2>2. PICK m \in Int : m = Max({left, 0})
    BY <2>1
  <2>3. Min({k, m}) = IF k <= m THEN k ELSE m
    BY <1>6, MinOfTwo
  <2>. QED  BY <1>6, <2>1, <2>2, <2>3
<1>8. PICK n : n = arg[p].pos + (IF left <= 0 THEN 0 ELSE IF left < k THEN left ELSE k)
  OBVIOUS
<1>9. OneMoves(x, n)
  <2>1. CASE Unlock(p, n)
    BY <1>1, <1>3, <2>1, UnlockMoves
  <2>2. CASE ofi' = [ofi EXCEPT ![x].f_offset = n]
    <3>. DEFINE new == [ofi[x] EXCEPT !.f_offset = n]
    <3>1. ofi' = [ofi EXCEPT ![x] = new] /\ ofi \in [Infos -> FileInfo]
      BY <1>1, <1>3, <2>2 DEF OftShape
    <3>2. new.vn = ofi[x].vn /\ new.o_flags = ofi[x].o_flags /\ new.f_offset = n
      BY <1>3 DEF FileInfo
    <3>. HIDE DEF new
    <3>3. \A y \in Infos : ofi'[y] = IF y = x THEN new ELSE ofi[y]
      BY <1>3, <3>1
    <3>. QED  BY <3>2, <3>3 DEF OneMoves, SeenOf
  <2>. QED  BY <1>5, <1>7, <1>8, <2>1, <2>2
<1>10. Manual!SeekTo(x, n) /\ Started' = Started /\ Described' = Described
  BY <1>1, <1>2, <1>3, <1>9, SeeksTo
<1>11. Seen[x].seek = arg[p].pos /\ Seen[x].file = ofi[x].vn /\ Seen[x].mode = ofi[x].o_flags
  BY <1>3, <1>4 DEF SeenOf
<1>12. Manual!Read(p, d, k)
  BY <1>1, <1>3, <1>4, <1>8, <1>10, <1>11 DEF Manual!Read
<1>. QED  BY <1>1, <1>3, <1>12 DEF Manual!ShNext

\* The bytes of a write, the code's and the manual's.
LEMMA OverwriteIsLay ==
  ASSUME NEW S, NEW s \in Seq(S), NEW n \in Nat, NEW w \in Seq(S)
  PROVE  Overwrite(s, n, w) = Manual!Lay(s, n, w)
<1>. DEFINE m == IF n + Len(w) > Len(s) THEN n + Len(w) ELSE Len(s)
<1>1. Max({Len(s), n + Len(w)}) = m
  BY MaxOfTwo
<1>2. \A i \in 1..m : /\ i - n \in 1..Len(w) <=> i > n /\ i <= n + Len(w)
                      /\ i \in 1..Len(s) <=> i <= Len(s)
  OBVIOUS
<1>. HIDE DEF m
<1>3. Overwrite(s, n, w) =
        [i \in 1..m |-> IF i - n \in 1..Len(w) THEN w[i - n] ELSE IF i \in 1..Len(s) THEN s[i] ELSE Zero]
  BY <1>1 DEF Overwrite
<1>4. Manual!Lay(s, n, w) =
        [i \in 1..m |-> IF i > n /\ i <= n + Len(w) THEN w[i - n] ELSE IF i <= Len(s) THEN s[i] ELSE Zero]
  BY DEF Manual!Lay, m
<1>. QED  BY <1>2, <1>3, <1>4

\* sys__write is the manual's, or its failed write when VOP_WRITE stops on the way.
LEMMA WriteSeen ==
  ASSUME NEW p, Procs = {p}, OftIInv, KeptCall(p), Write(p)
  PROVE  Manual!ShNext
<1>1. /\ oft_pc[p] = "write" /\ of_table' = of_table /\ fd_table' = fd_table
      /\ p \in Procs /\ OftShape /\ arg[p].call = "write" /\ arg[p].pos \in 0..MaxSize
  BY ArgParts DEF Write, OftIInv, InCall, Calls
<1>2. oft_pc[p] # "none" /\ oft_pc'[p] # "none"
  BY RunsOn
<1>3. PICK x \in Live, d \in Open(p) :
        /\ x = arg[p].file /\ x \in Infos /\ ofi[x].vn \in Files /\ ofi[x] \in FileInfo
        /\ d \in DOMAIN Described[p] /\ Described[p][d] = x /\ Seen[x] = SeenOf(x)
        /\ p \in Started
  BY <1>1, MovingOpen
<1>4. ofi[x].o_flags # "r" /\ arg[p].pos = ofi[x].f_offset /\ str_buf = [is |-> "write", of |-> p]
  BY <1>1, <1>3 DEF KeptCall
<1>. DEFINE w(k) == [i \in 1..k |-> p]
<1>5. PICK k \in Lengths \cup {0} :
        /\ arg[p].pos + k <= MaxSize
        /\ content' = [content EXCEPT ![ofi[x].vn] =
                         IF k = 0 THEN @ ELSE Overwrite(@, arg[p].pos, w(k))]
        /\ Unlock(p, arg[p].pos + k) \/ Unlock(p, ofi[x].f_offset)
  BY <1>3, <1>4 DEF Write
<1>6. k \in Nat /\ w(k) \in Seq(Procs \cup {Zero}) /\ Len(w(k)) = k /\ arg[p].pos \in Nat
  <2>1. k \in Nat
    BY OftAssumption DEF OftAssumption
  <2>. QED  BY <1>1, <2>1, OftAssumption DEF OftAssumption
<1>. HIDE DEF w
<1>7. Seen[x].seek = arg[p].pos /\ Seen[x].file = ofi[x].vn /\ Seen[x].mode = ofi[x].o_flags
  BY <1>3, <1>4 DEF SeenOf
<1>8. PICK n : (n = arg[p].pos + k \/ n = ofi[x].f_offset) /\ Unlock(p, n)
  BY <1>5
<1>9. Manual!SeekTo(x, n) /\ Started' = Started /\ Described' = Described
  BY <1>1, <1>2, <1>3, <1>8, UnlockMoves, SeeksTo
<1>10. n = arg[p].pos => Seen' = Seen
  <2>1. SUFFICES ASSUME n = arg[p].pos  PROVE Seen' = Seen
    OBVIOUS
  <2>2. Seen' = [Seen EXCEPT ![x].seek = Seen[x].seek]
    BY <1>7, <1>9, <2>1 DEF Manual!SeekTo
  <2>3. Seen = [y \in Live |-> SeenOf(y)]
    BY ShownIs
  <2>4. [SeenOf(x) EXCEPT !.seek = SeenOf(x).seek] = SeenOf(x)
    BY DEF SeenOf
  <2>. HIDE DEF SeenOf
  <2>5. Seen' = [Seen EXCEPT ![x] = [SeenOf(x) EXCEPT !.seek = SeenOf(x).seek]]
    BY <1>3, <2>2, <2>3
  <2>. QED  BY <1>3, <2>3, <2>4, <2>5
<1>11. CASE k = 0
  <2>1. content' = content
    BY <1>1, <1>5, <1>11 DEF OftShape
  <2>2. n = arg[p].pos
    BY <1>4, <1>6, <1>8, <1>11
  <2>3. Manual!Fails
    BY <1>9, <1>10, <2>1, <2>2 DEF Manual!Fails, Manual!shVars
  <2>. QED  BY <2>3 DEF Manual!ShNext
<1>12. CASE k # 0
  <2>1. content' = [content EXCEPT ![Seen[x].file] = Manual!Lay(content[Seen[x].file], Seen[x].seek, w(k))]
    <3>1. content[ofi[x].vn] \in Seq(Procs \cup {Zero})
      BY <1>1, <1>3, ContentParts
    <3>2. Overwrite(content[ofi[x].vn], arg[p].pos, w(k)) = Manual!Lay(content[ofi[x].vn], arg[p].pos, w(k))
      BY <1>6, <3>1, OverwriteIsLay
    <3>3. content' = [content EXCEPT ![ofi[x].vn] = Overwrite(content[ofi[x].vn], arg[p].pos, w(k))]
      BY <1>5, <1>12
    <3>. QED  BY <1>7, <3>2, <3>3
  <2>2. CASE n = arg[p].pos + k
    <3>1. Manual!Write(p, d, w(k))
      BY <1>3, <1>4, <1>6, <1>7, <1>9, <2>1, <2>2 DEF Manual!Write
    <3>. QED  BY <1>1, <1>3, <1>5, <1>12, <3>1 DEF Manual!ShNext, w
  <2>3. CASE n = ofi[x].f_offset
    <3>1. Manual!BadWrite(p, d, w(k))
      BY <1>3, <1>4, <1>7, <1>9, <1>10, <2>1, <2>3 DEF Manual!BadWrite
    <3>. QED  BY <1>1, <1>3, <1>5, <1>12, <3>1 DEF Manual!ShNext, w
  <2>. QED  BY <1>8, <2>2, <2>3
<1>. QED  BY <1>11, <1>12

\* When names only go away, what the manual says of the rest is what it said.
LEMMA Becomes ==
  ASSUME NEW p, Procs = {p}, Live' \subseteq Live, \A x \in Live' : SeenOf(x)' = SeenOf(x)
  PROVE  Seen' = Manual!Restrict(Seen, Manual!Named(Described'))
<1>1. Seen' = [x \in Live' |-> SeenOf(x)]
  BY ShownIs
<1>2. Seen' = [x \in Live' |-> Seen[x]]
  BY <1>1, ShownIs
<1>. QED  BY <1>2, LiveIs DEF Manual!Restrict

\* ker__close is the manual's close: the descriptor goes, and the open with its last one.
LEMMA CloseSeen ==
  ASSUME NEW p, Procs = {p}, OftIInv, OftIInv', Close(p)
  PROVE  Manual!ShNext
<1>1. p \in Procs /\ OftShape /\ content' = content /\ oft_pc[p] # "none" /\ oft_pc'[p] # "none"
  BY RunsOn DEF OftIInv, Close
<1>2. PICK f \in Open(p), x \in Infos :
        /\ f = arg[p].fd /\ f \in FDs /\ x = arg[p].file /\ x = At(p, f)
        /\ <<p, f>> \in Descriptors(x) /\ ofi[x] \in FileInfo /\ ofi[x].vn # NULL
        /\ Unnames(p, f)
        /\ ofi' = [ofi EXCEPT ![x] = IF ofi[x].ref_count = 1 THEN Freed
                                     ELSE [ofi[x] EXCEPT !.ref_count = ofi[x].ref_count - 1, !.f_lock = NULL]]
  BY CloseIs
<1>3. Open(p)' = Open(p) \ {f} /\ \A e \in Open(p) \ {f} : At(p, e)' = At(p, e)
  BY <1>1, <1>2, NamesOneLess
<1>4. Started' = Started /\ Described[p] = [e \in Open(p) |-> At(p, e)]
  BY <1>1, ShownIs
<1>5. Described' = [Described EXCEPT ![p] = Manual!Restrict(@, DOMAIN @ \ {f})]
  <2>1. Described' = [q \in {p} |-> [e \in Open(p) \ {f} |-> At(p, e)]]
    <3>1. \A e \in Open(p)' : Described'[p][e] = At(p, e)'
      BY RowsAre
    <3>2. \A e \in Open(p) \ {f} : Described'[p][e] = At(p, e)
      BY <1>3, <3>1
    <3>3. /\ Described' = [q \in {p} |-> Described'[p]]
          /\ Described'[p] = [e \in Open(p) \ {f} |-> Described'[p][e]]
      BY <1>3, RowsAre
    <3>. QED  BY <3>2, <3>3
  <2>2. DOMAIN Described[p] = Open(p) /\ \A e \in Open(p) : Described[p][e] = At(p, e)
    BY <1>4
  <2>3. Manual!Restrict(Described[p], DOMAIN Described[p] \ {f}) = [e \in Open(p) \ {f} |-> At(p, e)]
    BY <2>2 DEF Manual!Restrict
  <2>4. Described = [q \in {p} |-> Described[p]]
    BY <1>4, ShownIs
  <2>. QED  BY <2>1, <2>3, <2>4
<1>6. Live' \subseteq Live
  BY <1>3, LiveIs
<1>7. \A y \in Live' : SeenOf(y)' = SeenOf(y)
  <2>1. \A y \in Live' : y \in Infos /\ ofi'[y].vn # NULL
    BY DEF Live, OftIInv, CountsDescriptors
  <2>. DEFINE less == [ofi[x] EXCEPT !.ref_count = ofi[x].ref_count - 1, !.f_lock = NULL]
              new == IF ofi[x].ref_count = 1 THEN Freed ELSE less
  <2>2. ofi' = [ofi EXCEPT ![x] = new] /\ ofi \in [Infos -> FileInfo]
    BY <1>1, <1>2 DEF OftShape
  <2>3. new.vn = NULL \/ (/\ new.vn = ofi[x].vn /\ new.o_flags = ofi[x].o_flags
                          /\ new.f_offset = ofi[x].f_offset)
    <3>1. CASE ofi[x].ref_count = 1
      BY <3>1 DEF Freed
    <3>2. CASE ofi[x].ref_count # 1
      <4>1. less.vn = ofi[x].vn /\ less.o_flags = ofi[x].o_flags /\ less.f_offset = ofi[x].f_offset
        BY <1>2 DEF FileInfo
      <4>. QED  BY <3>2, <4>1
    <3>. QED  BY <3>1, <3>2
  <2>. HIDE DEF new
  <2>4. \A y \in Infos : ofi'[y] = IF y = x THEN new ELSE ofi[y]
    BY <2>2
  <2>. QED  BY <2>1, <2>3, <2>4 DEF SeenOf
<1>8. Manual!Close(p, f)
  BY <1>1, <1>4, <1>5, <1>6, <1>7, Becomes DEF Manual!Close, Manual!Become
<1>9. f \in DOMAIN Described[p]
  BY <1>4
<1>. QED  BY <1>1, <1>8, <1>9 DEF Manual!ShNext

\* Setting the descriptor is the manual's dup2 to a descriptor that is closed.
LEMMA Dup2PlaceSeen ==
  ASSUME NEW p, Procs = {p}, OftIInv, Dup2Place(p)
  PROVE  Manual!ShNext \/ UNCHANGED Manual!shVars
<1>1. /\ p \in Procs /\ OftShape /\ oft_pc[p] # "none" /\ oft_pc'[p] # "none"
      /\ content' = content /\ ofi' = ofi /\ of_table' = of_table
  BY RunsOn DEF OftIInv, Dup2Place
<1>2. CASE fd_table' = fd_table
  BY <1>1, <1>2, NothingSeen DEF SeenOf
<1>3. CASE fd_table' # fd_table
  <2>1. PICK s \in Slots, f \in FDs, old \in Open(p), x \in Infos :
          /\ f = arg[p].fd /\ f \notin Open(p) /\ x = of_table[s] /\ x = At(p, old)
          /\ NamesAlso(p, f, s)
          /\ Lock(p, "count", [arg[p] EXCEPT !.file = x])
    BY <1>3, Dup2PlaceIs
  <2>2. /\ Open(p)' = Open(p) \cup {f} /\ At(p, f)' = x
        /\ \A e \in Open(p) : At(p, e)' = At(p, e)
    <3>1. /\ Open(p)' = Open(p) \cup {f} /\ At(p, f)' = of_table[s]
          /\ \A e \in Open(p) : At(p, e)' = At(p, e)
      BY <1>1, <2>1, NamesOneMore
    <3>. QED  BY <2>1, <3>1
  <2>3. Started' = Started /\ DOMAIN Described[p] = Open(p)
        /\ \A e \in Open(p) : Described[p][e] = At(p, e)
    BY <1>1, ShownIs
  <2>4. Described' = [Described EXCEPT ![p] = [e \in DOMAIN @ \cup {f} |-> IF e = f THEN @[old] ELSE @[e]]]
    <3>1. /\ Described' = [q \in {p} |-> Described'[p]]
          /\ Described'[p] = [e \in Open(p) \cup {f} |-> Described'[p][e]]
      BY <2>2, RowsAre
    <3>2. \A e \in Open(p) \cup {f} : Described'[p][e] = IF e = f THEN Described[p][old] ELSE Described[p][e]
      <4>1. \A e \in Open(p)' : Described'[p][e] = At(p, e)'
        BY RowsAre
      <4>2. Described'[p][f] = x
        BY <2>2, <4>1
      <4>3. \A e \in Open(p) : Described'[p][e] = At(p, e)
        BY <2>2, <4>1
      <4>. QED  BY <2>1, <2>3, <4>2, <4>3
    <3>3. Described = [q \in {p} |-> Described[p]]
      BY RowsAre
    <3>. QED  BY <2>3, <3>1, <3>2, <3>3
  <2>5. Live' = Live
    BY <2>1, <2>2, LiveIs
  <2>6. \A y \in Live' : SeenOf(y)' = SeenOf(y)
    BY <1>1 DEF SeenOf
  <2>7. Manual!Dup2(p, old, f)
    BY <1>1, <2>3, <2>4, <2>5, <2>6, Becomes DEF Manual!Dup2, Manual!Become
  <2>. QED  BY <1>1, <2>1, <2>3, <2>7 DEF Manual!ShNext
<1>. QED  BY <1>2, <1>3

\* Naming what ker_open has made is the manual's open.
LEMMA PlaceSlotSeen ==
  ASSUME NEW p, Procs = {p}, OftIInv, PlaceSlot(p)
  PROVE  Manual!ShNext \/ UNCHANGED Manual!shVars
<1>1. /\ p \in Procs /\ OftShape /\ oft_pc[p] # "none" /\ oft_pc'[p] # "none" /\ oft_pc[p] = "place"
      /\ content' = content /\ ofi' = ofi /\ of_table' = of_table
      /\ arg[p].vn \in Files /\ arg[p].mode \in Modes /\ Made(p)
  BY RunsOn, ArgParts DEF OftIInv, InCall, Opening, PlaceSlot
<1>2. CASE FreeFDs(p) = {}
  BY <1>1, <1>2, NothingSeen DEF SeenOf, PlaceSlot
<1>3. CASE FreeFDs(p) # {}
  <2>1. PICK f \in FDs : /\ f \in FreeFDs(p) /\ \A e \in FreeFDs(p) : f <= e
                         /\ NamesAlso(p, f, arg[p].slot)
    BY <1>3, PlaceSlotIs
  <2>2. PICK x \in Infos : x = of_table[arg[p].slot] /\ Descriptors(x) = {}
    BY <1>1 DEF Made
  <2>3. /\ Open(p)' = Open(p) \cup {f} /\ At(p, f)' = x
        /\ \A e \in Open(p) : At(p, e)' = At(p, e)
    <3>1. PICK s : s = arg[p].slot
      OBVIOUS
    <3>2. /\ Open(p)' = Open(p) \cup {f} /\ At(p, f)' = of_table[s]
          /\ \A e \in Open(p) : At(p, e)' = At(p, e)
      BY <1>1, <2>1, <3>1, NamesOneMore
    <3>. QED  BY <2>2, <3>1, <3>2
  <2>4. SeenOf(x) = [file |-> arg[p].vn, mode |-> arg[p].mode, seek |-> 0]
    <3>1. ofi[x] = [Freed EXCEPT !.vn = arg[p].vn, !.o_flags = arg[p].mode, !.ref_count = 1]
      BY <1>1, <2>2 DEF Made
    <3>. QED  BY <3>1 DEF SeenOf, Freed
  <2>5. /\ Started' = Started /\ p \in Started /\ DOMAIN Described[p] = Open(p)
        /\ \A e \in Open(p) : Described[p][e] = At(p, e)
    <3>1. Started' = Started /\ p \in Started
      BY <1>1, ShownIs
    <3>. QED  BY <3>1, RowsAre
  <2>6. Described' = [Described EXCEPT ![p] = [e \in DOMAIN @ \cup {f} |-> IF e = f THEN x ELSE @[e]]]
    <3>1. /\ Described' = [q \in {p} |-> Described'[p]]
          /\ Described'[p] = [e \in Open(p) \cup {f} |-> Described'[p][e]]
      BY <2>3, RowsAre
    <3>2. \A e \in Open(p) \cup {f} : Described'[p][e] = IF e = f THEN x ELSE Described[p][e]
      <4>1. \A e \in Open(p)' : Described'[p][e] = At(p, e)'
        BY RowsAre
      <4>2. Described'[p][f] = x /\ f \notin Open(p)
        BY <2>1, <2>3, <4>1 DEF NamesAlso
      <4>3. \A e \in Open(p) : Described'[p][e] = At(p, e)
        BY <2>3, <4>1
      <4>. QED  BY <2>5, <4>2, <4>3
    <3>3. Described = [q \in {p} |-> Described[p]]
      BY RowsAre
    <3>. QED  BY <2>5, <3>1, <3>2, <3>3
  <2>7. Live' = Live \cup {x} /\ x \notin Manual!Named(Described)
    BY <2>2, <2>3, LiveIs DEF Live
  <2>8. Seen' = [y \in DOMAIN Seen \cup {x} |->
                   IF y = x THEN [file |-> arg[p].vn, mode |-> arg[p].mode, seek |-> 0] ELSE Seen[y]]
    <3>1. \A y : SeenOf(y)' = SeenOf(y)
      BY <1>1 DEF SeenOf
    <3>2. Seen' = [y \in Live \cup {x} |-> SeenOf(y)] /\ Seen = [y \in Live |-> SeenOf(y)]
      BY <2>7, <3>1, ShownIs
    <3>. HIDE DEF SeenOf
    <3>. QED  BY <2>4, <3>2
  <2>9. f \in FDs \ DOMAIN Described[p] /\ \A e \in FDs \ DOMAIN Described[p] : f <= e
    BY <2>1, <2>5 DEF FreeFDs, Open
  <2>10. Manual!Open(p, x, arg[p].vn, arg[p].mode)
    BY <1>1, <2>5, <2>6, <2>7, <2>8, <2>9 DEF Manual!Open
  <2>. QED  BY <1>1, <2>10 DEF Manual!ShNext, Modes
<1>. QED  BY <1>2, <1>3

\* Every step of a single process is one of the manual's calls, or shows nothing.
LEMMA ManualStep ==
  ASSUME Cardinality(Procs) = 1, OftRInv, OftRInv', OftNext
  PROVE  Manual!ShNext \/ UNCHANGED Manual!shVars
<1>1. PICK p : Procs = {p}
  BY OneProcess
<1>2. OftIInv /\ OftIInv' /\ KeptCall(p)
  BY <1>1 DEF OftRInv
<1>3. CASE \/ OpenCall(p) \/ FindSlot(p) \/ ReadCall(p) \/ WriteCall(p) \/ SeekCall(p) \/ CloseCall(p)
           \/ Dup2Call(p) \/ ReadFails(p)
  BY <1>1, <1>2, <1>3, TablesSeen
<1>4. CASE Acquire(p) \/ CopyOut(p) \/ Dup2Count(p)
  BY <1>1, <1>2, <1>4, LockSeen
<1>5. CASE Runprogram(p) \/ VfsOpen(p) \/ FillSlot(p) \/ PlaceSlot(p)
  BY <1>1, <1>2, <1>5, RunprogramSeen, VfsOpenSeen, FillSlotSeen, PlaceSlotSeen
<1>6. CASE Dup2Place(p) \/ Close(p) \/ Read(p) \/ Write(p) \/ Seek(p)
  BY <1>1, <1>2, <1>6, Dup2PlaceSeen, CloseSeen, ReadSeen, WriteSeen, SeekSeen
<1>. QED  BY <1>1, <1>3, <1>4, <1>5, <1>6 DEF OftNext

\* The calls of a single process are those the manual describes (SharedFiles.tla), each
\* in one step, for tables, files and requests of any size, as long as the kernel does
\* not panic.
THEOREM CallsOfTheManual == Cardinality(Procs) = 1 => (OftSpec => ManualCalls)
<1>. SUFFICES ASSUME Cardinality(Procs) = 1 PROVE OftSpec => ManualCalls
  OBVIOUS
<1>1. OftInit => Manual!ShInit
  <2>. SUFFICES ASSUME OftInit PROVE Manual!ShInit
    OBVIOUS
  <2>1. PICK p : Procs = {p}
    BY OneProcess
  <2>2. Open(p) = {} /\ oft_pc[p] = "none"
    BY <2>1 DEF OftInit, Open
  <2>3. Started = {} /\ Live = {}
    BY <2>1, <2>2, ShownIs, LiveIs
  <2>4. Described = [q \in Procs |-> Manual!NoNames] /\ Seen = Manual!NoNames
    <3>1. Described = [q \in {p} |-> Described[p]] /\ Described[p] = [e \in {} |-> Described[p][e]]
      BY <2>1, <2>2, RowsAre
    <3>2. Seen = [x \in {} |-> SeenOf(x)]
      BY <2>1, <2>3, ShownIs
    <3>. QED  BY <2>1, <3>1, <3>2 DEF Manual!NoNames
  <2>. QED  BY <2>3, <2>4 DEF OftInit, Manual!ShInit
<1>2. OftRInv /\ OftRInv' /\ [OftNext]_oftVars => [Manual!ShNext]_(Manual!shVars)
  <2>. SUFFICES ASSUME OftRInv, OftRInv', [OftNext]_oftVars
                PROVE  Manual!ShNext \/ UNCHANGED Manual!shVars
    OBVIOUS
  <2>1. CASE OftNext
    BY <2>1, ManualStep
  <2>2. CASE UNCHANGED oftVars
    BY <2>2 DEF oftVars, Manual!shVars, Started, Described, Seen, Live, Descriptors, Open, At
  <2>. QED  BY <2>1, <2>2
<1>. QED  BY <1>1, <1>2, OftRInvariant, PTL DEF OftSpec, ManualCalls, Manual!ShSpec
=============================================================================
