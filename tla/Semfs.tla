------------------------------- MODULE Semfs -------------------------------
(***************************************************************************)
(* Names, semaphores and vnodes of the semaphore file system,              *)
(* kern/fs/semfs/semfs_vnops.c, with the reference counts of               *)
(* kern/vfs/vnode.c.  A semaphore lives while it has a name or an open     *)
(* vnode.  Its last reference is not dropped but passed to VOP_RECLAIM,    *)
(* with the count unlocked, and a lookup may add one in between.           *)
(*                                                                         *)
(* Three locks: semfs_dirlock for the directory, semfs_tablelock for the   *)
(* tables of vnodes and semaphores, sems_lock for a semaphore.  Whether a  *)
(* semaphore has a vnode is written under the second, whether it has a     *)
(* name under the third, and each is read under the other.                 *)
(***************************************************************************)
EXTENDS Naturals, FiniteSets

CONSTANTS Threads, \* callers
          Names,   \* names in the one directory
          Sems,    \* slots of semfs_sems
          Vnodes,  \* vnode structures there is memory for
          None     \* NULL, and a lock nobody holds

ASSUME SemfsAssumption ==
  IsFiniteSet(Threads) /\ None \notin Threads \cup Names \cup Sems \cup Vnodes

VARIABLES semfs_dents,     \* semd_semnum of each name
          semfs_sems,      \* the slots in use
          semfs_vnodes,    \* the vnodes in the table
          semfs_dirlock,   \* holders of the locks
          semfs_tablelock,
          sems_lock,
          sems_hasvnode,   \* sem->sems_hasvnode
          sems_linked,     \* sem->sems_linked
          vn_refcount,     \* vn->vn_refcount, 0 for a structure that is free
          semv_semnum,     \* the semaphore of a vnode
          open,            \* the vnode a thread has open
          pc, name, semnum, \* where a thread is, and local variables
          panic            \* an assertion has failed

dir   == <<semfs_dents, semfs_dirlock>>
table == <<semfs_sems, semfs_vnodes, semfs_tablelock>>
sems  == <<sems_lock, sems_hasvnode, sems_linked>>
vns   == <<vn_refcount, semv_semnum>>
vars  == <<semfs_dents, semfs_sems, semfs_vnodes, semfs_dirlock, semfs_tablelock, sems_lock,
           sems_hasvnode, sems_linked, vn_refcount, semv_semnum, open, pc, name, semnum, panic>>

\* "insert" and "getvnode" are in semfs_creat or semfs_lookup, "link" and "undo" at
\* the end of semfs_creat; "unlink", "unlinked" and "clear" in semfs_remove; "last"
\* has found the last reference in vnode_decref, "unhook" and "destroy" are in
\* semfs_reclaim; "using" is in a call on the semaphore.
Places == {"idle", "using", "insert", "getvnode", "link", "undo", "unlink", "unlinked", "clear",
           "last", "unhook", "destroy"}

TypeOK ==
  /\ semfs_dents \in [Names -> Sems \cup {None}]
  /\ semfs_sems \subseteq Sems /\ semfs_vnodes \subseteq Vnodes
  /\ semfs_dirlock \in Threads \cup {None} /\ semfs_tablelock \in Threads \cup {None}
  /\ sems_lock \in [Sems -> Threads \cup {None}]
  /\ sems_hasvnode \in [Sems -> BOOLEAN] /\ sems_linked \in [Sems -> BOOLEAN]
  /\ vn_refcount \in [Vnodes -> Nat]
  /\ semv_semnum \in [Vnodes -> Sems \cup {None}]
  /\ open \in [Threads -> Vnodes \cup {None}]
  /\ pc \in [Threads -> Places]
  /\ name \in [Threads -> Names \cup {None}]
  /\ semnum \in [Threads -> Sems \cup {None}]
  /\ panic \in BOOLEAN

\* semfs_create: a file system without semaphores.
Init ==
  /\ semfs_dents = [n \in Names |-> None]
  /\ semfs_sems = {} /\ semfs_vnodes = {}
  /\ semfs_dirlock = None /\ semfs_tablelock = None
  /\ sems_lock = [s \in Sems |-> None]
  /\ sems_hasvnode = [s \in Sems |-> FALSE] /\ sems_linked = [s \in Sems |-> FALSE]
  /\ vn_refcount = [v \in Vnodes |-> 0]
  /\ semv_semnum = [v \in Vnodes |-> None]
  /\ open = [t \in Threads |-> None]
  /\ pc = [t \in Threads |-> "idle"]
  /\ name = [t \in Threads |-> None]
  /\ semnum = [t \in Threads |-> None]
  /\ panic = FALSE

Goto(t, place) == pc' = [pc EXCEPT ![t] = place]

\* A call returns: its local variables are gone.
Return(t) ==
  /\ Goto(t, "idle")
  /\ name' = [name EXCEPT ![t] = None]
  /\ semnum' = [semnum EXCEPT ![t] = None]

Panic ==
  /\ panic' = TRUE
  /\ UNCHANGED <<dir, table, sems, vns, open, pc, name, semnum>>

-----------------------------------------------------------------------------
(* semfs_lookup and semfs_creat *)

\* With semfs_dirlock, the name is there.
Find(t, n) ==
  /\ pc[t] = "idle" /\ open[t] = None /\ semfs_dirlock = None /\ semfs_dents[n] # None
  /\ semfs_dirlock' = t
  /\ semnum' = [semnum EXCEPT ![t] = semfs_dents[n]]
  /\ Goto(t, "getvnode")
  /\ UNCHANGED <<semfs_dents, table, sems, vns, open, name, panic>>

\* It is not, and semfs_creat goes on.
Create(t, n) ==
  /\ pc[t] = "idle" /\ open[t] = None /\ semfs_dirlock = None /\ semfs_dents[n] = None
  /\ semfs_dirlock' = t
  /\ name' = [name EXCEPT ![t] = n]
  /\ Goto(t, "insert")
  /\ UNCHANGED <<semfs_dents, table, sems, vns, open, semnum, panic>>

\* semfs_sem_create; semfs_sem_insert finds a slot, and the directory gets its
\* entry ...
Insert(t, s) ==
  /\ pc[t] = "insert" /\ semfs_tablelock = None /\ s \notin semfs_sems
  /\ semfs_sems' = semfs_sems \cup {s}
  /\ semfs_dents' = [semfs_dents EXCEPT ![name[t]] = s]
  /\ sems_hasvnode' = [sems_hasvnode EXCEPT ![s] = FALSE]
  /\ sems_linked' = [sems_linked EXCEPT ![s] = FALSE]
  /\ semnum' = [semnum EXCEPT ![t] = s]
  /\ Goto(t, "getvnode")
  /\ UNCHANGED <<semfs_vnodes, semfs_tablelock, semfs_dirlock, sems_lock, vns, open, name, panic>>

\* ... or there is no memory for one.
InsertFails(t) ==
  /\ pc[t] = "insert" /\ semfs_tablelock = None /\ semfs_sems = Sems
  /\ semfs_dirlock' = None
  /\ Return(t)
  /\ UNCHANGED <<semfs_dents, table, sems, vns, open, panic>>

\* What follows semfs_getvnode: semfs_creat has to link what it made, the others
\* let go of the directory.
Got(t, v) ==
  /\ open' = [open EXCEPT ![t] = v]
  /\ IF name[t] # None
     THEN Goto(t, "link") /\ UNCHANGED <<semfs_dirlock, name, semnum>>
     ELSE Return(t) /\ semfs_dirlock' = None

\* semfs_getvnode finds the vnode in the table.
GetVnode(t, v) ==
  /\ pc[t] = "getvnode" /\ semfs_tablelock = None
  /\ v \in semfs_vnodes /\ semv_semnum[v] = semnum[t]
  /\ vn_refcount' = [vn_refcount EXCEPT ![v] = @ + 1]
  /\ Got(t, v)
  /\ UNCHANGED <<semfs_dents, table, sems, semv_semnum, panic>>

NotLoaded(s) == \A v \in semfs_vnodes : semv_semnum[v] # s

\* semfs_getvnode makes it.
MakeVnode(t, v) ==
  /\ pc[t] = "getvnode" /\ semfs_tablelock = None /\ NotLoaded(semnum[t]) /\ vn_refcount[v] = 0
  /\ IF semnum[t] \notin semfs_sems \/ sems_hasvnode[semnum[t]] THEN Panic
     ELSE /\ vn_refcount' = [vn_refcount EXCEPT ![v] = 1]
          /\ semv_semnum' = [semv_semnum EXCEPT ![v] = semnum[t]]
          /\ semfs_vnodes' = semfs_vnodes \cup {v}
          /\ sems_hasvnode' = [sems_hasvnode EXCEPT ![semnum[t]] = TRUE]
          /\ Got(t, v)
          /\ UNCHANGED <<semfs_dents, semfs_sems, semfs_tablelock, sems_lock, sems_linked, panic>>

\* There is no memory for it: semfs_creat takes the entry and the slot back.
MakeVnodeFails(t) ==
  /\ pc[t] = "getvnode" /\ semfs_tablelock = None /\ NotLoaded(semnum[t])
  /\ IF name[t] # None
     THEN /\ semfs_dents' = [semfs_dents EXCEPT ![name[t]] = None]
          /\ Goto(t, "undo")
          /\ UNCHANGED <<semfs_dirlock, name, semnum>>
     ELSE /\ semfs_dirlock' = None
          /\ Return(t)
          /\ UNCHANGED semfs_dents
  /\ UNCHANGED <<table, sems, vns, open, panic>>

\* semfs_creat, fail_uninsert.
Undo(t) ==
  /\ pc[t] = "undo" /\ semfs_tablelock = None
  /\ semfs_sems' = semfs_sems \ {semnum[t]}
  /\ semfs_dirlock' = None
  /\ Return(t)
  /\ UNCHANGED <<semfs_dents, semfs_vnodes, semfs_tablelock, sems, vns, open, panic>>

\* The end of semfs_creat, with no lock but semfs_dirlock.
Link(t) ==
  /\ pc[t] = "link"
  /\ sems_linked' = [sems_linked EXCEPT ![semnum[t]] = TRUE]
  /\ semfs_dirlock' = None
  /\ Return(t)
  /\ UNCHANGED <<semfs_dents, table, sems_lock, sems_hasvnode, vns, open, panic>>

-----------------------------------------------------------------------------
(* semfs_remove *)

\* With semfs_dirlock, the name and its semaphore are found.
Remove(t, n) ==
  /\ pc[t] = "idle" /\ semfs_dirlock = None /\ semfs_tablelock = None /\ semfs_dents[n] # None
  /\ semfs_dirlock' = t
  /\ name' = [name EXCEPT ![t] = n]
  /\ semnum' = [semnum EXCEPT ![t] = semfs_dents[n]]
  /\ Goto(t, "unlink")
  /\ UNCHANGED <<semfs_dents, table, sems, vns, open, panic>>

\* With sems_lock, the semaphore loses its name.
Unlink(t) ==
  /\ pc[t] = "unlink" /\ sems_lock[semnum[t]] = None
  /\ IF ~sems_linked[semnum[t]] THEN Panic
     ELSE /\ sems_lock' = [sems_lock EXCEPT ![semnum[t]] = t]
          /\ sems_linked' = [sems_linked EXCEPT ![semnum[t]] = FALSE]
          /\ Goto(t, "unlinked")
          /\ UNCHANGED <<dir, table, sems_hasvnode, vns, open, name, semnum, panic>>

\* The directory loses the entry; the call returns.
Forget(t) ==
  /\ semfs_dents' = [semfs_dents EXCEPT ![name[t]] = None]
  /\ semfs_dirlock' = None
  /\ sems_lock' = [sems_lock EXCEPT ![semnum[t]] = None]
  /\ Return(t)

\* Mutation: the semaphore goes although it is open.
UnlinkedAlways(t) ==
  /\ pc[t] = "unlinked"
  /\ Goto(t, "clear")
  /\ UNCHANGED <<dir, table, sems, vns, open, name, semnum, panic>>

\* sems_hasvnode is read without the lock it is written under.  The semaphore
\* stays if it is open ...
Unlinked(t) ==
  /\ pc[t] = "unlinked"
  /\ IF sems_hasvnode[semnum[t]]
     THEN Forget(t) /\ UNCHANGED <<sems_hasvnode, sems_linked>>
     ELSE Goto(t, "clear") /\ UNCHANGED <<dir, sems, name, semnum>>
  /\ UNCHANGED <<table, vns, open, panic>>

\* ... and is destroyed if not, once it is out of the table.
Clear(t) ==
  /\ pc[t] = "clear" /\ semfs_tablelock = None
  /\ semfs_sems' = semfs_sems \ {semnum[t]}
  /\ Forget(t)
  /\ UNCHANGED <<semfs_vnodes, semfs_tablelock, sems_hasvnode, sems_linked, vns, open, panic>>

-----------------------------------------------------------------------------
(* Open semaphores *)

\* semfs_semstat and the other calls on an open semaphore: they find it by its
\* number and take its lock.
Use(t) ==
  /\ pc[t] = "idle" /\ open[t] # None /\ semfs_tablelock = None
  /\ LET s == semv_semnum[open[t]]
     IN /\ sems_lock[s] = None
        /\ IF s \notin semfs_sems THEN Panic
           ELSE /\ sems_lock' = [sems_lock EXCEPT ![s] = t]
                /\ Goto(t, "using")
                /\ UNCHANGED <<dir, table, sems_hasvnode, sems_linked, vns, open, name, semnum, panic>>

EndUse(t) ==
  /\ pc[t] = "using"
  /\ sems_lock' = [sems_lock EXCEPT ![semv_semnum[open[t]]] = None]
  /\ Goto(t, "idle")
  /\ UNCHANGED <<dir, table, sems_hasvnode, sems_linked, vns, open, name, semnum, panic>>

\* vnode_decref, when there are more references.
Decref(t) ==
  /\ pc[t] = "idle" /\ open[t] # None /\ vn_refcount[open[t]] > 1
  /\ vn_refcount' = [vn_refcount EXCEPT ![open[t]] = @ - 1]
  /\ open' = [open EXCEPT ![t] = None]
  /\ UNCHANGED <<dir, table, sems, semv_semnum, pc, name, semnum, panic>>

\* vnode_decref, when there are none: the reference is passed to VOP_RECLAIM.
DecrefLast(t) ==
  /\ pc[t] = "idle" /\ open[t] # None /\ vn_refcount[open[t]] = 1
  /\ Goto(t, "last")
  /\ UNCHANGED <<dir, table, sems, vns, open, name, semnum, panic>>

\* Mutation: the reference stays counted.
ReclaimBusyKeeps(t) ==
  /\ pc[t] = "last" /\ semfs_tablelock = None /\ vn_refcount[open[t]] > 1
  /\ open' = [open EXCEPT ![t] = None]
  /\ Goto(t, "idle")
  /\ UNCHANGED <<dir, table, sems, vns, name, semnum, panic>>

\* Mutation: semfs_reclaim waits until the other reference has gone.
ReclaimBusyWaits(t) ==
  /\ pc[t] = "last" /\ semfs_tablelock = None /\ vn_refcount[open[t]] > 1
  /\ UNCHANGED vars

\* semfs_reclaim: there is a new reference, EBUSY.
ReclaimBusy(t) ==
  /\ pc[t] = "last" /\ semfs_tablelock = None /\ vn_refcount[open[t]] > 1
  /\ vn_refcount' = [vn_refcount EXCEPT ![open[t]] = @ - 1]
  /\ open' = [open EXCEPT ![t] = None]
  /\ Goto(t, "idle")
  /\ UNCHANGED <<dir, table, sems, semv_semnum, name, semnum, panic>>

\* Mutation: semfs_reclaim trusts vnode_decref.
ReclaimBlind(t) ==
  /\ pc[t] = "last" /\ semfs_tablelock = None
  /\ semfs_tablelock' = t
  /\ semfs_vnodes' = semfs_vnodes \ {open[t]}
  /\ sems_hasvnode' = [sems_hasvnode EXCEPT ![semv_semnum[open[t]]] = FALSE]
  /\ Goto(t, "unhook")
  /\ UNCHANGED <<dir, semfs_sems, sems_lock, sems_linked, vns, open, name, semnum, panic>>

\* semfs_reclaim with semfs_tablelock: the vnode leaves the table and its
\* semaphore, which it asserts it had.
Reclaim(t) ==
  /\ pc[t] = "last" /\ semfs_tablelock = None /\ vn_refcount[open[t]] = 1
  /\ IF ~sems_hasvnode[semv_semnum[open[t]]] THEN Panic
     ELSE /\ semfs_tablelock' = t
          /\ semfs_vnodes' = semfs_vnodes \ {open[t]}
          /\ sems_hasvnode' = [sems_hasvnode EXCEPT ![semv_semnum[open[t]]] = FALSE]
          /\ Goto(t, "unhook")
          /\ UNCHANGED <<dir, semfs_sems, sems_lock, sems_linked, vns, open, name, semnum, panic>>

\* sems_linked is read without the lock it is written under.  A semaphore without
\* a name is destroyed, and lock_destroy asserts that nobody holds its lock.
Unhook(t) ==
  LET s == semv_semnum[open[t]]
  IN /\ pc[t] = "unhook"
     /\ IF ~sems_linked[s] /\ sems_lock[s] # None THEN Panic
        ELSE /\ semfs_sems' = IF sems_linked[s] THEN semfs_sems ELSE semfs_sems \ {s}
             /\ semfs_tablelock' = None
             /\ Goto(t, "destroy")
             /\ UNCHANGED <<dir, semfs_vnodes, sems, vns, open, name, semnum, panic>>

\* semfs_vnode_destroy and vnode_cleanup, which asserts the reference it was passed.
Destroy(t) ==
  /\ pc[t] = "destroy"
  /\ IF vn_refcount[open[t]] # 1 THEN Panic
     ELSE /\ vn_refcount' = [vn_refcount EXCEPT ![open[t]] = 0]
          /\ semv_semnum' = [semv_semnum EXCEPT ![open[t]] = None]
          /\ open' = [open EXCEPT ![t] = None]
          /\ Goto(t, "idle")
          /\ UNCHANGED <<dir, table, sems, name, semnum, panic>>

-----------------------------------------------------------------------------

\* What a call does once it has begun.
Finish(t) ==
  \/ InsertFails(t) \/ \E s \in Sems : Insert(t, s)
  \/ \E v \in Vnodes : GetVnode(t, v) \/ MakeVnode(t, v)
  \/ MakeVnodeFails(t) \/ Undo(t) \/ Link(t)
  \/ Unlink(t) \/ Unlinked(t) \/ Clear(t)
  \/ EndUse(t) \/ ReclaimBusy(t) \/ Reclaim(t) \/ Unhook(t) \/ Destroy(t)

Begin(t) ==
  \/ \E n \in Names : Find(t, n) \/ Create(t, n) \/ Remove(t, n)
  \/ Use(t) \/ Decref(t) \/ DecrefLast(t)

Halted == panic /\ UNCHANGED vars

Next == Halted \/ (~panic /\ \E t \in Threads : Begin(t) \/ Finish(t))

\* A call goes on, and gets a lock that is free again and again: lock_release
\* wakes who waits for it.
Fairness == \A t \in Threads : SF_vars(~panic /\ Finish(t))

Spec == Init /\ [][Next]_vars /\ Fairness

-----------------------------------------------------------------------------
(* Properties *)

\* vn_refcount counts exactly the threads that have the vnode open, the one whose
\* last reference is on its way through vnode_decref and semfs_reclaim included.
Holders(v) == {t \in Threads : open[t] = v}

RefcountExact == \A v \in Vnodes : vn_refcount[v] = Cardinality(Holders(v))

\* A vnode that somebody has open is neither out of the table nor freed, and the
\* only one of its semaphore: who opens a semaphore twice gets the same vnode
\* (semfs_getvnode against semfs_reclaim).
Reclaimed(t) == pc[t] \in {"unhook", "destroy"}

OpenIsShared ==
  \A t, u \in Threads :
    /\ open[t] # None /\ ~Reclaimed(t) => open[t] \in semfs_vnodes
    /\ open[t] = open[u] /\ open[t] # None /\ t # u => ~Reclaimed(t)
    /\ open[t] # None /\ open[u] # None /\ ~Reclaimed(t) /\ ~Reclaimed(u)
       /\ semv_semnum[open[t]] = semv_semnum[open[u]] => open[t] = open[u]

\* A semaphore is there as long as it has a name or an open vnode, and is gone
\* when it has neither and nobody is at work on it: "it may not actually go away
\* if it's currently open" (semfs_remove), and it does go away then.
Named(s) == \E n \in Names : semfs_dents[n] = s

InUse(s) == \E v \in semfs_vnodes : semv_semnum[v] = s

AtWork(s) == \E t \in Threads : semnum[t] = s \/ (Reclaimed(t) /\ semv_semnum[open[t]] = s)

KeptWhileUsed ==
  \A s \in Sems : /\ Named(s) \/ InUse(s) => s \in semfs_sems
                  /\ s \in semfs_sems => Named(s) \/ InUse(s) \/ AtWork(s)

\* Every call comes to its end, or to an assertion that fails: no two of the
\* locks are waited for in a loop.
CallsEnd == \A t \in Threads : pc[t] # "idle" ~> (pc[t] = "idle" \/ panic)

\* No assertion of semfs or of what it calls fails; lock_destroy's is
\* "KASSERT(lock->lk_holder == NULL)".
NoPanic == ~panic
=============================================================================
