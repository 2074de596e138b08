----------------------------- MODULE OpenFiles -----------------------------
(***************************************************************************)
(* File tables and open files of asst3: kern/syscall/filetable.c,          *)
(* openfile.c and file_syscalls.c, with what fork, runprogram and exit do  *)
(* with them.  Processes have one thread each; they meet in the open files *)
(* that fork shares, and in the files themselves.                          *)
(*                                                                         *)
(* A reference count changes in one step (of_reflock), and so does a file  *)
(* (sfs_read and sfs_write run under the vfs big lock).  Paths, buffers    *)
(* and vnode reference counts are left out, and so are O_CREAT and the     *)
(* console, which has no position and takes no lock.                       *)
(***************************************************************************)
EXTENDS Integers, Sequences, FiniteSets, FiniteSetsExt

CONSTANTS Procs,    \* processes, existing and possible
          Opens,    \* the struct openfiles kmalloc can provide
          Files,    \* files of a file system
          OPEN_MAX, \* size of a file table
          Lengths,  \* sizes of a read or write
          MaxSize,  \* bound: no file is longer, no seek goes further
          NULL,     \* a null pointer
          Zero      \* a byte nobody wrote

FDs   == 0..OPEN_MAX-1
Modes == {"r", "w", "rw"}

ASSUME OpenFilesAssumption ==
  /\ NULL \notin Opens \cup Procs /\ Zero \notin Procs
  /\ IsFiniteSet(Procs)
  /\ OPEN_MAX \in Nat \ {0} /\ Lengths \subseteq Nat /\ MaxSize \in Nat

VARIABLES
  ft_openfiles, \* of each process, from descriptors to open files
  of,           \* the open files; a reference count of 0 is freed memory
  content,      \* the bytes of each file, each the process that wrote it
  pc, arg       \* of each process: its next step, the variables of its system call

vars == <<ft_openfiles, of, content, pc, arg>>

Freed == [vnode |-> NULL, accmode |-> "r", offset |-> 0, refcount |-> 0, offsetlock |-> NULL]

\* file: the open file at hand, fd: its descriptor or the next one of a loop, rw:
\* which call of sys_readwrite, or "seek", pos: uio_offset, other: the child of
\* a fork, or whose table is destroyed.
NoArg == [file |-> NULL, fd |-> 0, rw |-> "r", pos |-> 0, other |-> NULL]

TypeOK ==
  /\ ft_openfiles \in [Procs -> [FDs -> Opens \cup {NULL}]]
  /\ of \in [Opens -> [vnode : Files \cup {NULL}, accmode : Modes, offset : 0..MaxSize,
                       refcount : Nat, offsetlock : Procs \cup {NULL}]]
  /\ \A v \in Files : content[v] \in Seq(Procs \cup {Zero}) /\ Len(content[v]) <= MaxSize
  /\ pc \in [Procs -> {"none", "born", "run", "place", "dup", "decref", "destroy", "copy",
                       "clean", "lock", "io", "unlock", "seek"}]
  /\ arg \in [Procs -> [file : Opens \cup {NULL}, fd : 0..OPEN_MAX, rw : {"r", "w", "seek"},
                        pos : 0..MaxSize, other : Procs \cup {NULL}]]

Empty == [fd \in FDs |-> NULL]

Init ==
  /\ ft_openfiles = [p \in Procs |-> Empty]
  /\ of = [o \in Opens |-> Freed]
  /\ content = [v \in Files |-> <<>>]
  /\ pc = [p \in Procs |-> "none"]
  /\ arg = [p \in Procs |-> NoArg]

Step(p, place, a) == pc' = [pc EXCEPT ![p] = place] /\ arg' = [arg EXCEPT ![p] = a]
Return(p) == Step(p, "run", NoArg)

-----------------------------------------------------------------------------
(* Processes *)

\* runprogram: a program that has closed the console's descriptors.
Runprogram(p) ==
  /\ pc[p] = "none"
  /\ Return(p)
  /\ UNCHANGED <<ft_openfiles, of, content>>

\* proc_fork up to filetable_copy
Fork(p) ==
  /\ pc[p] = "run"
  /\ \E q \in Procs :
       /\ pc[q] = "none"
       /\ pc' = [pc EXCEPT ![p] = "copy", ![q] = "born"]
       /\ arg' = [arg EXCEPT ![p] = [NoArg EXCEPT !.other = q]]
  /\ UNCHANGED <<ft_openfiles, of, content>>

incref(o) == of' = [of EXCEPT ![o].refcount = @ + 1]

\* filetable_copy, one turn of the loop
CopyTurn(p) ==
  LET fd   == arg[p].fd
      file == ft_openfiles[p][fd]
  IN /\ pc[p] = "copy" /\ fd < OPEN_MAX
     /\ IF file = NULL THEN UNCHANGED of ELSE incref(file)
     /\ ft_openfiles' = [ft_openfiles EXCEPT ![arg[p].other][fd] = file]
     /\ arg' = [arg EXCEPT ![p].fd = fd + 1]
     /\ UNCHANGED <<content, pc>>

\* thread_fork starts the child ...
Forked(p) ==
  /\ pc[p] = "copy" /\ arg[p].fd = OPEN_MAX
  /\ pc' = [pc EXCEPT ![p] = "run", ![arg[p].other] = "run"]
  /\ arg' = [arg EXCEPT ![p] = NoArg]
  /\ UNCHANGED <<ft_openfiles, of, content>>

\* ... or fails, and proc_unfork destroys the child's table.
ForkFails(p) ==
  /\ pc[p] = "copy" /\ arg[p].fd = OPEN_MAX
  /\ Step(p, "clean", [arg[p] EXCEPT !.fd = 0])
  /\ UNCHANGED <<ft_openfiles, of, content>>

\* proc_exit: proc_destroy destroys the process's own table.
Exit(p) ==
  /\ pc[p] = "run"
  /\ Step(p, "clean", [NoArg EXCEPT !.other = p])
  /\ UNCHANGED <<ft_openfiles, of, content>>

\* filetable_destroy, one turn of the loop up to the call of openfile_decref
CleanTurn(p) ==
  LET fd   == arg[p].fd
      file == ft_openfiles[arg[p].other][fd]
  IN /\ pc[p] = "clean" /\ fd < OPEN_MAX
     /\ IF file = NULL THEN Step(p, "clean", [arg[p] EXCEPT !.fd = fd + 1])
        ELSE Step(p, "decref", [arg[p] EXCEPT !.file = file])
     /\ UNCHANGED <<ft_openfiles, of, content>>

\* The loop ends: an exited process is gone, a fork that failed returns.
Cleaned(p) ==
  /\ pc[p] = "clean" /\ arg[p].fd = OPEN_MAX
  /\ pc' = [q \in Procs |-> IF q = arg[p].other THEN "none" ELSE IF q = p THEN "run" ELSE pc[q]]
  /\ arg' = [arg EXCEPT ![p] = NoArg]
  /\ UNCHANGED <<ft_openfiles, of, content>>

-----------------------------------------------------------------------------
(* openfile_decref, called by close, dup2, a failed open and the loop above *)

\* What follows it: filetable_destroy's loop, or the return.
AfterDecref(p) ==
  IF arg[p].other = NULL THEN Return(p) /\ UNCHANGED ft_openfiles
  ELSE /\ ft_openfiles' = [ft_openfiles EXCEPT ![arg[p].other][arg[p].fd] = NULL]
       /\ Step(p, "clean", [arg[p] EXCEPT !.fd = @ + 1, !.file = NULL])

\* Mutant: destroys the open file whoever else refers to it.
DecrefAny(p) ==
  /\ pc[p] = "decref"
  /\ Step(p, "destroy", arg[p])
  /\ UNCHANGED <<ft_openfiles, of, content>>

Decref(p) ==
  LET o == arg[p].file
  IN /\ pc[p] = "decref"
     /\ IF of[o].refcount = 1
        THEN Step(p, "destroy", arg[p]) /\ UNCHANGED <<ft_openfiles, of>>
        ELSE of' = [of EXCEPT ![o].refcount = @ - 1] /\ AfterDecref(p)
     /\ UNCHANGED content

\* openfile_destroy, with of_reflock released
Destroy(p) ==
  /\ pc[p] = "destroy"
  /\ of' = [of EXCEPT ![arg[p].file] = Freed]
  /\ AfterDecref(p)
  /\ UNCHANGED content

-----------------------------------------------------------------------------
(* open, close, dup2 *)

\* openfile_open; opening for nothing but reading does not truncate.
OpenFile(p) ==
  /\ pc[p] = "run"
  /\ \E o \in Opens, v \in Files, m \in Modes, trunc \in BOOLEAN :
       /\ of[o].refcount = 0
       /\ trunc => m # "r"
       /\ of' = [of EXCEPT ![o] = [Freed EXCEPT !.vnode = v, !.accmode = m, !.refcount = 1]]
       /\ content' = IF trunc THEN [content EXCEPT ![v] = <<>>] ELSE content
       /\ Step(p, "place", [NoArg EXCEPT !.file = o])
  /\ UNCHANGED ft_openfiles

\* openfile_create finds no memory when vfs_open has truncated the file already.
OpenFails(p) ==
  /\ pc[p] = "run"
  /\ \E v \in Files : content' = [content EXCEPT ![v] = <<>>]
  /\ UNCHANGED <<ft_openfiles, of, pc, arg>>

FreeFDs(p) == {fd \in FDs : ft_openfiles[p][fd] = NULL}

\* Mutant: EMFILE does not drop the open file.
PlaceLeaks(p) ==
  /\ pc[p] = "place"
  /\ IF FreeFDs(p) = {} THEN UNCHANGED ft_openfiles
     ELSE ft_openfiles' = [ft_openfiles EXCEPT ![p][Min(FreeFDs(p))] = arg[p].file]
  /\ Return(p)
  /\ UNCHANGED <<of, content>>

\* filetable_place, or EMFILE
Place(p) ==
  /\ pc[p] = "place"
  /\ IF FreeFDs(p) = {}
     THEN Step(p, "decref", arg[p]) /\ UNCHANGED ft_openfiles
     ELSE /\ ft_openfiles' = [ft_openfiles EXCEPT ![p][Min(FreeFDs(p))] = arg[p].file]
          /\ Return(p)
  /\ UNCHANGED <<of, content>>

\* filetable_placeat: the reference that was there goes to openfile_decref.
PlaceAt(p, new, fd) ==
  /\ ft_openfiles' = [ft_openfiles EXCEPT ![p][fd] = new]
  /\ IF ft_openfiles[p][fd] = NULL THEN Return(p)
     ELSE Step(p, "decref", [NoArg EXCEPT !.file = ft_openfiles[p][fd]])
  /\ UNCHANGED <<of, content>>

Close(p) == pc[p] = "run" /\ \E fd \in FDs : PlaceAt(p, NULL, fd)

\* dup2 of two descriptors (of one to itself it does nothing); the new reference
\* is counted first.
Dup2(p) ==
  /\ pc[p] = "run"
  /\ \E old, new \in FDs :
       /\ old # new /\ ft_openfiles[p][old] # NULL
       /\ incref(ft_openfiles[p][old])
       /\ Step(p, "dup", [NoArg EXCEPT !.file = ft_openfiles[p][old], !.fd = new])
  /\ UNCHANGED <<ft_openfiles, content>>

Dup2Place(p) == pc[p] = "dup" /\ PlaceAt(p, arg[p].file, arg[p].fd)

-----------------------------------------------------------------------------
(* read, write, lseek *)

\* sys_readwrite and sys_lseek: get the open file.
Transfer(p) ==
  /\ pc[p] = "run"
  /\ \E fd \in FDs, rw \in {"r", "w", "seek"} :
       LET o == ft_openfiles[p][fd]
       IN /\ o # NULL
          /\ Step(p, "lock", [NoArg EXCEPT !.file = o, !.fd = fd, !.rw = rw])
  /\ UNCHANGED <<ft_openfiles, of, content>>

\* Mutant: does not wait for the lock.
LockOffsetNot(p) ==
  LET o == arg[p].file
  IN /\ pc[p] = "lock"
     /\ of' = [of EXCEPT ![o].offsetlock = p]
     /\ Step(p, IF arg[p].rw = "seek" THEN "seek" ELSE "io", [arg[p] EXCEPT !.pos = of[o].offset])
     /\ UNCHANGED <<ft_openfiles, content>>

\* lock_acquire(of_offsetlock); only then is of_offset read.
LockOffset(p) ==
  LET o == arg[p].file
  IN /\ pc[p] = "lock" /\ of[o].offsetlock = NULL
     /\ of' = [of EXCEPT ![o].offsetlock = p]
     /\ Step(p, IF arg[p].rw = "seek" THEN "seek" ELSE "io", [arg[p] EXCEPT !.pos = of[o].offset])
     /\ UNCHANGED <<ft_openfiles, content>>

\* lock_release, with the new offset; and filetable_put
Unlock(p, offset) ==
  /\ of' = [of EXCEPT ![arg[p].file].offset = offset, ![arg[p].file].offsetlock = NULL]
  /\ Return(p)

\* Mutant: the failing call returns with the lock.
IOFailsLocked(p) ==
  /\ pc[p] = "io"
  /\ Return(p)
  /\ UNCHANGED <<ft_openfiles, of, content>>

\* The call fails: opened in another mode, or an I/O error.
IOFails(p) ==
  /\ pc[p] = "io"
  /\ Unlock(p, of[arg[p].file].offset)
  /\ UNCHANGED <<ft_openfiles, content>>

\* VOP_READ: what there is of n bytes; uio_offset moves by as much.
ReadBytes(p) ==
  LET o    == arg[p].file
      left == Len(content[of[o].vnode]) - arg[p].pos
  IN /\ pc[p] = "io" /\ arg[p].rw = "r" /\ of[o].accmode # "w"
     /\ \E n \in Lengths :
          Step(p, "unlock", [arg[p] EXCEPT !.pos = @ + Min({n, Max({left, 0})})])
     /\ UNCHANGED <<ft_openfiles, of, content>>

\* s from position n on overwritten by w; what was never written reads as zero.
Overwrite(s, n, w) ==
  [i \in 1..Max({Len(s), n + Len(w)}) |->
     IF i - n \in 1..Len(w) THEN w[i - n] ELSE IF i \in 1..Len(s) THEN s[i] ELSE Zero]

\* VOP_WRITE, all of it, or the beginning of it and an error.
WriteBytes(p) ==
  LET o == arg[p].file
  IN /\ pc[p] = "io" /\ arg[p].rw = "w" /\ of[o].accmode # "r"
     /\ \E n \in Lengths :
          /\ arg[p].pos + n <= MaxSize
          /\ content' = [content EXCEPT ![of[o].vnode] =
                           Overwrite(@, arg[p].pos, [i \in 1..n |-> p])]
          /\ \/ Step(p, "unlock", [arg[p] EXCEPT !.pos = @ + n]) /\ UNCHANGED of
             \/ Unlock(p, of[o].offset)
     /\ UNCHANGED ft_openfiles

\* of_offset = uio_offset
SetOffset(p) ==
  /\ pc[p] = "unlock"
  /\ Unlock(p, arg[p].pos)
  /\ UNCHANGED <<ft_openfiles, content>>

\* lseek by some bytes from the start, the position or the end; a position below
\* zero is an error and changes nothing.
Seek(p) ==
  LET o == arg[p].file
  IN /\ pc[p] = "seek"
     /\ \E base \in {0, of[o].offset, Len(content[of[o].vnode])}, offset \in {-1, 0, 1} :
          /\ base + offset <= MaxSize
          /\ Unlock(p, IF base + offset < 0 THEN of[o].offset ELSE base + offset)
     /\ UNCHANGED <<ft_openfiles, content>>

-----------------------------------------------------------------------------
(* The system *)

\* Inside the kernel; what a program calls next is its own business.
Kernel(p) ==
  \/ CopyTurn(p) \/ Forked(p) \/ ForkFails(p) \/ CleanTurn(p) \/ Cleaned(p)
  \/ Decref(p) \/ Destroy(p) \/ Place(p) \/ Dup2Place(p)
  \/ LockOffset(p) \/ IOFails(p) \/ ReadBytes(p) \/ WriteBytes(p) \/ SetOffset(p) \/ Seek(p)

Calls(p) == \/ Runprogram(p) \/ Fork(p) \/ Exit(p) \/ OpenFile(p) \/ OpenFails(p) \/ Close(p)
            \/ Dup2(p) \/ Transfer(p)

Next == \E p \in Procs : Calls(p) \/ Kernel(p)

Spec == Init /\ [][Next]_vars

-----------------------------------------------------------------------------
(* Properties *)

\* The references to an open file: descriptors, and calls that hold one that is
\* in no table (the last of a close included, until it is freed).
Slots(o) == {x \in Procs \X FDs : ft_openfiles[x[1]][x[2]] = o}
Held(o)  == {p \in Procs : /\ arg[p].file = o
                           /\ \/ pc[p] \in {"place", "dup"}
                              \/ pc[p] \in {"decref", "destroy"} /\ arg[p].other = NULL}

\* of_refcount counts exactly the references, through forks, exits and failures:
\* nothing is freed while named, nothing is kept that is not.
RefcountExact == \A o \in Opens : of[o].refcount = Cardinality(Slots(o)) + Cardinality(Held(o))

\* The open file a call got is in the same descriptor when the call is through
\* (filetable_put asserts it).
FileStays ==
  \A p \in Procs : pc[p] \in {"lock", "io", "unlock", "seek"} =>
    ft_openfiles[p][arg[p].fd] = arg[p].file

\* Between the test of its count and openfile_destroy, with of_reflock released,
\* there is no other reference to an open file, and nobody has its lock.
LastReference ==
  \A p \in Procs : pc[p] = "destroy" =>
    of[arg[p].file].refcount = 1 /\ of[arg[p].file].offsetlock = NULL

\* An open file is not freed, nor given away, under a call that uses it.
NotFreedInUse == FileStays /\ LastReference

\* The system calls are those of the manual, each in one step, although they take
\* several here: an open file's position is shared, and no read or write moves it
\* from a value that is stale.
Running == {p \in Procs : pc[p] \notin {"none", "born"} /\ arg[p].other # p}
Named   == {o \in Opens : \E p \in Running, fd \in FDs : ft_openfiles[p][fd] = o}
Mover(o) == {p \in Procs : pc[p] = "unlock" /\ arg[p].file = o}

\* Whoever has read or written moves the position when the lock goes back.
Position(o) == IF Mover(o) = {} THEN of[o].offset ELSE arg[CHOOSE p \in Mover(o) : TRUE].pos

Names == [p \in Procs |->
            [fd \in {d \in FDs : p \in Running /\ ft_openfiles[p][d] # NULL} |-> ft_openfiles[p][fd]]]
About == [o \in Named |-> [file |-> of[o].vnode, mode |-> of[o].accmode, seek |-> Position(o)]]

Manual == INSTANCE SharedFiles WITH
  Places <- 0..MaxSize, running <- Running, names <- Names, about <- About

AtomicCalls == Manual!ShSpec

\* No call keeps of_offsetlock, whichever way it ends: who has it is between
\* taking and releasing it, with the file it got.
LockGivenBack ==
  \A o \in Opens : of[o].offsetlock # NULL =>
    LET p == of[o].offsetlock IN pc[p] \in {"io", "unlock", "seek"} /\ arg[p].file = o
=============================================================================
