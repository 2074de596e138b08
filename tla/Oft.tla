-------------------------------- MODULE Oft --------------------------------
(***************************************************************************)
(* The file system calls of asst2, kern/syscall/file.c: one open file      *)
(* table (of_table) for the system, a descriptor table in each process     *)
(* that points to its slots, and one buffer, str_buf, through which every  *)
(* name and every byte passes.  There is no fork and no exit in asst2:     *)
(* processes are started from the menu and have one thread each.           *)
(*                                                                         *)
(* What is written has no zero byte in it (copyinstr stops at one).  The   *)
(* three descriptors of the console, O_CREAT, O_APPEND and the numbers the *)
(* calls return are left out.  stopped is a kernel panic, or the use of    *)
(* memory that is not the program's to use: nothing is said of what        *)
(* follows.                                                                *)
(***************************************************************************)
EXTENDS Integers, Sequences, FiniteSets, FiniteSetsExt

CONSTANTS Procs,    \* processes
          Infos,    \* the struct open_file_infos kmalloc can provide
          NSlots,   \* size of of_table
          OPEN_MAX, \* size of a descriptor table
          Files,    \* files of a file system
          Lengths,  \* sizes of a read or write
          MaxSize,  \* bound: no file is longer, no seek goes further
          NULL,     \* a null pointer
          Zero      \* a byte nobody wrote

Slots == 0..NSlots-1
FDs   == 0..OPEN_MAX-1
Modes == {"r", "w", "rw"}

ASSUME OftAssumption ==
  /\ NULL \notin Infos \cup Procs \cup Files \cup Slots \cup FDs /\ Zero \notin Procs
  /\ IsFiniteSet(Procs)
  /\ NSlots \in Nat \ {0} /\ OPEN_MAX \in Nat \ {0}
  /\ Lengths \subseteq Nat /\ MaxSize \in Nat

VARIABLES
  of_table, \* from slots to the open file infos
  ofi,      \* the infos; one without a vnode is freed memory
  fd_table, \* of each process, from descriptors to slots
  str_buf,  \* what the buffer holds: a file's name, the bytes a process
            \* writes or has read, or the name of a lock
  content,  \* the bytes of each file, each the process that wrote it
  oft_pc,   \* of each process: its next step
  arg       \* and the variables of its system call

oftVars == <<of_table, ofi, fd_table, str_buf, content, oft_pc, arg>>

Freed == [vn |-> NULL, o_flags |-> "r", f_offset |-> 0, ref_count |-> 0, f_lock |-> NULL]

\* call: what is done once f_lock is held; file: cur_ofi; fd, old: descriptors;
\* vn: the vnode opened, or the file asked for; slot: of of_table; pos: uio_offset.
NoArg == [call |-> "read", file |-> NULL, fd |-> 0, old |-> NULL, vn |-> NULL,
          mode |-> "r", slot |-> 0, pos |-> 0]

Calls == {"read", "write", "seek", "close", "count"}

OftTypeOK ==
  /\ of_table \in [Slots -> Infos \cup {NULL}]
  /\ ofi \in [Infos -> [vn : Files \cup {NULL}, o_flags : Modes, f_offset : 0..MaxSize,
                        ref_count : 0..Cardinality(Procs) * OPEN_MAX, f_lock : Procs \cup {NULL}]]
  /\ fd_table \in [Procs -> [FDs -> Slots \cup {NULL}]]
  /\ str_buf \in [is : {"name", "write", "read", "lock"}, of : Files \cup Procs \cup {NULL}]
  /\ \A v \in Files : content[v] \in Seq(Procs \cup {Zero}) /\ Len(content[v]) <= MaxSize
  /\ oft_pc \in [Procs -> {"none", "run", "open", "find", "alloc", "place", "lock", "dup",
                           "copyout", "stopped"} \cup Calls]
  /\ arg \in [Procs -> [call : Calls, file : Infos \cup {NULL}, fd : FDs, old : FDs \cup {NULL},
                        vn : Files \cup {NULL}, mode : Modes, slot : Slots, pos : 0..MaxSize]]

OftInit ==
  /\ of_table = [i \in Slots |-> NULL]
  /\ ofi = [x \in Infos |-> Freed]
  /\ fd_table = [p \in Procs |-> [fd \in FDs |-> NULL]]
  /\ str_buf = [is |-> "lock", of |-> NULL]
  /\ content = [v \in Files |-> <<>>]
  /\ oft_pc = [p \in Procs |-> "none"]
  /\ arg = [p \in Procs |-> NoArg]

Step(p, place, a) == oft_pc' = [oft_pc EXCEPT ![p] = place] /\ arg' = [arg EXCEPT ![p] = a]
Done(p) == Step(p, "run", NoArg)
Stop(p) == Step(p, "stopped", arg[p])

tables == <<of_table, ofi, fd_table>>

\* proc_create_runprogram
Runprogram(p) ==
  /\ oft_pc[p] = "none"
  /\ Done(p)
  /\ UNCHANGED <<tables, str_buf, content>>

-----------------------------------------------------------------------------
(* open: sys__open and ker_open *)

\* copyinstr of the path
OpenCall(p) ==
  /\ oft_pc[p] = "run"
  /\ \E v \in Files, m \in Modes :
       /\ str_buf' = [is |-> "name", of |-> v]
       /\ Step(p, "open", [NoArg EXCEPT !.vn = v, !.mode = m])
  /\ UNCHANGED <<tables, content>>

\* vfs_open of whatever the buffer holds; it may fail, or truncate the file.
VfsOpen(p) ==
  /\ oft_pc[p] = "open"
  /\ \/ \E v \in Files, trunc \in BOOLEAN :
          /\ str_buf.is = "name" => v = str_buf.of
          /\ trunc => arg[p].mode # "r"
          /\ content' = IF trunc THEN [content EXCEPT ![v] = <<>>] ELSE content
          /\ Step(p, "find", [arg[p] EXCEPT !.vn = v])
     \/ Done(p) /\ UNCHANGED content
  /\ UNCHANGED <<tables, str_buf>>

FreeSlots == {i \in Slots : of_table[i] = NULL}

\* The first slot that is NULL.  The loop's bound is __PID_MAX, beyond the table.
FindSlot(p) ==
  /\ oft_pc[p] = "find"
  /\ IF FreeSlots = {} THEN Stop(p)
     ELSE Step(p, "alloc", [arg[p] EXCEPT !.slot = Min(FreeSlots)])
  /\ UNCHANGED <<tables, str_buf, content>>

\* The slot is filled, or there is no memory; set_lock_name writes to str_buf.
FillSlot(p) ==
  /\ oft_pc[p] = "alloc"
  /\ \/ \E x \in Infos :
          /\ ofi[x].vn = NULL
          /\ of_table' = [of_table EXCEPT ![arg[p].slot] = x]
          /\ ofi' = [ofi EXCEPT ![x] = [Freed EXCEPT !.vn = arg[p].vn, !.o_flags = arg[p].mode,
                                                     !.ref_count = 1]]
          /\ str_buf' = [is |-> "lock", of |-> NULL]
          /\ Step(p, "place", arg[p])
     \/ /\ of_table' = [of_table EXCEPT ![arg[p].slot] = NULL]
        /\ Done(p)
        /\ UNCHANGED <<ofi, str_buf>>
  /\ UNCHANGED <<fd_table, content>>

FreeFDs(p) == {fd \in FDs : fd_table[p][fd] = NULL}

\* The lowest free descriptor.  Without one the vnode is closed, the slot kept.
PlaceSlot(p) ==
  /\ oft_pc[p] = "place"
  /\ fd_table' = IF FreeFDs(p) = {} THEN fd_table
                 ELSE [fd_table EXCEPT ![p][Min(FreeFDs(p))] = arg[p].slot]
  /\ Done(p)
  /\ UNCHANGED <<of_table, ofi, str_buf, content>>

-----------------------------------------------------------------------------
(* The other calls, up to lock_acquire(f_lock) *)

Open(p)   == {fd \in FDs : fd_table[p][fd] # NULL}
At(p, fd) == of_table[fd_table[p][fd]]
Lock(p, call, a) == Step(p, "lock", [a EXCEPT !.call = call])

\* sys__read: f_offset is read before the lock is taken.
ReadCall(p) ==
  /\ oft_pc[p] = "run"
  /\ \E fd \in Open(p) :
       /\ ofi[At(p, fd)].o_flags # "w"
       /\ Lock(p, "read", [NoArg EXCEPT !.file = At(p, fd), !.pos = ofi[At(p, fd)].f_offset])
  /\ UNCHANGED <<tables, str_buf, content>>

\* sys__write: the bytes are copied before the lock is taken.
WriteCall(p) ==
  /\ oft_pc[p] = "run"
  /\ \E fd \in Open(p) :
       /\ ofi[At(p, fd)].o_flags # "r"
       /\ Lock(p, "write", [NoArg EXCEPT !.file = At(p, fd), !.pos = ofi[At(p, fd)].f_offset])
  /\ str_buf' = [is |-> "write", of |-> p]
  /\ UNCHANGED <<tables, content>>

SeekCall(p) ==
  /\ oft_pc[p] = "run"
  /\ \E fd \in Open(p) : Lock(p, "seek", [NoArg EXCEPT !.file = At(p, fd)])
  /\ UNCHANGED <<tables, str_buf, content>>

CloseCall(p) ==
  /\ oft_pc[p] = "run"
  /\ \E fd \in Open(p) : Lock(p, "close", [NoArg EXCEPT !.file = At(p, fd), !.fd = fd])
  /\ UNCHANGED <<tables, str_buf, content>>

\* sys__dup2 closes newfd first, if that is open.
Dup2Call(p) ==
  /\ oft_pc[p] = "run"
  /\ \E old \in Open(p), new \in FDs :
       IF new \in Open(p)
       THEN Lock(p, "close", [NoArg EXCEPT !.file = At(p, new), !.fd = new, !.old = old])
       ELSE Step(p, "dup", [NoArg EXCEPT !.fd = new, !.old = old])
  /\ UNCHANGED <<tables, str_buf, content>>

\* Mutant: dup2 does not go on to count the reference.
Dup2PlaceUncounted(p) ==
  LET slot == fd_table[p][arg[p].old]
  IN /\ oft_pc[p] = "dup"
     /\ fd_table' = [fd_table EXCEPT ![p][arg[p].fd] = slot]
     /\ IF slot = NULL THEN Stop(p) ELSE Done(p)
     /\ UNCHANGED <<of_table, ofi, str_buf, content>>

\* oldfd is not looked at again: if it was newfd, it is closed now.
Dup2Place(p) ==
  LET slot == fd_table[p][arg[p].old]
  IN /\ oft_pc[p] = "dup"
     /\ fd_table' = [fd_table EXCEPT ![p][arg[p].fd] = slot]
     /\ IF slot = NULL THEN Stop(p)
        ELSE Lock(p, "count", [arg[p] EXCEPT !.file = of_table[slot]])
     /\ UNCHANGED <<of_table, ofi, str_buf, content>>

\* lock_acquire asserts that its caller does not hold the lock.
Acquire(p) ==
  LET x == arg[p].file
  IN /\ oft_pc[p] = "lock"
     /\ IF ofi[x].vn = NULL \/ ofi[x].f_lock = p
        THEN Stop(p) /\ UNCHANGED ofi
        ELSE /\ ofi[x].f_lock = NULL
             /\ ofi' = [ofi EXCEPT ![x].f_lock = p]
             /\ Step(p, arg[p].call, arg[p])
     /\ UNCHANGED <<of_table, fd_table, str_buf, content>>

-----------------------------------------------------------------------------
(* With f_lock held *)

Unlock(p, offset) ==
  /\ ofi' = [ofi EXCEPT ![arg[p].file].f_offset = offset, ![arg[p].file].f_lock = NULL]
  /\ Done(p)

\* VOP_READ fails, and so does sys__read, with the lock.
ReadFails(p) ==
  /\ oft_pc[p] = "read"
  /\ Done(p)
  /\ UNCHANGED <<tables, str_buf, content>>

\* VOP_READ into str_buf, what there is of n bytes
Read(p) ==
  LET x    == arg[p].file
      left == Max({Len(content[ofi[x].vn]) - arg[p].pos, 0})
  IN /\ oft_pc[p] = "read"
     /\ \E n \in Lengths :
          LET next == arg[p].pos + Min({n, left})
          IN IF next = ofi[x].f_offset THEN Unlock(p, next) /\ UNCHANGED str_buf
             ELSE /\ str_buf' = [is |-> "read", of |-> p]
                  /\ ofi' = [ofi EXCEPT ![x].f_offset = next]
                  /\ Step(p, "copyout", arg[p])
     /\ UNCHANGED <<of_table, fd_table, content>>

\* copyout of str_buf, whether or not that fails
CopyOut(p) ==
  /\ oft_pc[p] = "copyout"
  /\ Unlock(p, ofi[arg[p].file].f_offset)
  /\ UNCHANGED <<of_table, fd_table, str_buf, content>>

\* s from position n on overwritten by w; what was never written reads as zero.
Overwrite(s, n, w) ==
  [i \in 1..Max({Len(s), n + Len(w)}) |->
     IF i - n \in 1..Len(w) THEN w[i - n] ELSE IF i \in 1..Len(s) THEN s[i] ELSE Zero]

\* VOP_WRITE of what str_buf holds: all of it, or the beginning and an error
Write(p) ==
  LET x    == arg[p].file
      byte == IF str_buf.is = "write" THEN str_buf.of ELSE Zero
  IN /\ oft_pc[p] = "write"
     /\ \E n \in Lengths \cup {0} :
          /\ arg[p].pos + n <= MaxSize
          /\ content' = [content EXCEPT ![ofi[x].vn] =
                           IF n = 0 THEN @ ELSE Overwrite(@, arg[p].pos, [i \in 1..n |-> byte])]
          /\ Unlock(p, arg[p].pos + n) \/ Unlock(p, ofi[x].f_offset)
     /\ UNCHANGED <<of_table, fd_table, str_buf>>

\* Mutant: a position below zero is not put back.
SeekBelow(p) ==
  LET x == arg[p].file
  IN /\ oft_pc[p] = "seek"
     /\ \E base \in {0, ofi[x].f_offset, Len(content[ofi[x].vn])}, offset \in {-1, 0, 1} :
          /\ base + offset <= MaxSize
          /\ Unlock(p, base + offset)
     /\ UNCHANGED <<of_table, fd_table, str_buf, content>>

\* sys__lseek from the start, the position or the end
Seek(p) ==
  LET x == arg[p].file
  IN /\ oft_pc[p] = "seek"
     /\ \E base \in {0, ofi[x].f_offset, Len(content[ofi[x].vn])}, offset \in {-1, 0, 1} :
          /\ base + offset <= MaxSize
          /\ Unlock(p, IF base + offset < 0 THEN ofi[x].f_offset ELSE base + offset)
     /\ UNCHANGED <<of_table, fd_table, str_buf, content>>

\* ker__close: the last reference frees the info; the slot is left as it is (the
\* assignment that should clear it is to a local variable).
Close(p) ==
  LET x == arg[p].file
  IN /\ oft_pc[p] = "close"
     /\ fd_table' = [fd_table EXCEPT ![p][arg[p].fd] = NULL]
     /\ ofi' = [ofi EXCEPT ![x] = IF ofi[x].ref_count = 1 THEN Freed
                                  ELSE [ofi[x] EXCEPT !.ref_count = @ - 1, !.f_lock = NULL]]
     /\ IF arg[p].old = NULL THEN Done(p) ELSE Step(p, "dup", arg[p])
     /\ UNCHANGED <<of_table, str_buf, content>>

Dup2Count(p) ==
  /\ oft_pc[p] = "count"
  /\ ofi' = [ofi EXCEPT ![arg[p].file].ref_count = @ + 1, ![arg[p].file].f_lock = NULL]
  /\ Done(p)
  /\ UNCHANGED <<of_table, fd_table, str_buf, content>>

-----------------------------------------------------------------------------
OftNext ==
  \E p \in Procs :
    \/ Runprogram(p)
    \/ OpenCall(p) \/ VfsOpen(p) \/ FindSlot(p) \/ FillSlot(p) \/ PlaceSlot(p)
    \/ ReadCall(p) \/ WriteCall(p) \/ SeekCall(p) \/ CloseCall(p) \/ Dup2Call(p) \/ Dup2Place(p)
    \/ Acquire(p)
    \/ ReadFails(p) \/ Read(p) \/ CopyOut(p) \/ Write(p) \/ Seek(p) \/ Close(p) \/ Dup2Count(p)

OftSpec == OftInit /\ [][OftNext]_oftVars

-----------------------------------------------------------------------------
(* Properties *)

\* An open file lives as long as a descriptor names it: its count is that of the
\* descriptors, but for one that dup2 has set and goes on to count.
Descriptors(x) == {d \in Procs \X FDs : d[2] \in Open(d[1]) /\ At(d[1], d[2]) = x}
Uncounted(x)   == {p \in Procs : arg[p].call = "count" /\ arg[p].file = x}

CountsDescriptors ==
  \A x \in Infos : Descriptors(x) # {} =>
    /\ ofi[x].vn # NULL
    /\ ofi[x].ref_count + Cardinality(Uncounted(x)) = Cardinality(Descriptors(x))

\* What the manual has of it: the processes, the opens that descriptors name, and each
\* of these opens.
Started   == {p \in Procs : oft_pc[p] # "none"}
Described == [p \in Procs |-> [fd \in Open(p) |-> At(p, fd)]]
Live      == {x \in Infos : Descriptors(x) # {}}
Seen      == [x \in Live |->
                [file |-> ofi[x].vn, mode |-> ofi[x].o_flags, seek |-> ofi[x].f_offset]]

\* The calls of a single process are those of the manual, each in one step (dup2
\* in two, the close and the rest), as far as it gets without a panic.
Manual == INSTANCE SharedFiles WITH
  Opens <- Infos, Places <- 0..MaxSize,
  running <- Started, names <- Described, about <- Seen

ManualCalls == Manual!ShSpec

\* What a call has put into str_buf is still there when it uses it (design.txt: a
\* lock is "used ... to protect all the sharing data and ensure the
\* indivisibility of each file operation").
BufferKept ==
  \A p \in Procs :
    /\ oft_pc[p] = "open" => str_buf = [is |-> "name", of |-> arg[p].vn]
    /\ oft_pc[p] = "write" => str_buf = [is |-> "write", of |-> p]
    /\ oft_pc[p] = "copyout" => str_buf = [is |-> "read", of |-> p]
=============================================================================
