---------------------------- MODULE SharedFiles ----------------------------
(***************************************************************************)
(* What the manual promises of open, read, write, lseek, dup2, close and   *)
(* fork (man/syscall of asst3), each in one step: descriptors name opens   *)
(* of files; an open has one seek position however many descriptors, of    *)
(* however many processes, name it, and lasts as long as one does.         *)
(***************************************************************************)
EXTENDS Integers, Sequences, Functions

CONSTANTS Procs, Opens, Files, FDs,
          Lengths, \* how many bytes a call may move
          Places,  \* where lseek may go
          Zero     \* the byte of a gap

VARIABLES running, \* the processes there are
          names,   \* of each process, the opens its descriptors name
          about,   \* of each open that is named, [file, mode, seek]
          content  \* of each file

shVars == <<running, names, about, content>>

NoNames == [d \in {} |-> Zero]

ShInit ==
  /\ running = {} /\ content = [v \in Files |-> <<>>]
  /\ names = [p \in Procs |-> NoNames] /\ about = NoNames

Named(ns) == {o \in Opens : \E p \in Procs : \E d \in DOMAIN ns[p] : ns[p][d] = o}
Become(ns) == names' = ns /\ about' = Restrict(about, Named(ns))
SeekTo(o, n) == about' = [about EXCEPT ![o].seek = n]

\* s with w written at its position n: a gap reads as zeroes.
Lay(s, n, w) ==
  [i \in 1..(IF n + Len(w) > Len(s) THEN n + Len(w) ELSE Len(s)) |->
     IF i > n /\ i <= n + Len(w) THEN w[i - n] ELSE IF i <= Len(s) THEN s[i] ELSE Zero]

\* runprogram, with no descriptor; exit closes what is open.
Start(p) == p \notin running /\ running' = running \cup {p} /\ UNCHANGED <<names, about, content>>

Exit(p) == /\ p \in running /\ running' = running \ {p}
           /\ Become([names EXCEPT ![p] = NoNames])
           /\ UNCHANGED content

Fork(p, q) ==
  /\ p \in running /\ q \notin running
  /\ running' = running \cup {q}
  /\ names' = [names EXCEPT ![q] = names[p]]
  /\ UNCHANGED <<about, content>>

\* The lowest free descriptor names a new open, at its start.
Open(p, o, v, m) ==
  /\ p \in running /\ o \notin Named(names)
  /\ \E d \in FDs \ DOMAIN names[p] :
       /\ \A e \in FDs \ DOMAIN names[p] : d <= e
       /\ names' = [names EXCEPT ![p] = [e \in DOMAIN @ \cup {d} |-> IF e = d THEN o ELSE @[e]]]
  /\ about' = [x \in DOMAIN about \cup {o} |->
                 IF x = o THEN [file |-> v, mode |-> m, seek |-> 0] ELSE about[x]]
  /\ UNCHANGED <<running, content>>

Truncate(v) == content' = [content EXCEPT ![v] = <<>>] /\ UNCHANGED <<running, names, about>>

Close(p, d) ==
  /\ Become([names EXCEPT ![p] = Restrict(@, DOMAIN @ \ {d})])
  /\ UNCHANGED <<running, content>>

Dup2(p, d, e) ==
  /\ Become([names EXCEPT ![p] = [x \in DOMAIN @ \cup {e} |-> IF x = e THEN @[d] ELSE @[x]]])
  /\ UNCHANGED <<running, content>>

\* Up to n bytes from the seek position on, which moves by what was there.
Read(p, d, n) ==
  /\ LET o == names[p][d]
         left == Len(content[about[o].file]) - about[o].seek
     IN  /\ about[o].mode # "w"
         /\ SeekTo(o, about[o].seek + (IF left <= 0 THEN 0 ELSE IF left < n THEN left ELSE n))
  /\ UNCHANGED <<running, names, content>>

Write(p, d, w) ==
  /\ LET o == names[p][d]
     IN  /\ about[o].mode # "r"
         /\ content' = [content EXCEPT ![about[o].file] = Lay(@, about[o].seek, w)]
         /\ SeekTo(o, about[o].seek + Len(w))
  /\ UNCHANGED <<running, names>>

\* A write that fails on the way leaves what it wrote; the position stays.
BadWrite(p, d, w) ==
  /\ about[names[p][d]].mode # "r"
  /\ LET o == names[p][d]
     IN content' = [content EXCEPT ![about[o].file] = Lay(@, about[o].seek, w)]
  /\ UNCHANGED <<running, names, about>>

Lseek(p, d, n) ==
  /\ SeekTo(names[p][d], n)
  /\ UNCHANGED <<running, names, content>>

\* A call that fails.
Fails == UNCHANGED shVars

ShNext ==
  \/ Fails
  \/ \E p \in Procs : Start(p) \/ Exit(p)
  \/ \E p, q \in Procs : Fork(p, q)
  \/ \E p \in Procs, o \in Opens, v \in Files, m \in {"r", "w", "rw"} : Open(p, o, v, m)
  \/ \E v \in Files : running # {} /\ Truncate(v)
  \/ \E p \in Procs : \E d \in DOMAIN names[p] :
       \/ Close(p, d)
       \/ \E e \in FDs : Dup2(p, d, e)
       \/ \E n \in Lengths : \/ Read(p, d, n)
                             \/ Write(p, d, [i \in 1..n |-> p])
                             \/ BadWrite(p, d, [i \in 1..n |-> p])
       \/ \E n \in Places : Lseek(p, d, n)

ShSpec == ShInit /\ [][ShNext]_shVars
=============================================================================
