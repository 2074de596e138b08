-------------------------- MODULE OpenFilesProofs --------------------------
(***************************************************************************)
(* OpenFiles.tla for every number of processes, open files, descriptors    *)
(* and bytes: reference counts are exact, nothing is freed in use, locks   *)
(* are given back, and the system calls are those of SharedFiles.tla.      *)
(***************************************************************************)
EXTENDS OpenFiles, FiniteSetTheorems, WellFoundedInduction, TLAPS

-----------------------------------------------------------------------------
(* The inductive invariant *)

Labels == {"none", "born", "run", "place", "dup", "decref", "destroy", "copy", "clean",
           "lock", "io", "unlock", "seek"}
Args   == [file : Opens \cup {NULL}, fd : 0..OPEN_MAX, rw : {"r", "w", "seek"},
           pos : 0..MaxSize, other : Procs \cup {NULL}]
Info   == [vnode : Files \cup {NULL}, accmode : Modes, offset : 0..MaxSize,
           refcount : Int, offsetlock : Procs \cup {NULL}]

\* TypeOK without the sign of the counts, which takes the counting of references.
Shape ==
  /\ ft_openfiles \in [Procs -> [FDs -> Opens \cup {NULL}]]
  /\ of \in [Opens -> Info]
  /\ content \in [Files -> Seq(Procs \cup {Zero})]
  /\ \A v \in Files : Len(content[v]) <= MaxSize
  /\ pc \in [Procs -> Labels] /\ arg \in [Procs -> Args]

Using   == {"lock", "io", "unlock", "seek"}
Dropping == {"decref", "destroy"}
OnTable == {"copy", "clean"} \cup Dropping

\* The loops of fork and exit work on the table of a child that does not run yet,
\* or of the process itself; nobody else works on it.
OwnTable ==
  /\ \A p \in Procs :
       /\ pc[p] \in {"copy", "clean"} => arg[p].other \in Procs
       /\ pc[p] = "copy" => arg[p].other # p
       /\ pc[p] \notin OnTable => arg[p].other = NULL
       /\ arg[p].other \in Procs \ {p} => pc[arg[p].other] = "born"
  /\ \A p, q \in Procs : p # q /\ arg[p].other \in Procs => arg[p].other # arg[q].other

\* What a loop has not copied, or has cleaned, is empty, and so is the table of a
\* process that does not exist: copying overwrites no reference.
TablesClear ==
  \A p \in Procs, d \in FDs :
    /\ pc[p] = "none" => ft_openfiles[p][d] = NULL
    /\ pc[p] = "copy" /\ d >= arg[p].fd => ft_openfiles[arg[p].other][d] = NULL
    /\ pc[p] \in OnTable \ {"copy"} /\ arg[p].other \in Procs /\ d < arg[p].fd
         => ft_openfiles[arg[p].other][d] = NULL

\* A call that has an open file at hand has one; the loop that drops one has it
\* from the table it cleans.
AtHand ==
  \A p \in Procs :
    /\ pc[p] \in {"place", "dup"} \cup Dropping \cup Using => arg[p].file \in Opens
    /\ pc[p] \in {"dup"} \cup Using => arg[p].fd \in FDs
    /\ pc[p] \in Dropping /\ arg[p].other \in Procs =>
         arg[p].fd \in FDs /\ ft_openfiles[arg[p].other][arg[p].fd] = arg[p].file

\* What is referred to is the open of a file, and so is what a call works with.
Allocated == \A o \in Opens : of[o].refcount # 0 => of[o].vnode \in Files
UsesFile  == \A p \in Procs : pc[p] \in Using => of[arg[p].file].vnode \in Files

Control == Shape /\ OwnTable /\ TablesClear /\ AtHand /\ FileStays /\ LockGivenBack /\ Allocated

IInv == Control /\ RefcountExact /\ LastReference

-----------------------------------------------------------------------------
(* Lemmas about the operators *)

\* A set of descriptors that is not empty has a lowest one: among the initial
\* segments below its members one is the smallest.
LEMMA MinIn ==
  ASSUME NEW S \in SUBSET Nat, S # {}
  PROVE  Min(S) \in S /\ \A y \in S : Min(S) <= y
<1>. DEFINE Below(x) == 0..x-1
            T == {Below(x) : x \in S}
<1>1. T \subseteq FiniteSubsetsOf(Nat) /\ T # {}
  <2>1. \A x \in S : IsFiniteSet(Below(x)) /\ Below(x) \subseteq Nat
    BY FS_Interval
  <2>. QED  BY <2>1 DEF FiniteSubsetsOf
<1>2. PICK B \in T : \A C \in T : ~ (<<C, B>> \in StrictSubsetOrdering(Nat))
  BY <1>1, FS_StrictSubsetOrderingWellFounded, WFMin
<1>3. PICK x \in S : B = Below(x)
  BY <1>2
<1>4. \A y \in S : x <= y
  <2>1. SUFFICES ASSUME NEW y \in S, y < x  PROVE FALSE
    OBVIOUS
  <2>2. Below(y) \subseteq Below(x) /\ y \in Below(x) /\ y \notin Below(y)
    BY <2>1
  <2>3. Below(y) \in SUBSET Nat /\ Below(x) \in SUBSET Nat /\ Below(y) # Below(x)
    BY <2>2
  <2>4. <<Below(y), Below(x)>> \in StrictSubsetOrdering(Nat)
    <3>. HIDE DEF Below
    <3>. QED  BY <2>2, <2>3 DEF StrictSubsetOrdering
  <2>5. Below(y) \in T
    OBVIOUS
  <2>. QED  BY <1>2, <1>3, <2>4, <2>5
<1>. QED  BY <1>4 DEF Min

LEMMA MaxOfTwo ==
  ASSUME NEW a \in Int, NEW b \in Int
  PROVE  Max({a, b}) = IF a >= b THEN a ELSE b
BY DEF Max

LEMMA MinOfTwo ==
  ASSUME NEW a \in Int, NEW b \in Int
  PROVE  Min({a, b}) = IF a <= b THEN a ELSE b
BY DEF Min

\* Writing yields a sequence as long as the longer of what was there and what
\* is there after.
LEMMA OverwriteType ==
  ASSUME NEW S, Zero \in S, NEW s \in Seq(S), NEW n \in Nat, NEW w \in Seq(S)
  PROVE  /\ Overwrite(s, n, w) \in Seq(S)
         /\ Len(Overwrite(s, n, w)) = IF Len(s) >= n + Len(w) THEN Len(s) ELSE n + Len(w)
<1>. DEFINE m == IF Len(s) >= n + Len(w) THEN Len(s) ELSE n + Len(w)
<1>1. Max({Len(s), n + Len(w)}) = m
  BY MaxOfTwo
<1>2. Overwrite(s, n, w) =
        [i \in 1..m |-> IF i - n \in 1..Len(w) THEN w[i - n] ELSE IF i \in 1..Len(s) THEN s[i] ELSE Zero]
  BY <1>1 DEF Overwrite
<1>3. m \in Nat
  OBVIOUS
<1>4. /\ \A i \in 1..Len(s) : s[i] \in S
      /\ \A i \in 1..Len(w) : w[i] \in S
  OBVIOUS
<1>5. Overwrite(s, n, w) \in [1..m -> S]
  BY <1>2, <1>4
<1>6. ASSUME NEW k \in Nat, NEW t \in [1..k -> S]
      PROVE  t \in Seq(S) /\ Len(t) = k
  OBVIOUS
<1>. HIDE DEF m
<1>7. Overwrite(s, n, w) \in Seq(S) /\ Len(Overwrite(s, n, w)) = m
  BY <1>3, <1>5, <1>6
<1>. QED  BY <1>7 DEF m

-----------------------------------------------------------------------------
(* Each step keeps the shape of the state *)

LEMMA NoArgShape == NoArg \in Args /\ Freed \in Info
BY OpenFilesAssumption DEF OpenFilesAssumption, NoArg, Args, Freed, Info, Modes

LEMMA ArgParts ==
  ASSUME NEW a \in Args
  PROVE  /\ a.file \in Opens \cup {NULL} /\ a.fd \in 0..OPEN_MAX /\ a.pos \in 0..MaxSize
         /\ a.other \in Procs \cup {NULL}
BY DEF Args

LEMMA ArgWith ==
  ASSUME NEW a \in Args
  PROVE  /\ \A file \in Opens \cup {NULL} : [a EXCEPT !.file = file] \in Args
         /\ \A fd \in 0..OPEN_MAX : [a EXCEPT !.fd = fd] \in Args
         /\ \A pos \in 0..MaxSize : [a EXCEPT !.pos = pos] \in Args
         /\ \A other \in Procs \cup {NULL} : [a EXCEPT !.other = other] \in Args
         /\ \A file \in Opens \cup {NULL}, fd \in 0..OPEN_MAX :
              [a EXCEPT !.file = file, !.fd = fd] \in Args /\ [a EXCEPT !.fd = fd, !.file = file] \in Args
         /\ \A file \in Opens \cup {NULL}, fd \in 0..OPEN_MAX, rw \in {"r", "w", "seek"} :
              [a EXCEPT !.file = file, !.fd = fd, !.rw = rw] \in Args
BY DEF Args

LEMMA InfoParts ==
  ASSUME NEW x \in Info
  PROVE  /\ x.refcount \in Int /\ x.offset \in 0..MaxSize
         /\ x.vnode \in Files \cup {NULL} /\ x.offsetlock \in Procs \cup {NULL}
BY DEF Info

LEMMA InfoWith ==
  ASSUME NEW x \in Info
  PROVE  /\ \A n \in Int : [x EXCEPT !.refcount = n] \in Info
         /\ \A p \in Procs \cup {NULL} : [x EXCEPT !.offsetlock = p] \in Info
         /\ \A n \in 0..MaxSize : [x EXCEPT !.offset = n, !.offsetlock = NULL] \in Info
         /\ \A v \in Files, m \in Modes, n \in Int :
              [x EXCEPT !.vnode = v, !.accmode = m, !.refcount = n] \in Info
BY DEF Info

LEMMA FreshShape ==
  ASSUME NEW v \in Files, NEW m \in Modes
  PROVE  [Freed EXCEPT !.vnode = v, !.accmode = m, !.refcount = 1] \in Info
<1>1. PICK x \in Info : x = Freed
  BY NoArgShape
<1>2. PICK n \in Int : n = 1
  OBVIOUS
<1>3. [x EXCEPT !.vnode = v, !.accmode = m, !.refcount = n] \in Info
  BY DEF Info
<1>. QED  BY <1>1, <1>2, <1>3

LEMMA StepShape ==
  ASSUME Shape, NEW p \in Procs, NEW place \in Labels, NEW a \in Args, Step(p, place, a)
  PROVE  pc' \in [Procs -> Labels] /\ arg' \in [Procs -> Args]
BY DEF Shape, Step

LEMMA ReturnShape ==
  ASSUME Shape, NEW p \in Procs, Return(p)
  PROVE  pc' \in [Procs -> Labels] /\ arg' \in [Procs -> Args]
<1>1. "run" \in Labels
  BY DEF Labels
<1>. QED  BY <1>1, NoArgShape, StepShape DEF Return

\* The counts change, the lock is taken or released, the file is freed or made.
LEMMA OfShape ==
  ASSUME of \in [Opens -> Info], NEW o \in Opens, NEW x \in Info,
         of' = [of EXCEPT ![o] = x]
  PROVE  of' \in [Opens -> Info]
OBVIOUS

LEMMA UnlockShape ==
  ASSUME Shape, NEW p \in Procs, arg[p].file \in Opens, NEW n \in 0..MaxSize, Unlock(p, n)
  PROVE  /\ of' \in [Opens -> Info]
         /\ pc' \in [Procs -> Labels] /\ arg' \in [Procs -> Args]
<1>. DEFINE o == arg[p].file
            x == [of[o] EXCEPT !.offset = n, !.offsetlock = NULL]
<1>1. of[o] \in Info
  BY DEF Shape
<1>2. x \in Info
  BY <1>1, InfoWith
<1>3. of' = [of EXCEPT ![o] = x]
  BY DEF Unlock, Shape
<1>. QED  BY <1>2, <1>3, ReturnShape DEF Unlock, Shape

LEMMA AfterDecrefShape ==
  ASSUME Shape, AtHand, NEW p \in Procs, pc[p] \in Dropping, AfterDecref(p)
  PROVE  /\ ft_openfiles' \in [Procs -> [FDs -> Opens \cup {NULL}]]
         /\ pc' \in [Procs -> Labels] /\ arg' \in [Procs -> Args]
<1>1. arg[p] \in Args /\ arg[p].other \in Procs \cup {NULL} /\ arg[p].fd \in 0..OPEN_MAX
  BY ArgParts DEF Shape
<1>2. CASE arg[p].other = NULL
  BY <1>2, ReturnShape DEF AfterDecref, Shape
<1>3. CASE arg[p].other # NULL
  <2>1. arg[p].fd \in FDs
    BY <1>1, <1>3 DEF AtHand
  <2>2. [arg[p] EXCEPT !.fd = arg[p].fd + 1, !.file = NULL] \in Args
    <3>1. arg[p].fd + 1 \in 0..OPEN_MAX
      BY <2>1, OpenFilesAssumption DEF FDs, OpenFilesAssumption
    <3>. QED  BY <1>1, <3>1, ArgWith
  <2>3. "clean" \in Labels
    BY DEF Labels
  <2>4. Step(p, "clean", [arg[p] EXCEPT !.fd = arg[p].fd + 1, !.file = NULL])
    BY <1>3 DEF AfterDecref
  <2>5. pc' \in [Procs -> Labels] /\ arg' \in [Procs -> Args]
    BY <2>2, <2>3, <2>4, StepShape
  <2>6. ft_openfiles' = [ft_openfiles EXCEPT ![arg[p].other][arg[p].fd] = NULL]
    BY <1>3 DEF AfterDecref
  <2>. QED  BY <2>5, <2>6 DEF Shape
<1>. QED  BY <1>2, <1>3

\* PlaceAt and incref keep the shape.
LEMMA PlaceAtShape ==
  ASSUME Shape, NEW p \in Procs, NEW new \in Opens \cup {NULL}, NEW fd \in FDs, PlaceAt(p, new, fd)
  PROVE  Shape'
<1>1. ft_openfiles' = [ft_openfiles EXCEPT ![p][fd] = new] /\ UNCHANGED <<of, content>>
  BY DEF PlaceAt
<1>2. pc' \in [Procs -> Labels] /\ arg' \in [Procs -> Args]
  <2>1. CASE ft_openfiles[p][fd] = NULL
    BY <2>1, ReturnShape DEF PlaceAt
  <2>2. CASE ft_openfiles[p][fd] # NULL
    <3>1. Step(p, "decref", [NoArg EXCEPT !.file = ft_openfiles[p][fd]])
      BY <2>2 DEF PlaceAt
    <3>2. ft_openfiles[p][fd] \in Opens \cup {NULL} /\ "decref" \in Labels
      BY DEF Shape, Labels
    <3>3. [NoArg EXCEPT !.file = ft_openfiles[p][fd]] \in Args
      BY <3>2, NoArgShape, ArgWith
    <3>. QED  BY <3>1, <3>2, <3>3, StepShape
  <2>. QED  BY <2>1, <2>2
<1>. QED  BY <1>1, <1>2 DEF Shape

LEMMA IncrefShape ==
  ASSUME Shape, NEW o \in Opens, incref(o)
  PROVE  of' \in [Opens -> Info]
<1>1. of' = [of EXCEPT ![o] = [of[o] EXCEPT !.refcount = of[o].refcount + 1]]
  BY DEF incref, Shape
<1>2. [of[o] EXCEPT !.refcount = of[o].refcount + 1] \in Info
  <2>1. of[o] \in Info
    BY DEF Shape
  <2>2. of[o].refcount + 1 \in Int
    BY <2>1, InfoParts
  <2>. QED  BY <2>1, <2>2, InfoWith
<1>. QED  BY <1>1, <1>2, OfShape DEF Shape

LEMMA ShapeStep ==
  ASSUME Shape, OwnTable, AtHand, UsesFile, NEW p \in Procs, Calls(p) \/ Kernel(p)
  PROVE  Shape'
<1>a. arg[p] \in Args /\ arg[p].file \in Opens \cup {NULL} /\ arg[p].fd \in 0..OPEN_MAX
      /\ arg[p].pos \in 0..MaxSize /\ arg[p].other \in Procs \cup {NULL}
  BY ArgParts DEF Shape
<1>b. OPEN_MAX \in Nat \ {0} /\ MaxSize \in Nat /\ Lengths \subseteq Nat /\ FDs \subseteq 0..OPEN_MAX
  BY OpenFilesAssumption DEF OpenFilesAssumption, FDs
<1>1. CASE Runprogram(p)
  BY <1>1, ReturnShape DEF Runprogram, Shape
<1>2. CASE Fork(p)
  <2>1. PICK q \in Procs : /\ pc' = [pc EXCEPT ![p] = "copy", ![q] = "born"]
                           /\ arg' = [arg EXCEPT ![p] = [NoArg EXCEPT !.other = q]]
    BY <1>2 DEF Fork
  <2>2. [NoArg EXCEPT !.other = q] \in Args
    BY NoArgShape, ArgWith
  <2>. QED  BY <1>2, <2>1, <2>2 DEF Fork, Shape, Labels
<1>3. CASE Exit(p)
  <2>1. [NoArg EXCEPT !.other = p] \in Args /\ "clean" \in Labels
    BY NoArgShape, ArgWith DEF Labels
  <2>. QED  BY <1>3, <2>1, StepShape DEF Exit, Shape
<1>4. CASE OpenFile(p)
  <2>1. PICK o \in Opens, v \in Files, m \in Modes, trunc \in BOOLEAN :
          /\ of' = [of EXCEPT ![o] = [Freed EXCEPT !.vnode = v, !.accmode = m, !.refcount = 1]]
          /\ content' = IF trunc THEN [content EXCEPT ![v] = <<>>] ELSE content
          /\ Step(p, "place", [NoArg EXCEPT !.file = o])
    BY <1>4 DEF OpenFile
  <2>2. [NoArg EXCEPT !.file = o] \in Args /\ "place" \in Labels
    BY NoArgShape, ArgWith DEF Labels
  <2>3. [Freed EXCEPT !.vnode = v, !.accmode = m, !.refcount = 1] \in Info
    BY FreshShape
  <2>4. of' \in [Opens -> Info]
    BY <2>1, <2>3, OfShape DEF Shape
  <2>5. pc' \in [Procs -> Labels] /\ arg' \in [Procs -> Args]
    BY <2>1, <2>2, StepShape
  <2>6. content' \in [Files -> Seq(Procs \cup {Zero})] /\ \A w \in Files : Len(content'[w]) <= MaxSize
    BY <1>b, <2>1 DEF Shape
  <2>. QED  BY <1>4, <2>4, <2>5, <2>6 DEF OpenFile, Shape
<1>5. CASE OpenFails(p)
  <2>1. content' \in [Files -> Seq(Procs \cup {Zero})] /\ \A w \in Files : Len(content'[w]) <= MaxSize
    BY <1>b, <1>5 DEF Shape, OpenFails
  <2>. QED  BY <1>5, <2>1 DEF OpenFails, Shape
<1>6. CASE Close(p)
  BY <1>6, PlaceAtShape DEF Close
<1>7. CASE Dup2(p)
  <2>1. PICK old \in FDs, new \in FDs :
          /\ ft_openfiles[p][old] # NULL /\ incref(ft_openfiles[p][old])
          /\ Step(p, "dup", [NoArg EXCEPT !.file = ft_openfiles[p][old], !.fd = new])
    BY <1>7 DEF Dup2
  <2>2. ft_openfiles[p][old] \in Opens
    BY <2>1 DEF Shape
  <2>3. [NoArg EXCEPT !.file = ft_openfiles[p][old], !.fd = new] \in Args /\ "dup" \in Labels
    BY <1>b, <2>2, NoArgShape, ArgWith DEF Labels
  <2>4. of' \in [Opens -> Info]
    BY <2>1, <2>2, IncrefShape
  <2>5. pc' \in [Procs -> Labels] /\ arg' \in [Procs -> Args]
    BY <2>1, <2>3, StepShape
  <2>. QED  BY <1>7, <2>4, <2>5 DEF Dup2, Shape
<1>8. CASE Transfer(p)
  <2>1. PICK fd \in FDs, rw \in {"r", "w", "seek"} :
          Step(p, "lock", [NoArg EXCEPT !.file = ft_openfiles[p][fd], !.fd = fd, !.rw = rw])
    BY <1>8 DEF Transfer
  <2>2. [NoArg EXCEPT !.file = ft_openfiles[p][fd], !.fd = fd, !.rw = rw] \in Args /\ "lock" \in Labels
    <3>1. ft_openfiles[p][fd] \in Opens \cup {NULL} /\ fd \in 0..OPEN_MAX
      BY <1>b DEF Shape
    <3>. QED  BY <3>1, NoArgShape, ArgWith DEF Labels
  <2>. QED  BY <1>8, <2>1, <2>2, StepShape DEF Transfer, Shape
<1>9. CASE CopyTurn(p)
  <2>1. arg[p].fd \in FDs /\ arg[p].fd + 1 \in 0..OPEN_MAX /\ arg[p].other \in Procs
    BY <1>a, <1>b, <1>9 DEF CopyTurn, FDs, OwnTable
  <2>2. [arg[p] EXCEPT !.fd = arg[p].fd + 1] \in Args
    BY <1>a, <2>1, ArgWith
  <2>3. arg' \in [Procs -> Args]
    <3>1. arg' = [arg EXCEPT ![p] = [arg[p] EXCEPT !.fd = arg[p].fd + 1]]
      BY <1>9 DEF CopyTurn, Shape
    <3>. QED  BY <2>2, <3>1 DEF Shape
  <2>4. of' \in [Opens -> Info]
    <3>1. CASE ft_openfiles[p][arg[p].fd] = NULL
      BY <1>9, <3>1 DEF CopyTurn, Shape
    <3>2. CASE ft_openfiles[p][arg[p].fd] # NULL
      BY <1>9, <2>1, <3>2, IncrefShape DEF CopyTurn, Shape
    <3>. QED  BY <3>1, <3>2
  <2>5. ft_openfiles' \in [Procs -> [FDs -> Opens \cup {NULL}]]
    BY <1>9, <2>1 DEF CopyTurn, Shape
  <2>. QED  BY <1>9, <2>3, <2>4, <2>5 DEF CopyTurn, Shape
<1>10. CASE Forked(p)
  BY <1>10, NoArgShape DEF Forked, Shape, Labels
<1>11. CASE ForkFails(p)
  <2>1. [arg[p] EXCEPT !.fd = 0] \in Args /\ "clean" \in Labels
    <3>1. 0 \in 0..OPEN_MAX
      BY <1>b
    <3>. QED  BY <1>a, <3>1, ArgWith DEF Labels
  <2>. QED  BY <1>11, <2>1, StepShape DEF ForkFails, Shape
<1>12. CASE CleanTurn(p)
  <2>1. arg[p].fd \in FDs /\ arg[p].fd + 1 \in 0..OPEN_MAX /\ arg[p].other \in Procs
    BY <1>a, <1>b, <1>12 DEF CleanTurn, FDs, OwnTable
  <2>2. /\ [arg[p] EXCEPT !.fd = arg[p].fd + 1] \in Args
        /\ [arg[p] EXCEPT !.file = ft_openfiles[arg[p].other][arg[p].fd]] \in Args
        /\ {"clean", "decref"} \subseteq Labels
    <3>1. ft_openfiles[arg[p].other][arg[p].fd] \in Opens \cup {NULL}
      BY <2>1 DEF Shape
    <3>. QED  BY <1>a, <2>1, <3>1, ArgWith DEF Labels
  <2>3. pc' \in [Procs -> Labels] /\ arg' \in [Procs -> Args]
    BY <1>12, <2>2, StepShape DEF CleanTurn
  <2>. QED  BY <1>12, <2>3 DEF CleanTurn, Shape
<1>13. CASE Cleaned(p)
  BY <1>13, NoArgShape DEF Cleaned, Shape, Labels
<1>14. CASE Decref(p)
  <2>1. arg[p].file \in Opens
    BY <1>14 DEF Decref, AtHand, Dropping
  <2>2. CASE of[arg[p].file].refcount = 1
    BY <1>14, <1>a, <2>2, StepShape DEF Decref, Shape, Labels
  <2>3. CASE of[arg[p].file].refcount # 1
    <3>1. of' = [of EXCEPT ![arg[p].file] = [of[arg[p].file] EXCEPT !.refcount = of[arg[p].file].refcount - 1]]
      BY <1>14, <2>3 DEF Decref, Shape
    <3>2. [of[arg[p].file] EXCEPT !.refcount = of[arg[p].file].refcount - 1] \in Info
      <4>1. of[arg[p].file] \in Info
        BY <2>1 DEF Shape
      <4>2. of[arg[p].file].refcount - 1 \in Int
        BY <4>1, InfoParts
      <4>. QED  BY <4>1, <4>2, InfoWith
    <3>3. of' \in [Opens -> Info]
      BY <2>1, <3>1, <3>2, OfShape DEF Shape
    <3>. QED  BY <1>14, <2>3, <3>3, AfterDecrefShape DEF Decref, Shape, Dropping
  <2>. QED  BY <2>2, <2>3
<1>15. CASE Destroy(p)
  BY <1>15, AfterDecrefShape, NoArgShape DEF Destroy, Shape, Dropping
<1>16. CASE Place(p)
  <2>1. CASE FreeFDs(p) = {}
    BY <1>16, <1>a, <2>1, StepShape DEF Place, Shape, Labels
  <2>2. CASE FreeFDs(p) # {}
    <3>1. Min(FreeFDs(p)) \in FDs
      BY <1>b, <2>2, MinIn DEF FreeFDs, FDs
    <3>2. /\ ft_openfiles' = [ft_openfiles EXCEPT ![p][Min(FreeFDs(p))] = arg[p].file]
          /\ Return(p) /\ UNCHANGED <<of, content>>
      BY <1>16, <2>2 DEF Place
    <3>. HIDE DEF FDs
    <3>. QED  BY <1>a, <3>1, <3>2, ReturnShape DEF Shape
  <2>. QED  BY <2>1, <2>2
<1>17. CASE Dup2Place(p)
  BY <1>17, <1>a, PlaceAtShape DEF Dup2Place, AtHand
<1>18. CASE LockOffset(p)
  <2>1. arg[p].file \in Opens
    BY <1>18 DEF LockOffset, AtHand, Using
  <2>2. of' = [of EXCEPT ![arg[p].file] = [of[arg[p].file] EXCEPT !.offsetlock = p]]
    BY <1>18 DEF LockOffset, Shape
  <2>3. [of[arg[p].file] EXCEPT !.offsetlock = p] \in Info
    BY <2>1, InfoWith DEF Shape
  <2>4. [arg[p] EXCEPT !.pos = of[arg[p].file].offset] \in Args
    BY <1>a, <2>1, InfoParts, ArgWith DEF Shape
  <2>5. pc' \in [Procs -> Labels] /\ arg' \in [Procs -> Args]
    <3>1. (IF arg[p].rw = "seek" THEN "seek" ELSE "io") \in Labels
      BY DEF Labels
    <3>. QED  BY <1>18, <2>4, <3>1, StepShape DEF LockOffset
  <2>. QED  BY <1>18, <2>1, <2>2, <2>3, <2>5, OfShape DEF LockOffset, Shape
<1>19. CASE IOFails(p)
  <2>1. arg[p].file \in Opens /\ of[arg[p].file].offset \in 0..MaxSize
    BY <1>19, InfoParts DEF IOFails, AtHand, Using, Shape
  <2>. QED  BY <1>19, <2>1, UnlockShape DEF IOFails, Shape
<1>20. CASE ReadBytes(p)
  <2>. DEFINE left == Len(content[of[arg[p].file].vnode]) - arg[p].pos
              n(k) == Min({k, Max({left, 0})})
  <2>1. PICK k \in Lengths : Step(p, "unlock", [arg[p] EXCEPT !.pos = arg[p].pos + n(k)])
    BY <1>20 DEF ReadBytes
  <2>2. left \in Int /\ left + arg[p].pos <= MaxSize /\ k \in Nat
    <3>1. of[arg[p].file].vnode \in Files
      BY <1>20 DEF ReadBytes, UsesFile, Using
    <3>. QED  BY <1>a, <1>b, <3>1 DEF Shape
  <2>3. n(k) \in Nat /\ n(k) <= (IF left >= 0 THEN left ELSE 0)
    <3>1. Max({left, 0}) = IF left >= 0 THEN left ELSE 0
      BY <2>2, MaxOfTwo
    <3>2. n(k) = IF k <= Max({left, 0}) THEN k ELSE Max({left, 0})
      <4>1. Max({left, 0}) \in Int /\ k \in Int
        BY <2>2, <3>1
      <4>. HIDE DEF left
      <4>. QED  BY <4>1, MinOfTwo
    <3>. HIDE DEF left, n
    <3>. QED  BY <2>2, <3>1, <3>2
  <2>4. arg[p].pos + n(k) \in 0..MaxSize
    <3>. HIDE DEF left, n
    <3>. QED  BY <1>a, <1>b, <2>2, <2>3
  <2>5. [arg[p] EXCEPT !.pos = arg[p].pos + n(k)] \in Args /\ "unlock" \in Labels
    BY <1>a, <2>4, ArgWith DEF Labels
  <2>. QED  BY <1>20, <2>1, <2>5, StepShape DEF ReadBytes, Shape
<1>21. CASE WriteBytes(p)
  <2>. DEFINE v == of[arg[p].file].vnode
              bytes(k) == [i \in 1..k |-> p]
              w(k) == Overwrite(content[v], arg[p].pos, bytes(k))
  <2>1. PICK k \in Lengths :
          /\ arg[p].pos + k <= MaxSize
          /\ content' = [content EXCEPT ![v] = w(k)]
          /\ \/ Step(p, "unlock", [arg[p] EXCEPT !.pos = arg[p].pos + k]) /\ UNCHANGED of
             \/ Unlock(p, of[arg[p].file].offset)
    BY <1>21 DEF WriteBytes
  <2>2. v \in Files /\ arg[p].file \in Opens
    BY <1>21 DEF WriteBytes, UsesFile, AtHand, Using
  <2>3. w(k) \in Seq(Procs \cup {Zero}) /\ Len(w(k)) <= MaxSize
    <3>. DEFINE B == Procs \cup {Zero}
                old == content[v]
    <3>1. old \in Seq(B) /\ Len(old) <= MaxSize
      BY <2>2 DEF Shape
    <3>2. arg[p].pos \in Nat /\ k \in Nat
      BY <1>a, <1>b
    <3>3. Zero \in B /\ bytes(k) \in Seq(B) /\ Len(bytes(k)) = k
      BY <3>2
    <3>. HIDE DEF old, bytes, B
    <3>4. w(k) \in Seq(B) /\ Len(w(k)) = IF Len(old) >= arg[p].pos + k THEN Len(old) ELSE arg[p].pos + k
      <4>1. w(k) = Overwrite(old, arg[p].pos, bytes(k))
        BY DEF old
      <4>. HIDE DEF w
      <4>. QED  BY <3>1, <3>2, <3>3, <4>1, OverwriteType
    <3>5. w(k) \in Seq(B) /\ Len(w(k)) <= MaxSize
      BY <2>1, <3>1, <3>4
    <3>. QED  BY <3>5 DEF B
  <2>4. content' \in [Files -> Seq(Procs \cup {Zero})] /\ \A f \in Files : Len(content'[f]) <= MaxSize
    <3>. HIDE DEF v, w
    <3>. QED  BY <2>1, <2>2, <2>3 DEF Shape
  <2>5. of' \in [Opens -> Info] /\ pc' \in [Procs -> Labels] /\ arg' \in [Procs -> Args]
    <3>1. CASE Step(p, "unlock", [arg[p] EXCEPT !.pos = arg[p].pos + k]) /\ UNCHANGED of
      <4>1. arg[p].pos + k \in 0..MaxSize
        BY <1>a, <1>b, <2>1
      <4>2. [arg[p] EXCEPT !.pos = arg[p].pos + k] \in Args /\ "unlock" \in Labels
        BY <1>a, <4>1, ArgWith DEF Labels
      <4>. QED  BY <3>1, <4>2, StepShape DEF Shape
    <3>2. CASE Unlock(p, of[arg[p].file].offset)
      <4>1. of[arg[p].file].offset \in 0..MaxSize
        BY <2>2, InfoParts DEF Shape
      <4>. QED  BY <2>2, <3>2, <4>1, UnlockShape
    <3>. QED  BY <2>1, <3>1, <3>2
  <2>. QED  BY <1>21, <2>4, <2>5 DEF WriteBytes, Shape
<1>22. CASE SetOffset(p)
  <2>1. arg[p].file \in Opens
    BY <1>22 DEF SetOffset, AtHand, Using
  <2>. QED  BY <1>22, <1>a, <2>1, UnlockShape DEF SetOffset, Shape
<1>23. CASE Seek(p)
  <2>1. /\ arg[p].file \in Opens /\ of[arg[p].file].offset \in 0..MaxSize
        /\ of[arg[p].file].vnode \in Files
    BY <1>23, InfoParts DEF Seek, AtHand, UsesFile, Using, Shape
  <2>2. PICK base \in {0, of[arg[p].file].offset, Len(content[of[arg[p].file].vnode])}, offset \in {-1, 0, 1} :
          /\ base + offset <= MaxSize
          /\ Unlock(p, IF base + offset < 0 THEN of[arg[p].file].offset ELSE base + offset)
    BY <1>23 DEF Seek
  <2>3. base \in Int
    BY <2>1 DEF Shape
  <2>4. (IF base + offset < 0 THEN of[arg[p].file].offset ELSE base + offset) \in 0..MaxSize
    BY <1>b, <2>1, <2>2, <2>3
  <2>. QED  BY <1>23, <2>1, <2>2, <2>4, UnlockShape DEF Seek, Shape
<1>. QED  BY <1>1, <1>2, <1>3, <1>4, <1>5, <1>6, <1>7, <1>8, <1>9, <1>10, <1>11, <1>12, <1>13,
             <1>14, <1>15, <1>16, <1>17, <1>18, <1>19, <1>20, <1>21, <1>22, <1>23
             DEF Calls, Kernel

-----------------------------------------------------------------------------
(* What the steps with several outcomes do, cell by cell *)

\* No other process moves.
Alone(p) == \A q \in Procs \ {p} : pc'[q] = pc[q] /\ arg'[q] = arg[q]

\* One descriptor changes.
Set(p, fd, x) ==
  \A q \in Procs, d \in FDs :
    ft_openfiles'[q][d] = IF q = p /\ d = fd THEN x ELSE ft_openfiles[q][d]

\* A call or a loop is through with its file and returns.
Back(p) == pc'[p] = "run" /\ arg'[p] = NoArg

LEMMA SetCell ==
  ASSUME Shape, NEW p \in Procs, NEW fd \in FDs, NEW x,
         ft_openfiles' = [ft_openfiles EXCEPT ![p][fd] = x]
  PROVE  Set(p, fd, x)
BY DEF Shape, Set

LEMMA StepEffect ==
  ASSUME Shape, NEW p \in Procs, NEW place, NEW a, Step(p, place, a)
  PROVE  pc'[p] = place /\ arg'[p] = a /\ Alone(p)
BY DEF Shape, Step, Alone

\* What PlaceAt does: the reference that was there is dropped next.
Placed(p, new, fd) ==
  /\ Set(p, fd, new) /\ Alone(p) /\ UNCHANGED <<of, content>>
  /\ \/ ft_openfiles[p][fd] = NULL /\ Back(p)
     \/ /\ ft_openfiles[p][fd] \in Opens /\ pc'[p] = "decref"
        /\ arg'[p].file = ft_openfiles[p][fd] /\ arg'[p].other = NULL

LEMMA PlaceAtEffect ==
  ASSUME Control, NEW p \in Procs, NEW new, NEW fd \in FDs, PlaceAt(p, new, fd)
  PROVE  Placed(p, new, fd)
<1>1. Set(p, fd, new) /\ UNCHANGED <<of, content>>
  BY SetCell DEF PlaceAt, Control
<1>2. CASE ft_openfiles[p][fd] = NULL
  BY <1>1, <1>2, StepEffect DEF Placed, PlaceAt, Return, Back, Control
<1>3. CASE ft_openfiles[p][fd] # NULL
  <2>1. ft_openfiles[p][fd] \in Opens
    BY <1>3 DEF Control, Shape
  <2>2. /\ [NoArg EXCEPT !.file = ft_openfiles[p][fd]].file = ft_openfiles[p][fd]
        /\ [NoArg EXCEPT !.file = ft_openfiles[p][fd]].other = NULL
    BY DEF NoArg
  <2>3. pc'[p] = "decref" /\ arg'[p] = [NoArg EXCEPT !.file = ft_openfiles[p][fd]] /\ Alone(p)
    BY <1>3, StepEffect DEF PlaceAt, Control
  <2>. QED  BY <1>1, <2>1, <2>2, <2>3 DEF Placed
<1>. QED  BY <1>2, <1>3 DEF Placed

LEMMA CloseEffect ==
  ASSUME Control, NEW p \in Procs, Close(p) \/ Dup2Place(p)
  PROVE  /\ arg[p].other = NULL
         /\ \/ pc[p] = "run" /\ \E fd \in FDs : Placed(p, NULL, fd)
            \/ pc[p] = "dup" /\ arg[p].file \in Opens /\ arg[p].fd \in FDs /\ Placed(p, arg[p].file, arg[p].fd)
<1>1. pc[p] \in {"run", "dup"} => arg[p].other = NULL
  BY DEF Control, OwnTable, OnTable, Dropping
<1>2. pc[p] = "dup" => arg[p].file \in Opens /\ arg[p].fd \in FDs
  BY DEF Control, AtHand
<1>. QED  BY <1>1, <1>2, PlaceAtEffect DEF Close, Dup2Place

LEMMA AfterDecrefEffect ==
  ASSUME Control, NEW p \in Procs, pc[p] \in Dropping, AfterDecref(p)
  PROVE  /\ Alone(p)
         /\ \/ arg[p].other = NULL /\ UNCHANGED ft_openfiles /\ Back(p)
            \/ /\ arg[p].other \in Procs /\ arg[p].fd \in FDs
               /\ ft_openfiles[arg[p].other][arg[p].fd] = arg[p].file
               /\ Set(arg[p].other, arg[p].fd, NULL)
               /\ pc'[p] = "clean" /\ arg'[p].fd = arg[p].fd + 1
               /\ arg'[p].other = arg[p].other /\ arg'[p].file = NULL
<1>1. arg[p] \in Args
  BY DEF Control, Shape
<1>2. CASE arg[p].other = NULL
  BY <1>2, StepEffect DEF AfterDecref, Return, Back, Control
<1>3. CASE arg[p].other # NULL
  <2>. DEFINE a == [arg[p] EXCEPT !.fd = @ + 1, !.file = NULL]
  <2>1. /\ ft_openfiles' = [ft_openfiles EXCEPT ![arg[p].other][arg[p].fd] = NULL]
        /\ Step(p, "clean", a)
    BY <1>3 DEF AfterDecref
  <2>2. a.fd = arg[p].fd + 1 /\ a.other = arg[p].other /\ a.file = NULL
    BY <1>1 DEF Args
  <2>3. pc'[p] = "clean" /\ arg'[p] = a /\ Alone(p)
    <3>. HIDE DEF a
    <3>. QED  BY <2>1, StepEffect DEF Control
  <2>4. arg[p].other \in Procs
    BY <1>1, <1>3, ArgParts
  <2>5. arg[p].fd \in FDs /\ ft_openfiles[arg[p].other][arg[p].fd] = arg[p].file
    BY <2>4 DEF Control, AtHand
  <2>6. Set(arg[p].other, arg[p].fd, NULL)
    BY <2>1, <2>4, <2>5, SetCell DEF Control
  <2>. HIDE DEF a
  <2>. QED  BY <2>2, <2>3, <2>4, <2>5, <2>6
<1>. QED  BY <1>2, <1>3

LEMMA CleanTurnEffect ==
  ASSUME Control, NEW p \in Procs, CleanTurn(p)
  PROVE  /\ Alone(p) /\ UNCHANGED <<ft_openfiles, of, content>>
         /\ pc[p] = "clean" /\ arg[p].other \in Procs /\ arg[p].fd \in FDs
         /\ arg'[p].other = arg[p].other
         /\ \/ /\ ft_openfiles[arg[p].other][arg[p].fd] = NULL
               /\ pc'[p] = "clean" /\ arg'[p].fd = arg[p].fd + 1 /\ arg'[p].file = arg[p].file
            \/ /\ ft_openfiles[arg[p].other][arg[p].fd] \in Opens
               /\ pc'[p] = "decref" /\ arg'[p].fd = arg[p].fd
               /\ arg'[p].file = ft_openfiles[arg[p].other][arg[p].fd]
<1>. DEFINE x == ft_openfiles[arg[p].other][arg[p].fd]
<1>1. pc[p] = "clean" /\ arg[p] \in Args /\ arg[p].other \in Procs /\ arg[p].fd \in FDs
  BY ArgParts, OpenFilesAssumption DEF CleanTurn, Control, Shape, OwnTable, FDs, OpenFilesAssumption
<1>2. CASE x = NULL
  <2>. DEFINE a == [arg[p] EXCEPT !.fd = arg[p].fd + 1]
  <2>1. Step(p, "clean", a)
    BY <1>2 DEF CleanTurn
  <2>2. a.fd = arg[p].fd + 1 /\ a.other = arg[p].other /\ a.file = arg[p].file
    BY <1>1 DEF Args
  <2>. HIDE DEF a
  <2>3. pc'[p] = "clean" /\ arg'[p] = a /\ Alone(p)
    BY <2>1, StepEffect DEF Control
  <2>. QED  BY <1>1, <1>2, <2>2, <2>3 DEF CleanTurn
<1>3. CASE x # NULL
  <2>. DEFINE a == [arg[p] EXCEPT !.file = x]
  <2>1. Step(p, "decref", a)
    BY <1>3 DEF CleanTurn
  <2>2. a.fd = arg[p].fd /\ a.other = arg[p].other /\ a.file = x
    BY <1>1 DEF Args
  <2>3. x \in Opens
    BY <1>1, <1>3 DEF Control, Shape
  <2>. HIDE DEF a
  <2>4. pc'[p] = "decref" /\ arg'[p] = a /\ Alone(p)
    BY <2>1, StepEffect DEF Control
  <2>. QED  BY <1>1, <1>3, <2>2, <2>3, <2>4 DEF CleanTurn
<1>. QED  BY <1>2, <1>3

LEMMA PlaceEffect ==
  ASSUME Control, NEW p \in Procs, Place(p)
  PROVE  /\ Alone(p) /\ UNCHANGED <<of, content>>
         /\ pc[p] = "place" /\ arg[p].file \in Opens /\ arg[p].other = NULL
         /\ \/ UNCHANGED ft_openfiles /\ pc'[p] = "decref" /\ arg'[p] = arg[p]
            \/ /\ \E fd \in FDs : ft_openfiles[p][fd] = NULL /\ Set(p, fd, arg[p].file)
               /\ Back(p)
<1>1. pc[p] = "place" /\ arg[p].file \in Opens /\ arg[p].other = NULL /\ UNCHANGED <<of, content>>
  BY DEF Place, Control, AtHand, OwnTable, OnTable, Dropping
<1>2. CASE FreeFDs(p) = {}
  BY <1>1, <1>2, StepEffect DEF Place, Control
<1>3. CASE FreeFDs(p) # {}
  <2>1. Min(FreeFDs(p)) \in FreeFDs(p)
    <3>1. FDs \subseteq Nat
      BY OpenFilesAssumption DEF FDs, OpenFilesAssumption
    <3>2. FreeFDs(p) \in SUBSET Nat
      BY <3>1 DEF FreeFDs
    <3>. QED  BY <1>3, <3>2, MinIn
  <2>2. Set(p, Min(FreeFDs(p)), arg[p].file) /\ Return(p)
    BY <1>1, <1>3, <2>1, SetCell DEF Place, Control, FreeFDs
  <2>3. Back(p) /\ Alone(p)
    BY <2>2, StepEffect DEF Return, Back, Control
  <2>. QED  BY <1>1, <2>1, <2>2, <2>3 DEF FreeFDs
<1>. QED  BY <1>2, <1>3

LEMMA UnlockEffect ==
  ASSUME Control, NEW p \in Procs, arg[p].file \in Opens, NEW n, Unlock(p, n)
  PROVE  /\ Alone(p) /\ Back(p)
         /\ of'[arg[p].file] = [of[arg[p].file] EXCEPT !.offset = n, !.offsetlock = NULL]
         /\ \A o \in Opens \ {arg[p].file} : of'[o] = of[o]
BY StepEffect DEF Unlock, Return, Back, Control, Shape

\* The count of o goes up by n; no other count, no lock and no file changes.
Recount(o, n) ==
  \A x \in Opens :
    /\ of'[x].refcount = of[x].refcount + (IF x = o THEN n ELSE 0)
    /\ of'[x].offsetlock = of[x].offsetlock /\ of'[x].vnode = of[x].vnode

\* The lock of o becomes t's; no count and no file changes.
Relock(o, t) ==
  \A x \in Opens :
    /\ of'[x].refcount = of[x].refcount /\ of'[x].vnode = of[x].vnode
    /\ of'[x].offsetlock = IF x = o THEN t ELSE of[x].offsetlock

LEMMA RecountEffect ==
  ASSUME Shape, NEW o \in Opens
  PROVE  /\ incref(o) => Recount(o, 1)
         /\ of' = [of EXCEPT ![o] = [of[o] EXCEPT !.refcount = of[o].refcount - 1]] => Recount(o, -1)
<1>1. \A x \in Opens : of[x] \in Info /\ of[x].refcount \in Int
  BY InfoParts DEF Shape
<1>2. ASSUME NEW y \in Info, NEW n
      PROVE  /\ [y EXCEPT !.refcount = n].refcount = n
             /\ [y EXCEPT !.refcount = n].offsetlock = y.offsetlock
             /\ [y EXCEPT !.refcount = n].vnode = y.vnode
  BY DEF Info
<1>3. ASSUME NEW n, of' = [of EXCEPT ![o] = [of[o] EXCEPT !.refcount = n]]
      PROVE  \A x \in Opens :
               /\ of'[x].refcount = IF x = o THEN n ELSE of[x].refcount
               /\ of'[x].offsetlock = of[x].offsetlock /\ of'[x].vnode = of[x].vnode
  <2>1. PICK y \in Info : y = of[o]
    BY <1>1
  <2>2. of'[o] = [y EXCEPT !.refcount = n] /\ \A x \in Opens \ {o} : of'[x] = of[x]
    BY <1>3, <2>1 DEF Shape
  <2>3. of'[o].refcount = n /\ of'[o].offsetlock = y.offsetlock /\ of'[o].vnode = y.vnode
    BY <1>2, <2>2
  <2>. QED  BY <2>1, <2>2, <2>3
<1>4. ASSUME NEW k \in Int,
             of' = [of EXCEPT ![o] = [of[o] EXCEPT !.refcount = of[o].refcount + k]]
      PROVE  Recount(o, k)
  <2>1. PICK n \in Int : n = of[o].refcount + k
    BY <1>1
  <2>2. of' = [of EXCEPT ![o] = [of[o] EXCEPT !.refcount = n]]
    BY <1>4, <2>1
  <2>3. \A x \in Opens :
          /\ of'[x].refcount = IF x = o THEN n ELSE of[x].refcount
          /\ of'[x].offsetlock = of[x].offsetlock /\ of'[x].vnode = of[x].vnode
    BY <1>3, <2>2
  <2>. QED  BY <1>1, <2>1, <2>3 DEF Recount
<1>5. ASSUME incref(o)
      PROVE  Recount(o, 1)
  <2>1. PICK k \in Int : k = 1
    OBVIOUS
  <2>2. of' = [of EXCEPT ![o] = [of[o] EXCEPT !.refcount = of[o].refcount + k]]
    BY <1>5, <2>1 DEF incref, Shape
  <2>3. Recount(o, k)
    BY <1>4, <2>2
  <2>. QED  BY <2>1, <2>3
<1>6. ASSUME of' = [of EXCEPT ![o] = [of[o] EXCEPT !.refcount = of[o].refcount - 1]]
      PROVE  Recount(o, -1)
  <2>1. PICK k \in Int : k = -1
    OBVIOUS
  <2>2. of' = [of EXCEPT ![o] = [of[o] EXCEPT !.refcount = of[o].refcount + k]]
    <3>1. of[o].refcount - 1 = of[o].refcount + k
      BY <1>1, <2>1
    <3>. QED  BY <1>6, <3>1
  <2>3. Recount(o, k)
    BY <1>4, <2>2
  <2>. QED  BY <2>1, <2>3
<1>. QED  BY <1>5, <1>6

LEMMA UnlockRelock ==
  ASSUME Control, NEW p \in Procs, arg[p].file \in Opens, NEW n, Unlock(p, n)
  PROVE  Relock(arg[p].file, NULL)
<1>1. \A x \in Opens : of[x] \in Info
  BY DEF Control, Shape
<1>2. ASSUME NEW x \in Info
      PROVE  /\ [x EXCEPT !.offset = n, !.offsetlock = NULL].refcount = x.refcount
             /\ [x EXCEPT !.offset = n, !.offsetlock = NULL].vnode = x.vnode
             /\ [x EXCEPT !.offset = n, !.offsetlock = NULL].offsetlock = NULL
  BY DEF Info
<1>3. /\ of'[arg[p].file].refcount = of[arg[p].file].refcount
      /\ of'[arg[p].file].vnode = of[arg[p].file].vnode
      /\ of'[arg[p].file].offsetlock = NULL
  <2>1. PICK x \in Info : x = of[arg[p].file]
    BY <1>1
  <2>2. of'[arg[p].file] = [x EXCEPT !.offset = n, !.offsetlock = NULL]
    BY <2>1, UnlockEffect
  <2>. QED  BY <1>2, <2>1, <2>2
<1>. QED  BY <1>3, UnlockEffect DEF Relock

LEMMA ForkEffect ==
  ASSUME Control, NEW p \in Procs, Fork(p)
  PROVE  /\ UNCHANGED <<ft_openfiles, of, content>>
         /\ pc[p] = "run" /\ pc'[p] = "copy" /\ arg'[p].fd = 0 /\ arg[p].other = NULL
         /\ \E q \in Procs \ {p} :
              /\ pc[q] = "none" /\ pc'[q] = "born" /\ arg'[p].other = q /\ arg[q].other = NULL
              /\ \A r \in Procs \ {p} : arg'[r] = arg[r] /\ (r # q => pc'[r] = pc[r])
<1>1. PICK q \in Procs : /\ pc[p] = "run" /\ pc[q] = "none"
                         /\ pc' = [pc EXCEPT ![p] = "copy", ![q] = "born"]
                         /\ arg' = [arg EXCEPT ![p] = [NoArg EXCEPT !.other = q]]
  BY DEF Fork
<1>2. [NoArg EXCEPT !.other = q].other = q /\ [NoArg EXCEPT !.other = q].fd = 0
  BY DEF NoArg
<1>3. arg[p].other = NULL /\ arg[q].other = NULL
  BY <1>1 DEF Control, OwnTable, OnTable, Dropping
<1>. QED  BY <1>1, <1>2, <1>3 DEF Fork, Control, Shape

LEMMA CopyTurnEffect ==
  ASSUME Control, NEW p \in Procs, CopyTurn(p)
  PROVE  /\ UNCHANGED <<pc, content>> /\ Alone(p)
         /\ pc[p] = "copy" /\ arg[p].other \in Procs \ {p} /\ pc[arg[p].other] = "born" /\ arg[p].fd \in FDs
         /\ ft_openfiles[arg[p].other][arg[p].fd] = NULL
         /\ Set(arg[p].other, arg[p].fd, ft_openfiles[p][arg[p].fd])
         /\ arg'[p].fd = arg[p].fd + 1 /\ arg'[p].other = arg[p].other
         /\ \/ ft_openfiles[p][arg[p].fd] = NULL /\ UNCHANGED of
            \/ ft_openfiles[p][arg[p].fd] \in Opens /\ Recount(ft_openfiles[p][arg[p].fd], 1)
<1>1. /\ pc[p] = "copy" /\ UNCHANGED <<pc, content>> /\ arg[p] \in Args
      /\ arg[p].other \in Procs \ {p} /\ pc[arg[p].other] = "born"
  BY DEF CopyTurn, Control, Shape, OwnTable
<1>2. arg[p].fd \in FDs
  BY <1>1, ArgParts, OpenFilesAssumption DEF CopyTurn, FDs, OpenFilesAssumption
<1>3. ft_openfiles[arg[p].other][arg[p].fd] = NULL
  BY <1>1, <1>2, OpenFilesAssumption DEF Control, TablesClear, FDs, OpenFilesAssumption
<1>4. Set(arg[p].other, arg[p].fd, ft_openfiles[p][arg[p].fd])
  BY <1>1, <1>2, SetCell DEF CopyTurn, Control
<1>5. arg'[p].fd = arg[p].fd + 1 /\ arg'[p].other = arg[p].other /\ Alone(p)
  <2>1. arg' = [arg EXCEPT ![p] = [arg[p] EXCEPT !.fd = arg[p].fd + 1]]
    BY DEF CopyTurn, Control, Shape
  <2>2. /\ [arg[p] EXCEPT !.fd = arg[p].fd + 1].fd = arg[p].fd + 1
        /\ [arg[p] EXCEPT !.fd = arg[p].fd + 1].other = arg[p].other
    BY <1>1 DEF Args
  <2>. QED  BY <1>1, <2>1, <2>2 DEF Alone, Control, Shape
<1>6. CASE ft_openfiles[p][arg[p].fd] = NULL
  BY <1>1, <1>2, <1>3, <1>4, <1>5, <1>6 DEF CopyTurn
<1>7. CASE ft_openfiles[p][arg[p].fd] # NULL
  <2>1. ft_openfiles[p][arg[p].fd] \in Opens
    BY <1>2, <1>7 DEF Control, Shape
  <2>2. Recount(ft_openfiles[p][arg[p].fd], 1)
    <3>1. incref(ft_openfiles[p][arg[p].fd])
      BY <1>7 DEF CopyTurn
    <3>. QED  BY <2>1, <3>1, RecountEffect DEF Control
  <2>. QED  BY <1>1, <1>2, <1>3, <1>4, <1>5, <2>1, <2>2
<1>. QED  BY <1>6, <1>7

LEMMA ForkedEffect ==
  ASSUME Control, NEW p \in Procs, Forked(p)
  PROVE  /\ UNCHANGED <<ft_openfiles, of, content>>
         /\ pc[p] = "copy" /\ Back(p)
         /\ \E q \in Procs \ {p} :
              /\ arg[p].other = q /\ pc[q] = "born" /\ pc'[q] = "run" /\ arg[q].other = NULL
              /\ \A r \in Procs \ {p} : arg'[r] = arg[r] /\ (r # q => pc'[r] = pc[r])
<1>1. pc[p] = "copy" /\ arg[p].other \in Procs \ {p} /\ pc[arg[p].other] = "born"
  BY DEF Forked, Control, OwnTable
<1>2. arg[arg[p].other].other = NULL
  BY <1>1 DEF Control, OwnTable, OnTable, Dropping
<1>. QED  BY <1>1, <1>2 DEF Forked, Control, Shape, Back

LEMMA CleanedEffect ==
  ASSUME Control, NEW p \in Procs, Cleaned(p)
  PROVE  /\ UNCHANGED <<ft_openfiles, of, content>> /\ pc[p] = "clean" /\ arg'[p] = NoArg
         /\ arg[p].other \in Procs /\ \A d \in FDs : ft_openfiles[arg[p].other][d] = NULL
         /\ pc'[p] \in {"none", "run"} /\ (pc'[p] = "none" => arg[p].other = p)
         /\ \A r \in Procs \ {p} :
              /\ arg'[r] = arg[r]
              /\ IF r = arg[p].other THEN pc[r] = "born" /\ pc'[r] = "none" ELSE pc'[r] = pc[r]
<1>1. pc[p] = "clean" /\ arg[p].fd = OPEN_MAX /\ arg[p].other \in Procs
  BY DEF Cleaned, Control, OwnTable
<1>2. \A d \in FDs : ft_openfiles[arg[p].other][d] = NULL
  BY <1>1, OpenFilesAssumption DEF Control, TablesClear, OnTable, Dropping, FDs, OpenFilesAssumption
<1>3. \A r \in Procs \ {p} : r = arg[p].other => pc[r] = "born"
  BY <1>1 DEF Control, OwnTable
<1>. QED  BY <1>1, <1>2, <1>3 DEF Cleaned, Control, Shape

LEMMA DecrefEffect ==
  ASSUME Control, NEW p \in Procs, Decref(p)
  PROVE  /\ pc[p] = "decref" /\ arg[p].file \in Opens /\ UNCHANGED content
         /\ \/ /\ of[arg[p].file].refcount = 1 /\ UNCHANGED <<ft_openfiles, of>>
               /\ pc'[p] = "destroy" /\ arg'[p] = arg[p] /\ Alone(p)
            \/ of[arg[p].file].refcount # 1 /\ Recount(arg[p].file, -1) /\ AfterDecref(p)
<1>1. pc[p] = "decref" /\ arg[p].file \in Opens /\ UNCHANGED content
  BY DEF Decref, Control, AtHand, Dropping
<1>2. CASE of[arg[p].file].refcount = 1
  BY <1>1, <1>2, StepEffect DEF Decref, Control
<1>3. CASE of[arg[p].file].refcount # 1
  <2>1. of' = [of EXCEPT ![arg[p].file] = [of[arg[p].file] EXCEPT !.refcount = of[arg[p].file].refcount - 1]]
        /\ AfterDecref(p)
    BY <1>1, <1>3 DEF Decref, Control, Shape
  <2>3. Recount(arg[p].file, -1)
    BY <1>1, <2>1, RecountEffect DEF Control
  <2>. QED  BY <1>1, <1>3, <2>1, <2>3
<1>. QED  BY <1>2, <1>3

LEMMA WriteBytesEffect ==
  ASSUME Control, NEW p \in Procs, WriteBytes(p)
  PROVE  /\ UNCHANGED ft_openfiles /\ pc[p] = "io" /\ Alone(p)
         /\ \/ /\ UNCHANGED of /\ pc'[p] = "unlock"
               /\ arg'[p].file = arg[p].file /\ arg'[p].fd = arg[p].fd /\ arg'[p].other = arg[p].other
            \/ Back(p) /\ Relock(arg[p].file, NULL)
<1>1. pc[p] = "io" /\ UNCHANGED ft_openfiles /\ arg[p] \in Args /\ arg[p].file \in Opens
  BY DEF WriteBytes, Control, Shape, AtHand, Using
<1>2. PICK k \in Lengths :
        \/ Step(p, "unlock", [arg[p] EXCEPT !.pos = arg[p].pos + k]) /\ UNCHANGED of
        \/ Unlock(p, of[arg[p].file].offset)
  BY DEF WriteBytes
<1>3. CASE Step(p, "unlock", [arg[p] EXCEPT !.pos = arg[p].pos + k]) /\ UNCHANGED of
  <2>. DEFINE a == [arg[p] EXCEPT !.pos = arg[p].pos + k]
  <2>1. a.file = arg[p].file /\ a.fd = arg[p].fd /\ a.other = arg[p].other
    BY <1>1 DEF Args
  <2>. HIDE DEF a
  <2>2. Step(p, "unlock", a) /\ UNCHANGED of
    BY <1>3 DEF a
  <2>. QED  BY <1>1, <2>1, <2>2, StepEffect DEF Control
<1>4. CASE Unlock(p, of[arg[p].file].offset)
  BY <1>1, <1>4, UnlockEffect, UnlockRelock
<1>. QED  BY <1>2, <1>3, <1>4

\* The variables of a call that a step of it keeps.
SameCall(p) == arg'[p].file = arg[p].file /\ arg'[p].fd = arg[p].fd /\ arg'[p].other = arg[p].other

LEMMA StartEffect ==
  ASSUME Control, NEW p \in Procs
  PROVE  /\ Runprogram(p) => Alone(p) /\ pc[p] = "none" /\ Back(p) /\ UNCHANGED <<ft_openfiles, of>>
         /\ Exit(p) => /\ Alone(p) /\ pc[p] = "run" /\ pc'[p] = "clean" /\ UNCHANGED <<ft_openfiles, of>>
                       /\ arg'[p].fd = 0 /\ arg'[p].other = p
         /\ ForkFails(p) => /\ Alone(p) /\ pc[p] = "copy" /\ pc'[p] = "clean" /\ UNCHANGED <<ft_openfiles, of>>
                            /\ arg'[p].fd = 0 /\ arg'[p].other = arg[p].other
<1>1. ASSUME Runprogram(p)
      PROVE  Alone(p) /\ pc[p] = "none" /\ Back(p) /\ UNCHANGED <<ft_openfiles, of>>
  BY <1>1, StepEffect DEF Runprogram, Return, Back, Control
<1>2. ASSUME Exit(p)
      PROVE  /\ Alone(p) /\ pc[p] = "run" /\ pc'[p] = "clean" /\ UNCHANGED <<ft_openfiles, of>>
             /\ arg'[p].fd = 0 /\ arg'[p].other = p
  <2>1. [NoArg EXCEPT !.other = p].fd = 0 /\ [NoArg EXCEPT !.other = p].other = p
    BY DEF NoArg
  <2>. QED  BY <1>2, <2>1, StepEffect DEF Exit, Control
<1>3. ASSUME ForkFails(p)
      PROVE  /\ Alone(p) /\ pc[p] = "copy" /\ pc'[p] = "clean" /\ UNCHANGED <<ft_openfiles, of>>
             /\ arg'[p].fd = 0 /\ arg'[p].other = arg[p].other
  <2>. DEFINE a == [arg[p] EXCEPT !.fd = 0]
  <2>1. a.fd = 0 /\ a.other = arg[p].other
    BY DEF Control, Shape, Args
  <2>2. Step(p, "clean", a)
    BY <1>3 DEF ForkFails
  <2>. HIDE DEF a
  <2>3. Alone(p) /\ pc'[p] = "clean" /\ arg'[p] = a
    BY <2>2, StepEffect DEF Control
  <2>. QED  BY <1>3, <2>1, <2>3 DEF ForkFails
<1>. QED  BY <1>1, <1>2, <1>3

LEMMA OpenFileEffect ==
  ASSUME Control, NEW p \in Procs, OpenFile(p)
  PROVE  /\ Alone(p) /\ pc[p] = "run" /\ UNCHANGED ft_openfiles
         /\ pc'[p] = "place" /\ arg'[p].other = NULL /\ arg'[p].file \in Opens
         /\ LET o == arg'[p].file
            IN /\ of[o].refcount = 0 /\ of'[o].refcount = 1
               /\ of'[o].offsetlock = NULL /\ of'[o].vnode \in Files
               /\ \A x \in Opens \ {o} : of'[x] = of[x]
<1>1. PICK o \in Opens, v \in Files, m \in Modes :
        /\ of[o].refcount = 0
        /\ of' = [of EXCEPT ![o] = [Freed EXCEPT !.vnode = v, !.accmode = m, !.refcount = 1]]
        /\ Step(p, "place", [NoArg EXCEPT !.file = o])
  BY DEF OpenFile
<1>2. [NoArg EXCEPT !.file = o].file = o /\ [NoArg EXCEPT !.file = o].other = NULL
  BY DEF NoArg
<1>3. of'[o] = [vnode |-> v, accmode |-> m, offset |-> 0, refcount |-> 1, offsetlock |-> NULL]
  BY <1>1 DEF Freed, Control, Shape
<1>4. \A x \in Opens \ {o} : of'[x] = of[x]
  BY <1>1 DEF Control, Shape
<1>5. Alone(p) /\ pc'[p] = "place" /\ arg'[p] = [NoArg EXCEPT !.file = o]
  BY <1>1, StepEffect DEF Control
<1>6. arg'[p].file = o /\ arg'[p].other = NULL /\ pc[p] = "run" /\ UNCHANGED ft_openfiles
  BY <1>2, <1>5 DEF OpenFile
<1>7. of'[o].refcount = 1 /\ of'[o].offsetlock = NULL /\ of'[o].vnode \in Files
  BY <1>3
<1>. QED  BY <1>1, <1>4, <1>5, <1>6, <1>7

LEMMA Dup2Effect ==
  ASSUME Control, NEW p \in Procs, Dup2(p)
  PROVE  /\ Alone(p) /\ pc[p] = "run" /\ UNCHANGED ft_openfiles
         /\ pc'[p] = "dup" /\ arg'[p].other = NULL /\ arg'[p].fd \in FDs
         /\ \E d \in FDs : ft_openfiles[p][d] = arg'[p].file
         /\ arg'[p].file \in Opens /\ Recount(arg'[p].file, 1)
<1>1. PICK old \in FDs, new \in FDs :
        /\ ft_openfiles[p][old] # NULL /\ incref(ft_openfiles[p][old])
        /\ Step(p, "dup", [NoArg EXCEPT !.file = ft_openfiles[p][old], !.fd = new])
  BY DEF Dup2
<1>2. ft_openfiles[p][old] \in Opens
  BY <1>1 DEF Control, Shape
<1>. DEFINE o == ft_openfiles[p][old]
            a == [NoArg EXCEPT !.file = o, !.fd = new]
<1>3. a.file = o /\ a.fd = new /\ a.other = NULL
  BY DEF NoArg
<1>. HIDE DEF a
<1>4. Alone(p) /\ pc'[p] = "dup" /\ arg'[p] = a
  <2>1. Step(p, "dup", a)
    BY <1>1 DEF a
  <2>. QED  BY <2>1, StepEffect DEF Control
<1>5. Recount(o, 1)
  BY <1>1, <1>2, RecountEffect DEF Control
<1>. QED  BY <1>2, <1>3, <1>4, <1>5 DEF Dup2

LEMMA TransferEffect ==
  ASSUME Control, NEW p \in Procs, Transfer(p)
  PROVE  /\ Alone(p) /\ pc[p] = "run" /\ UNCHANGED <<ft_openfiles, of>>
         /\ pc'[p] = "lock" /\ arg'[p].other = NULL /\ arg'[p].fd \in FDs
         /\ arg'[p].file \in Opens /\ ft_openfiles[p][arg'[p].fd] = arg'[p].file
<1>1. PICK fd \in FDs, rw \in {"r", "w", "seek"} :
        /\ ft_openfiles[p][fd] # NULL
        /\ Step(p, "lock", [NoArg EXCEPT !.file = ft_openfiles[p][fd], !.fd = fd, !.rw = rw])
  BY DEF Transfer
<1>2. ft_openfiles[p][fd] \in Opens
  BY <1>1 DEF Control, Shape
<1>. DEFINE o == ft_openfiles[p][fd]
            a == [NoArg EXCEPT !.file = o, !.fd = fd, !.rw = rw]
<1>3. a.file = o /\ a.fd = fd /\ a.other = NULL
  BY DEF NoArg
<1>. HIDE DEF a
<1>4. Alone(p) /\ pc'[p] = "lock" /\ arg'[p] = a
  <2>1. Step(p, "lock", a)
    BY <1>1 DEF a
  <2>. QED  BY <2>1, StepEffect DEF Control
<1>. QED  BY <1>2, <1>3, <1>4 DEF Transfer

LEMMA DestroyEffect ==
  ASSUME Control, NEW p \in Procs, Destroy(p)
  PROVE  /\ pc[p] = "destroy" /\ arg[p].file \in Opens /\ AfterDecref(p)
         /\ LET o == arg[p].file
            IN of'[o] = Freed /\ \A x \in Opens \ {o} : of'[x] = of[x]
BY DEF Destroy, Control, Shape, AtHand, Dropping

LEMMA LockOffsetEffect ==
  ASSUME Control, NEW p \in Procs, LockOffset(p)
  PROVE  /\ Alone(p) /\ pc[p] = "lock" /\ pc'[p] \in {"io", "seek"} /\ UNCHANGED ft_openfiles
         /\ SameCall(p) /\ of[arg[p].file].offsetlock = NULL /\ Relock(arg[p].file, p)
<1>. DEFINE o == arg[p].file
            a == [arg[p] EXCEPT !.pos = of[o].offset]
            place == IF arg[p].rw = "seek" THEN "seek" ELSE "io"
<1>1. pc[p] = "lock" /\ o \in Opens /\ of[o].offsetlock = NULL /\ UNCHANGED ft_openfiles
  BY DEF LockOffset, Control, AtHand, Using
<1>2. a.file = o /\ a.fd = arg[p].fd /\ a.other = arg[p].other
  BY DEF Control, Shape, Args
<1>3. Alone(p) /\ pc'[p] = place /\ arg'[p] = a
  <2>1. Step(p, place, a)
    BY DEF LockOffset
  <2>. HIDE DEF a, place
  <2>. QED  BY <2>1, StepEffect DEF Control
<1>4. Relock(o, p)
  <2>1. PICK y \in Info : y = of[o]
    BY <1>1 DEF Control, Shape
  <2>2. of'[o] = [y EXCEPT !.offsetlock = p] /\ \A x \in Opens \ {o} : of'[x] = of[x]
    BY <1>1, <2>1 DEF LockOffset, Control, Shape
  <2>3. /\ [y EXCEPT !.offsetlock = p].refcount = y.refcount
        /\ [y EXCEPT !.offsetlock = p].vnode = y.vnode
        /\ [y EXCEPT !.offsetlock = p].offsetlock = p
    BY DEF Info
  <2>. QED  BY <2>1, <2>2, <2>3 DEF Relock
<1>. QED  BY <1>1, <1>2, <1>3, <1>4 DEF SameCall

LEMMA ReadBytesEffect ==
  ASSUME Control, NEW p \in Procs, ReadBytes(p)
  PROVE  /\ Alone(p) /\ pc[p] = "io" /\ pc'[p] = "unlock" /\ UNCHANGED <<ft_openfiles, of>>
         /\ SameCall(p)
<1>1. PICK n : Step(p, "unlock", [arg[p] EXCEPT !.pos = n])
  BY DEF ReadBytes
<1>. DEFINE a == [arg[p] EXCEPT !.pos = n]
<1>2. a.file = arg[p].file /\ a.fd = arg[p].fd /\ a.other = arg[p].other
  BY DEF Control, Shape, Args
<1>3. Alone(p) /\ pc'[p] = "unlock" /\ arg'[p] = a
  <2>1. Step(p, "unlock", a)
    BY <1>1
  <2>. HIDE DEF a
  <2>. QED  BY <2>1, StepEffect DEF Control
<1>. HIDE DEF a
<1>. QED  BY <1>2, <1>3 DEF ReadBytes, SameCall

LEMMA FinishEffect ==
  ASSUME Control, NEW p \in Procs, IOFails(p) \/ SetOffset(p) \/ Seek(p)
  PROVE  /\ Alone(p) /\ Back(p) /\ pc[p] \in Using /\ UNCHANGED ft_openfiles
         /\ Relock(arg[p].file, NULL)
<1>1. pc[p] \in Using /\ UNCHANGED ft_openfiles /\ \E n : Unlock(p, n)
  BY DEF IOFails, SetOffset, Seek, Using
<1>2. arg[p].file \in Opens
  BY <1>1 DEF Control, AtHand
<1>. QED  BY <1>1, <1>2, UnlockEffect, UnlockRelock

-----------------------------------------------------------------------------
(* Each step keeps the parts of Control *)

LEMMA OwnTableStep ==
  ASSUME Control, NEW p \in Procs, Calls(p) \/ Kernel(p)
  PROVE  OwnTable'
<1>a. OwnTable /\ NULL \notin Procs
  BY OpenFilesAssumption DEF Control, OpenFilesAssumption
<1>1. CASE Runprogram(p)
  BY <1>a, <1>1, StartEffect DEF OwnTable, OnTable, Dropping, Alone, Back, NoArg
<1>2. CASE Fork(p)
  BY <1>a, <1>2, ForkEffect DEF OwnTable, OnTable, Dropping
<1>3. CASE Exit(p)
  BY <1>a, <1>3, StartEffect DEF OwnTable, OnTable, Dropping, Alone
<1>4. CASE OpenFile(p)
  BY <1>a, <1>4, OpenFileEffect DEF OwnTable, OnTable, Dropping, Alone
<1>5. CASE OpenFails(p)
  BY <1>a, <1>5 DEF OwnTable, OpenFails, OnTable, Dropping
<1>6. CASE Close(p) \/ Dup2Place(p)
  BY <1>a, <1>6, CloseEffect DEF OwnTable, Placed, OnTable, Dropping, Alone, Back, NoArg
<1>7. CASE Dup2(p)
  BY <1>a, <1>7, Dup2Effect DEF OwnTable, OnTable, Dropping, Alone
<1>8. CASE Transfer(p)
  BY <1>a, <1>8, TransferEffect DEF OwnTable, OnTable, Dropping, Alone
<1>9. CASE CopyTurn(p)
  BY <1>a, <1>9, CopyTurnEffect DEF OwnTable, OnTable, Dropping, Alone
<1>10. CASE Forked(p)
  BY <1>a, <1>10, ForkedEffect DEF OwnTable, OnTable, Dropping, Back, NoArg
<1>11. CASE ForkFails(p)
  BY <1>a, <1>11, StartEffect DEF OwnTable, OnTable, Dropping, Alone
<1>12. CASE CleanTurn(p)
  BY <1>a, <1>12, CleanTurnEffect DEF OwnTable, OnTable, Dropping, Alone
<1>13. CASE Cleaned(p)
  BY <1>a, <1>13, CleanedEffect DEF OwnTable, OnTable, Dropping, NoArg
<1>14. CASE Decref(p)
  BY <1>a, <1>14, DecrefEffect, AfterDecrefEffect
     DEF OwnTable, OnTable, Dropping, Alone, Back, NoArg
<1>15. CASE Destroy(p)
  BY <1>a, <1>15, DestroyEffect, AfterDecrefEffect
     DEF OwnTable, OnTable, Dropping, Alone, Back, NoArg
<1>16. CASE Place(p)
  BY <1>a, <1>16, PlaceEffect DEF OwnTable, OnTable, Dropping, Alone, Back, NoArg
<1>17. CASE LockOffset(p)
  BY <1>a, <1>17, LockOffsetEffect DEF OwnTable, OnTable, Dropping, Alone, SameCall
<1>18. CASE ReadBytes(p)
  BY <1>a, <1>18, ReadBytesEffect DEF OwnTable, OnTable, Dropping, Alone, SameCall
<1>19. CASE WriteBytes(p)
  BY <1>a, <1>19, WriteBytesEffect DEF OwnTable, OnTable, Dropping, Alone, Back, NoArg
<1>20. CASE IOFails(p) \/ SetOffset(p) \/ Seek(p)
  BY <1>a, <1>20, FinishEffect DEF OwnTable, OnTable, Dropping, Using, Alone, Back, NoArg
<1>. QED  BY <1>1, <1>2, <1>3, <1>4, <1>5, <1>6, <1>7, <1>8, <1>9, <1>10, <1>11, <1>12, <1>13,
             <1>14, <1>15, <1>16, <1>17, <1>18, <1>19, <1>20
             DEF Calls, Kernel

LEMMA LockStep ==
  ASSUME Control, NEW p \in Procs, Calls(p) \/ Kernel(p)
  PROVE  LockGivenBack'
<1>a. /\ LockGivenBack /\ NULL \notin Procs
      /\ \A o \in Opens : of[o].offsetlock \in Procs \cup {NULL}
  BY InfoParts, OpenFilesAssumption DEF Control, Shape, OpenFilesAssumption
<1>1. CASE Runprogram(p)
  BY <1>a, <1>1, StartEffect DEF LockGivenBack, Alone, Back
<1>2. CASE Fork(p)
  BY <1>a, <1>2, ForkEffect DEF LockGivenBack
<1>3. CASE Exit(p)
  BY <1>a, <1>3, StartEffect DEF LockGivenBack, Alone
<1>4. CASE OpenFile(p)
  BY <1>a, <1>4, OpenFileEffect DEF LockGivenBack, Alone
<1>5. CASE OpenFails(p)
  BY <1>a, <1>5 DEF LockGivenBack, OpenFails
<1>6. CASE Close(p) \/ Dup2Place(p)
  BY <1>a, <1>6, CloseEffect DEF LockGivenBack, Placed, Alone, Back
<1>7. CASE Dup2(p)
  BY <1>a, <1>7, Dup2Effect DEF LockGivenBack, Alone, Recount
<1>8. CASE Transfer(p)
  BY <1>a, <1>8, TransferEffect DEF LockGivenBack, Alone
<1>9. CASE CopyTurn(p)
  BY <1>a, <1>9, CopyTurnEffect DEF LockGivenBack, Alone, Recount
<1>10. CASE Forked(p)
  BY <1>a, <1>10, ForkedEffect DEF LockGivenBack, Back
<1>11. CASE ForkFails(p)
  BY <1>a, <1>11, StartEffect DEF LockGivenBack, Alone
<1>12. CASE CleanTurn(p)
  BY <1>a, <1>12, CleanTurnEffect DEF LockGivenBack, Alone
<1>13. CASE Cleaned(p)
  BY <1>a, <1>13, CleanedEffect DEF LockGivenBack
<1>14. CASE Decref(p)
  BY <1>a, <1>14, DecrefEffect, AfterDecrefEffect DEF LockGivenBack, Alone, Back, Recount, Dropping
<1>15. CASE Destroy(p)
  BY <1>a, <1>15, DestroyEffect, AfterDecrefEffect DEF LockGivenBack, Freed, Alone, Back, Dropping
<1>16. CASE Place(p)
  BY <1>a, <1>16, PlaceEffect DEF LockGivenBack, Alone, Back
<1>17. CASE LockOffset(p)
  BY <1>a, <1>17, LockOffsetEffect DEF LockGivenBack, Alone, SameCall, Relock
<1>18. CASE ReadBytes(p)
  BY <1>a, <1>18, ReadBytesEffect DEF LockGivenBack, Alone, SameCall
<1>19. CASE WriteBytes(p)
  BY <1>a, <1>19, WriteBytesEffect DEF LockGivenBack, Alone, Back, Relock
<1>20. CASE IOFails(p) \/ SetOffset(p) \/ Seek(p)
  BY <1>a, <1>20, FinishEffect DEF LockGivenBack, Alone, Back, Relock, Using
<1>. QED  BY <1>1, <1>2, <1>3, <1>4, <1>5, <1>6, <1>7, <1>8, <1>9, <1>10, <1>11, <1>12, <1>13,
             <1>14, <1>15, <1>16, <1>17, <1>18, <1>19, <1>20
             DEF Calls, Kernel

LEMMA FileStaysStep ==
  ASSUME Control, NEW p \in Procs, Calls(p) \/ Kernel(p)
  PROVE  FileStays'
<1>a. /\ FileStays
      /\ \A q \in Procs : /\ pc[q] \in Using => arg[q].fd \in FDs
                          /\ arg[q].other \in Procs \ {q} => pc[arg[q].other] = "born"
  BY DEF Control, OwnTable, AtHand
<1>1. CASE Runprogram(p)
  BY <1>a, <1>1, StartEffect DEF FileStays, Alone, Back, Using
<1>2. CASE Fork(p)
  BY <1>a, <1>2, ForkEffect DEF FileStays, Using
<1>3. CASE Exit(p)
  BY <1>a, <1>3, StartEffect DEF FileStays, Alone, Using
<1>4. CASE OpenFile(p)
  BY <1>a, <1>4, OpenFileEffect DEF FileStays, Alone, Using
<1>5. CASE OpenFails(p)
  BY <1>a, <1>5 DEF FileStays, OpenFails, Using
<1>6. CASE Close(p) \/ Dup2Place(p)
  BY <1>a, <1>6, CloseEffect DEF FileStays, Placed, Alone, Back, Set, Using
<1>7. CASE Dup2(p)
  BY <1>a, <1>7, Dup2Effect DEF FileStays, Alone, Using
<1>8. CASE Transfer(p)
  BY <1>a, <1>8, TransferEffect DEF FileStays, Alone, Using
<1>9. CASE CopyTurn(p)
  BY <1>a, <1>9, CopyTurnEffect DEF FileStays, Alone, Set, Using
<1>10. CASE Forked(p)
  BY <1>a, <1>10, ForkedEffect DEF FileStays, Back, Using
<1>11. CASE ForkFails(p)
  BY <1>a, <1>11, StartEffect DEF FileStays, Alone, Using
<1>12. CASE CleanTurn(p)
  BY <1>a, <1>12, CleanTurnEffect DEF FileStays, Alone, Using
<1>13. CASE Cleaned(p)
  BY <1>a, <1>13, CleanedEffect DEF FileStays, Using
<1>14. CASE Decref(p)
  BY <1>a, <1>14, DecrefEffect, AfterDecrefEffect DEF FileStays, Alone, Back, Set, Using, Dropping
<1>15. CASE Destroy(p)
  BY <1>a, <1>15, DestroyEffect, AfterDecrefEffect DEF FileStays, Alone, Back, Set, Using, Dropping
<1>16. CASE Place(p)
  BY <1>a, <1>16, PlaceEffect DEF FileStays, Alone, Back, Set, Using
<1>17. CASE LockOffset(p)
  BY <1>a, <1>17, LockOffsetEffect DEF FileStays, Alone, SameCall, Using
<1>18. CASE ReadBytes(p)
  BY <1>a, <1>18, ReadBytesEffect DEF FileStays, Alone, SameCall, Using
<1>19. CASE WriteBytes(p)
  BY <1>a, <1>19, WriteBytesEffect DEF FileStays, Alone, Back, Using
<1>20. CASE IOFails(p) \/ SetOffset(p) \/ Seek(p)
  BY <1>a, <1>20, FinishEffect DEF FileStays, Alone, Back, Using
<1>. QED  BY <1>1, <1>2, <1>3, <1>4, <1>5, <1>6, <1>7, <1>8, <1>9, <1>10, <1>11, <1>12, <1>13,
             <1>14, <1>15, <1>16, <1>17, <1>18, <1>19, <1>20
             DEF Calls, Kernel

LEMMA AtHandStep ==
  ASSUME Control, NEW p \in Procs, Calls(p) \/ Kernel(p)
  PROVE  AtHand'
<1>a. AtHand /\ OwnTable /\ NULL \notin Procs \cup Opens
  BY OpenFilesAssumption DEF Control, OpenFilesAssumption
<1>1. CASE Runprogram(p)
  BY <1>a, <1>1, StartEffect DEF AtHand, OwnTable, OnTable, Alone, Back, NoArg, Using, Dropping
<1>2. CASE Fork(p)
  BY <1>a, <1>2, ForkEffect DEF AtHand, OwnTable, OnTable, Using, Dropping
<1>3. CASE Exit(p)
  BY <1>a, <1>3, StartEffect DEF AtHand, OwnTable, OnTable, Alone, Using, Dropping
<1>4. CASE OpenFile(p)
  BY <1>a, <1>4, OpenFileEffect DEF AtHand, OwnTable, OnTable, Alone, Using, Dropping
<1>5. CASE OpenFails(p)
  BY <1>a, <1>5 DEF AtHand, OpenFails, OwnTable, OnTable, Using, Dropping
<1>6. CASE Close(p) \/ Dup2Place(p)
  BY <1>a, <1>6, CloseEffect
     DEF AtHand, Placed, OwnTable, OnTable, Alone, Back, Set, NoArg, Using, Dropping
<1>7. CASE Dup2(p)
  BY <1>a, <1>7, Dup2Effect DEF AtHand, OwnTable, OnTable, Alone, Using, Dropping
<1>8. CASE Transfer(p)
  BY <1>a, <1>8, TransferEffect DEF AtHand, OwnTable, OnTable, Alone, Using, Dropping
<1>9. CASE CopyTurn(p)
  BY <1>a, <1>9, CopyTurnEffect DEF AtHand, OwnTable, OnTable, Alone, Set, Using, Dropping
<1>10. CASE Forked(p)
  BY <1>a, <1>10, ForkedEffect DEF AtHand, OwnTable, OnTable, Back, NoArg, Using, Dropping
<1>11. CASE ForkFails(p)
  BY <1>a, <1>11, StartEffect DEF AtHand, OwnTable, OnTable, Alone, Using, Dropping
<1>12. CASE CleanTurn(p)
  BY <1>a, <1>12, CleanTurnEffect DEF AtHand, OwnTable, OnTable, Alone, Using, Dropping
<1>13. CASE Cleaned(p)
  BY <1>a, <1>13, CleanedEffect DEF AtHand, OwnTable, OnTable, NoArg, Using, Dropping
<1>14. CASE Decref(p)
  BY <1>a, <1>14, DecrefEffect, AfterDecrefEffect
     DEF AtHand, OwnTable, OnTable, Alone, Back, Set, NoArg, Using, Dropping
<1>15. CASE Destroy(p)
  BY <1>a, <1>15, DestroyEffect, AfterDecrefEffect
     DEF AtHand, OwnTable, OnTable, Alone, Back, Set, NoArg, Using, Dropping
<1>16. CASE Place(p)
  BY <1>a, <1>16, PlaceEffect
     DEF AtHand, OwnTable, OnTable, Alone, Back, Set, NoArg, Using, Dropping
<1>17. CASE LockOffset(p)
  BY <1>a, <1>17, LockOffsetEffect DEF AtHand, OwnTable, OnTable, Alone, SameCall, Using, Dropping
<1>18. CASE ReadBytes(p)
  BY <1>a, <1>18, ReadBytesEffect DEF AtHand, OwnTable, OnTable, Alone, SameCall, Using, Dropping
<1>19. CASE WriteBytes(p)
  BY <1>a, <1>19, WriteBytesEffect
     DEF AtHand, OwnTable, OnTable, Alone, Back, NoArg, Using, Dropping
<1>20. CASE IOFails(p) \/ SetOffset(p) \/ Seek(p)
  BY <1>a, <1>20, FinishEffect DEF AtHand, OwnTable, OnTable, Alone, Back, NoArg, Using, Dropping
<1>. QED  BY <1>1, <1>2, <1>3, <1>4, <1>5, <1>6, <1>7, <1>8, <1>9, <1>10, <1>11, <1>12, <1>13,
             <1>14, <1>15, <1>16, <1>17, <1>18, <1>19, <1>20
             DEF Calls, Kernel

LEMMA TablesClearStep ==
  ASSUME Control, NEW p \in Procs, Calls(p) \/ Kernel(p)
  PROVE  TablesClear'
<1>a. /\ TablesClear /\ OwnTable /\ NULL \notin Procs \cup Opens /\ OPEN_MAX \in Nat
      /\ \A q \in Procs : arg[q].fd \in Nat
  BY OpenFilesAssumption, ArgParts DEF Control, Shape, OpenFilesAssumption
<1>1. CASE Runprogram(p)
  BY <1>a, <1>1, StartEffect DEF TablesClear, OwnTable, OnTable, FDs, Alone, Back, NoArg, Dropping
<1>2. CASE Fork(p)
  BY <1>a, <1>2, ForkEffect DEF TablesClear, OwnTable, OnTable, FDs, Dropping
<1>3. CASE Exit(p)
  BY <1>a, <1>3, StartEffect DEF TablesClear, OwnTable, OnTable, FDs, Alone, Dropping
<1>4. CASE OpenFile(p)
  BY <1>a, <1>4, OpenFileEffect DEF TablesClear, OwnTable, OnTable, FDs, Alone, Dropping
<1>5. CASE OpenFails(p)
  BY <1>a, <1>5 DEF TablesClear, OpenFails, OwnTable, OnTable, FDs, Dropping
<1>6. CASE Close(p) \/ Dup2Place(p)
  BY <1>a, <1>6, CloseEffect
     DEF TablesClear, Placed, OwnTable, OnTable, FDs, Alone, Back, Set, NoArg, Dropping
<1>7. CASE Dup2(p)
  BY <1>a, <1>7, Dup2Effect DEF TablesClear, OwnTable, OnTable, FDs, Alone, Dropping
<1>8. CASE Transfer(p)
  BY <1>a, <1>8, TransferEffect DEF TablesClear, OwnTable, OnTable, FDs, Alone, Dropping
<1>9. CASE CopyTurn(p)
  BY <1>a, <1>9, CopyTurnEffect DEF TablesClear, OwnTable, OnTable, FDs, Alone, Set, Dropping
<1>10. CASE Forked(p)
  BY <1>a, <1>10, ForkedEffect DEF TablesClear, OwnTable, OnTable, FDs, Back, NoArg, Dropping
<1>11. CASE ForkFails(p)
  BY <1>a, <1>11, StartEffect DEF TablesClear, OwnTable, OnTable, FDs, Alone, Dropping
<1>12. CASE CleanTurn(p)
  BY <1>a, <1>12, CleanTurnEffect DEF TablesClear, OwnTable, OnTable, FDs, Alone, Dropping
<1>13. CASE Cleaned(p)
  BY <1>a, <1>13, CleanedEffect DEF TablesClear, OwnTable, OnTable, FDs, NoArg, Dropping
<1>14. CASE Decref(p)
  BY <1>a, <1>14, DecrefEffect, AfterDecrefEffect
     DEF TablesClear, OwnTable, OnTable, FDs, Alone, Back, Set, NoArg, Dropping
<1>15. CASE Destroy(p)
  BY <1>a, <1>15, DestroyEffect, AfterDecrefEffect
     DEF TablesClear, OwnTable, OnTable, FDs, Alone, Back, Set, NoArg, Dropping
<1>16. CASE Place(p)
  BY <1>a, <1>16, PlaceEffect
     DEF TablesClear, OwnTable, OnTable, FDs, Alone, Back, Set, NoArg, Dropping
<1>17. CASE LockOffset(p)
  BY <1>a, <1>17, LockOffsetEffect
     DEF TablesClear, OwnTable, OnTable, FDs, Alone, SameCall, Dropping
<1>18. CASE ReadBytes(p)
  BY <1>a, <1>18, ReadBytesEffect DEF TablesClear, OwnTable, OnTable, FDs, Alone, SameCall, Dropping
<1>19. CASE WriteBytes(p)
  BY <1>a, <1>19, WriteBytesEffect
     DEF TablesClear, OwnTable, OnTable, FDs, Alone, Back, NoArg, Dropping
<1>20. CASE IOFails(p) \/ SetOffset(p) \/ Seek(p)
  BY <1>a, <1>20, FinishEffect
     DEF TablesClear, OwnTable, OnTable, FDs, Alone, Back, NoArg, Using, Dropping
<1>. QED  BY <1>1, <1>2, <1>3, <1>4, <1>5, <1>6, <1>7, <1>8, <1>9, <1>10, <1>11, <1>12, <1>13,
             <1>14, <1>15, <1>16, <1>17, <1>18, <1>19, <1>20
             DEF Calls, Kernel

-----------------------------------------------------------------------------
(* Counting references *)

LEMMA FiniteReferences ==
  ASSUME NEW o
  PROVE  /\ IsFiniteSet(Slots(o)) /\ Cardinality(Slots(o)) \in Nat
         /\ IsFiniteSet(Held(o)) /\ Cardinality(Held(o)) \in Nat
<1>1. IsFiniteSet(Procs) /\ IsFiniteSet(FDs)
  BY OpenFilesAssumption, FS_Interval DEF OpenFilesAssumption, FDs
<1>2. IsFiniteSet(Procs \X FDs)
  BY <1>1, FS_Product
<1>3. Slots(o) \subseteq Procs \X FDs /\ Held(o) \subseteq Procs
  BY DEF Slots, Held
<1>4. IsFiniteSet(Slots(o)) /\ IsFiniteSet(Held(o))
  BY <1>1, <1>2, <1>3, FS_Subset
<1>. QED  BY <1>4, FS_CardinalityType

LEMMA NonEmpty ==
  ASSUME NEW S, IsFiniteSet(S), NEW x \in S
  PROVE  /\ Cardinality(S) >= 1
         /\ \A y \in S : y # x => Cardinality(S) >= 2
<1>1. ASSUME NEW T, IsFiniteSet(T), NEW z \in T
      PROVE  Cardinality(T) >= 1
  BY <1>1, FS_EmptySet, FS_CardinalityType
<1>2. ASSUME NEW y \in S, y # x
      PROVE  Cardinality(S) >= 2
  <2>1. IsFiniteSet(S \ {x}) /\ Cardinality(S \ {x}) = Cardinality(S) - 1
    BY FS_RemoveElement
  <2>2. Cardinality(S \ {x}) >= 1
    BY <1>1, <1>2, <2>1
  <2>. QED  BY <2>1, <2>2, FS_CardinalityType
<1>. QED  BY <1>1, <1>2

LEMMA References ==
  ASSUME Shape, RefcountExact, NEW o \in Opens
  PROVE  /\ of[o].refcount \in Nat
         /\ Slots(o) # {} \/ Held(o) # {} => of[o].refcount >= 1
         /\ Slots(o) # {} /\ Held(o) # {} => of[o].refcount >= 2
         /\ \A x, y \in Slots(o) : x # y => of[o].refcount >= 2
         /\ \A x, y \in Held(o) : x # y => of[o].refcount >= 2
<1>. DEFINE S == Slots(o)
            H == Held(o)
<1>1. of[o].refcount = Cardinality(S) + Cardinality(H)
  BY DEF RefcountExact
<1>2. IsFiniteSet(S) /\ Cardinality(S) \in Nat /\ IsFiniteSet(H) /\ Cardinality(H) \in Nat
  BY FiniteReferences
<1>. HIDE DEF S, H
<1>3. /\ S # {} => Cardinality(S) >= 1
      /\ H # {} => Cardinality(H) >= 1
      /\ \A x, y \in S : x # y => Cardinality(S) >= 2
      /\ \A x, y \in H : x # y => Cardinality(H) >= 2
  BY <1>2, NonEmpty
<1>4. of[o].refcount \in Nat /\ of[o].refcount >= Cardinality(S) /\ of[o].refcount >= Cardinality(H)
  BY <1>1, <1>2
<1>5. S # {} /\ H # {} => of[o].refcount >= 2
  BY <1>1, <1>2, <1>3
<1>. QED  BY <1>2, <1>3, <1>4, <1>5 DEF S, H

\* What is named is counted.
Counted ==
  /\ \A p \in Procs, d \in FDs : ft_openfiles[p][d] \in Opens => of[ft_openfiles[p][d]].refcount >= 1
  /\ \A p \in Procs : pc[p] \in {"place", "dup"} \cup Dropping => of[arg[p].file].refcount >= 1

LEMMA CountedHolds ==
  ASSUME Shape, AtHand, RefcountExact
  PROVE  Counted
<1>1. ASSUME NEW p \in Procs, NEW d \in FDs, ft_openfiles[p][d] \in Opens
      PROVE  of[ft_openfiles[p][d]].refcount >= 1
  <2>1. <<p, d>> \in Slots(ft_openfiles[p][d])
    BY DEF Slots
  <2>. QED  BY <1>1, <2>1, References
<1>2. ASSUME NEW p \in Procs, pc[p] \in {"place", "dup"} \cup Dropping
      PROVE  of[arg[p].file].refcount >= 1
  <2>1. arg[p].file \in Opens /\ arg[p].other \in Procs \cup {NULL}
    BY <1>2, ArgParts DEF AtHand, Shape
  <2>2. CASE p \in Held(arg[p].file)
    BY <2>1, <2>2, References
  <2>3. CASE p \notin Held(arg[p].file)
    <3>1. pc[p] \in Dropping /\ arg[p].other \in Procs
      BY <1>2, <2>1, <2>3 DEF Held, Dropping
    <3>2. arg[p].fd \in FDs /\ ft_openfiles[arg[p].other][arg[p].fd] = arg[p].file
      BY <3>1 DEF AtHand
    <3>. QED  BY <1>1, <2>1, <3>1, <3>2
  <2>. QED  BY <2>2, <2>3
<1>. QED  BY <1>1, <1>2 DEF Counted

LEMMA UsesFileHolds ==
  ASSUME Control, Counted, Allocated
  PROVE  UsesFile
<1>1. SUFFICES ASSUME NEW p \in Procs, pc[p] \in Using
               PROVE  of[arg[p].file].vnode \in Files
  BY DEF UsesFile
<1>2. arg[p].file \in Opens /\ arg[p].fd \in FDs /\ ft_openfiles[p][arg[p].fd] = arg[p].file
  BY <1>1 DEF Control, AtHand, FileStays, Using
<1>. QED  BY <1>2 DEF Counted, Allocated

\* A process that drops a reference has one, and so has another one that drops a
\* reference, or has the file in its table.
LEMMA TwoReferences ==
  ASSUME Control, RefcountExact, NEW p \in Procs, pc[p] \in Dropping,
         NEW q \in Procs \ {p},
         \/ pc[q] \in Dropping /\ arg[q].file = arg[p].file
         \/ pc[q] # "born" /\ \E d \in FDs : ft_openfiles[q][d] = arg[p].file
  PROVE  of[arg[p].file].refcount >= 2
<1>. DEFINE o == arg[p].file
<1>1. o \in Opens
  BY DEF Control, AtHand
<1>2. ASSUME NEW r \in Procs, pc[r] \in Dropping, arg[r].file = o
      PROVE  \/ r \in Held(o) /\ arg[r].other = NULL
             \/ arg[r].other \in Procs /\ <<arg[r].other, arg[r].fd>> \in Slots(o)
  <2>1. arg[r].other \in Procs \cup {NULL}
    BY ArgParts DEF Control, Shape
  <2>2. CASE arg[r].other = NULL
    BY <1>2, <2>2 DEF Held, Dropping
  <2>3. CASE arg[r].other \in Procs
    BY <1>2, <2>3 DEF Control, AtHand, Slots
  <2>. QED  BY <2>1, <2>2, <2>3
<1>3. CASE pc[q] \in Dropping /\ arg[q].file = o
  <2>1. arg[p].other \in Procs => arg[p].other # arg[q].other
    BY DEF Control, OwnTable
  <2>. QED  BY <1>1, <1>2, <1>3, <2>1, References DEF Control
<1>4. CASE pc[q] # "born" /\ \E d \in FDs : ft_openfiles[q][d] = o
  <2>1. PICK d \in FDs : <<q, d>> \in Slots(o)
    BY <1>4 DEF Slots
  <2>2. arg[p].other # q
    BY <1>4 DEF Control, OwnTable
  <2>. QED  BY <1>1, <1>2, <2>1, <2>2, References DEF Control
<1>. QED  BY <1>3, <1>4

LEMMA AllocatedStep ==
  ASSUME Control, NEW p \in Procs, RefcountExact, Calls(p) \/ Kernel(p)
  PROVE  Allocated'
<1>a. /\ Allocated /\ Counted /\ AtHand
      /\ \A o \in Opens : of[o].refcount \in Int
  BY CountedHolds, InfoParts DEF Control, Shape
<1>1. CASE Runprogram(p)
  BY <1>a, <1>1, StartEffect DEF Allocated, Counted, AtHand, Dropping
<1>2. CASE Fork(p)
  BY <1>a, <1>2, ForkEffect DEF Allocated, Counted, AtHand, Dropping
<1>3. CASE Exit(p)
  BY <1>a, <1>3, StartEffect DEF Allocated, Counted, AtHand, Dropping
<1>4. CASE OpenFile(p)
  BY <1>a, <1>4, OpenFileEffect DEF Allocated, Counted, AtHand, Dropping
<1>5. CASE OpenFails(p)
  BY <1>a, <1>5 DEF Allocated, OpenFails, Counted, AtHand, Dropping
<1>6. CASE Close(p) \/ Dup2Place(p)
  BY <1>a, <1>6, CloseEffect DEF Allocated, Placed, Counted, AtHand, Dropping
<1>7. CASE Dup2(p)
  BY <1>a, <1>7, Dup2Effect DEF Allocated, Counted, AtHand, Dropping, Recount
<1>8. CASE Transfer(p)
  BY <1>a, <1>8, TransferEffect DEF Allocated, Counted, AtHand, Dropping
<1>9. CASE CopyTurn(p)
  BY <1>a, <1>9, CopyTurnEffect DEF Allocated, Counted, AtHand, Dropping, Recount
<1>10. CASE Forked(p)
  BY <1>a, <1>10, ForkedEffect DEF Allocated, Counted, AtHand, Dropping
<1>11. CASE ForkFails(p)
  BY <1>a, <1>11, StartEffect DEF Allocated, Counted, AtHand, Dropping
<1>12. CASE CleanTurn(p)
  BY <1>a, <1>12, CleanTurnEffect DEF Allocated, Counted, AtHand, Dropping
<1>13. CASE Cleaned(p)
  BY <1>a, <1>13, CleanedEffect DEF Allocated, Counted, AtHand, Dropping
<1>14. CASE Decref(p)
  BY <1>a, <1>14, DecrefEffect, AfterDecrefEffect DEF Allocated, Counted, AtHand, Dropping, Recount
<1>15. CASE Destroy(p)
  BY <1>a, <1>15, DestroyEffect, AfterDecrefEffect DEF Allocated, Freed, Counted, AtHand, Dropping
<1>16. CASE Place(p)
  BY <1>a, <1>16, PlaceEffect DEF Allocated, Counted, AtHand, Dropping
<1>17. CASE LockOffset(p)
  BY <1>a, <1>17, LockOffsetEffect DEF Allocated, Counted, AtHand, Dropping, Relock
<1>18. CASE ReadBytes(p)
  BY <1>a, <1>18, ReadBytesEffect DEF Allocated, Counted, AtHand, Dropping
<1>19. CASE WriteBytes(p)
  BY <1>a, <1>19, WriteBytesEffect DEF Allocated, Counted, AtHand, Dropping, Relock
<1>20. CASE IOFails(p) \/ SetOffset(p) \/ Seek(p)
  BY <1>a, <1>20, FinishEffect DEF Allocated, Counted, AtHand, Dropping, Relock
<1>. QED  BY <1>1, <1>2, <1>3, <1>4, <1>5, <1>6, <1>7, <1>8, <1>9, <1>10, <1>11, <1>12, <1>13,
             <1>14, <1>15, <1>16, <1>17, <1>18, <1>19, <1>20
             DEF Calls, Kernel

\* A descriptor that changes takes a reference from one file and gives one to another.
One(b) == IF b THEN 1 ELSE 0

LEMMA SlotsSet ==
  ASSUME NEW p \in Procs, NEW fd \in FDs, NEW x, Set(p, fd, x), NEW o
  PROVE  Cardinality(Slots(o)') = Cardinality(Slots(o)) + One(x = o) - One(ft_openfiles[p][fd] = o)
<1>. DEFINE S == Slots(o)
            T == Slots(o)'
            c == <<p, fd>>
<1>1. /\ c \in S <=> ft_openfiles[p][fd] = o
      /\ c \in T <=> x = o
      /\ \A y \in Procs \X FDs : y # c => (y \in T <=> y \in S)
      /\ S \subseteq Procs \X FDs /\ T \subseteq Procs \X FDs
  BY DEF Slots, Set
<1>2. IsFiniteSet(S) /\ Cardinality(S) \in Nat
  BY FiniteReferences
<1>. HIDE DEF S, T, c
<1>3. T = IF x = o THEN S \cup {c} ELSE S \ {c}
  <2>1. c \in Procs \X FDs
    BY DEF c
  <2>. QED  BY <1>1, <2>1
<1>4. Cardinality(S \cup {c}) = IF c \in S THEN Cardinality(S) ELSE Cardinality(S) + 1
  BY <1>2, FS_AddElement
<1>5. Cardinality(S \ {c}) = IF c \in S THEN Cardinality(S) - 1 ELSE Cardinality(S)
  BY <1>2, FS_RemoveElement
<1>6. Cardinality(T) = Cardinality(S) + One(x = o) - One(ft_openfiles[p][fd] = o)
  BY <1>1, <1>2, <1>3, <1>4, <1>5 DEF One
<1>. QED  BY <1>6 DEF S, T

\* The call of p has a reference to o that is in no table.
Holds(p, o) == /\ arg[p].file = o
               /\ \/ pc[p] \in {"place", "dup"}
                  \/ pc[p] \in Dropping /\ arg[p].other = NULL

\* No process but p takes up or drops such a reference.
HeldElsewhere(p) ==
  \A q \in Procs \ {p} :
    \/ pc'[q] = pc[q] /\ arg'[q] = arg[q]
    \/ pc[q] \in {"none", "born"} /\ pc'[q] \in {"none", "born", "run"}

LEMMA HeldStep ==
  ASSUME NEW p \in Procs, HeldElsewhere(p), NEW o
  PROVE  Cardinality(Held(o)') = Cardinality(Held(o)) + One(Holds(p, o)') - One(Holds(p, o))
<1>. DEFINE H == Held(o)
            T == Held(o)'
<1>1. /\ \A q \in Procs : q # p => (q \in T <=> q \in H)
      /\ p \in H <=> Holds(p, o)
      /\ p \in T <=> Holds(p, o)'
      /\ H \subseteq Procs /\ T \subseteq Procs
  BY DEF Held, HeldElsewhere, Holds, Dropping
<1>2. IsFiniteSet(H) /\ Cardinality(H) \in Nat
  BY FiniteReferences
<1>. HIDE DEF H, T
<1>3. T = IF p \in T THEN H \cup {p} ELSE H \ {p}
  BY <1>1
<1>4. Cardinality(H \cup {p}) = IF p \in H THEN Cardinality(H) ELSE Cardinality(H) + 1
  BY <1>2, FS_AddElement
<1>5. Cardinality(H \ {p}) = IF p \in H THEN Cardinality(H) - 1 ELSE Cardinality(H)
  BY <1>2, FS_RemoveElement
<1>6. Cardinality(T) = Cardinality(H) + One(p \in T) - One(p \in H)
  <2>1. CASE p \in T
    <3>1. Cardinality(T) = IF p \in H THEN Cardinality(H) ELSE Cardinality(H) + 1
      BY <1>3, <1>4, <2>1
    <3>. QED  BY <1>2, <2>1, <3>1 DEF One
  <2>2. CASE p \notin T
    <3>1. Cardinality(T) = IF p \in H THEN Cardinality(H) - 1 ELSE Cardinality(H)
      BY <1>3, <1>5, <2>2
    <3>. QED  BY <1>2, <2>2, <3>1 DEF One
  <2>. QED  BY <2>1, <2>2
<1>7. One(p \in T) = One(Holds(p, o)') /\ One(p \in H) = One(Holds(p, o))
  BY <1>1 DEF One
<1>. QED  BY <1>6, <1>7 DEF H, T

LEMMA HeldElsewhereStep ==
  ASSUME Control, NEW p \in Procs, Calls(p) \/ Kernel(p)
  PROVE  HeldElsewhere(p)
<1>1. CASE Runprogram(p)
  BY <1>1, StartEffect DEF HeldElsewhere, Alone
<1>2. CASE Fork(p)
  BY <1>2, ForkEffect DEF HeldElsewhere
<1>3. CASE Exit(p)
  BY <1>3, StartEffect DEF HeldElsewhere, Alone
<1>4. CASE OpenFile(p)
  BY <1>4, OpenFileEffect DEF HeldElsewhere, Alone
<1>5. CASE OpenFails(p)
  BY <1>5 DEF HeldElsewhere, OpenFails
<1>6. CASE Close(p) \/ Dup2Place(p)
  BY <1>6, CloseEffect DEF HeldElsewhere, Placed, Alone, Placed
<1>7. CASE Dup2(p)
  BY <1>7, Dup2Effect DEF HeldElsewhere, Alone
<1>8. CASE Transfer(p)
  BY <1>8, TransferEffect DEF HeldElsewhere, Alone
<1>9. CASE CopyTurn(p)
  BY <1>9, CopyTurnEffect DEF HeldElsewhere, Alone
<1>10. CASE Forked(p)
  BY <1>10, ForkedEffect DEF HeldElsewhere
<1>11. CASE ForkFails(p)
  BY <1>11, StartEffect DEF HeldElsewhere, Alone
<1>12. CASE CleanTurn(p)
  BY <1>12, CleanTurnEffect DEF HeldElsewhere, Alone
<1>13. CASE Cleaned(p)
  BY <1>13, CleanedEffect DEF HeldElsewhere
<1>14. CASE Decref(p)
  BY <1>14, DecrefEffect, AfterDecrefEffect DEF HeldElsewhere, Alone, Dropping
<1>15. CASE Destroy(p)
  BY <1>15, DestroyEffect, AfterDecrefEffect DEF HeldElsewhere, Alone, Dropping
<1>16. CASE Place(p)
  BY <1>16, PlaceEffect DEF HeldElsewhere, Alone
<1>17. CASE LockOffset(p)
  BY <1>17, LockOffsetEffect DEF HeldElsewhere, Alone
<1>18. CASE ReadBytes(p)
  BY <1>18, ReadBytesEffect DEF HeldElsewhere, Alone
<1>19. CASE WriteBytes(p)
  BY <1>19, WriteBytesEffect DEF HeldElsewhere, Alone
<1>20. CASE IOFails(p) \/ SetOffset(p) \/ Seek(p)
  BY <1>20, FinishEffect DEF HeldElsewhere, Alone
<1>. QED  BY <1>1, <1>2, <1>3, <1>4, <1>5, <1>6, <1>7, <1>8, <1>9, <1>10, <1>11, <1>12, <1>13,
             <1>14, <1>15, <1>16, <1>17, <1>18, <1>19, <1>20
             DEF Calls, Kernel

LEMMA RefcountStep ==
  ASSUME Control, RefcountExact, LastReference, NEW p \in Procs, Calls(p) \/ Kernel(p)
  PROVE  RefcountExact'
<1>. SUFFICES ASSUME NEW o \in Opens
              PROVE  of'[o].refcount = Cardinality(Slots(o)') + Cardinality(Held(o)')
  BY DEF RefcountExact
<1>a. /\ of[o].refcount = Cardinality(Slots(o)) + Cardinality(Held(o))
      /\ Cardinality(Slots(o)) \in Nat /\ Cardinality(Held(o)) \in Nat
      /\ Cardinality(Held(o)') = Cardinality(Held(o)) + One(Holds(p, o)') - One(Holds(p, o))
      /\ UNCHANGED ft_openfiles => Cardinality(Slots(o)') = Cardinality(Slots(o))
      /\ NULL \notin Opens
  <2>1. UNCHANGED ft_openfiles => Slots(o)' = Slots(o)
    BY DEF Slots
  <2>. QED  BY <2>1, FiniteReferences, HeldElsewhereStep, HeldStep, OpenFilesAssumption
            DEF RefcountExact, OpenFilesAssumption
<1>b. /\ pc[p] \notin OnTable => arg[p].other = NULL
      /\ AtHand /\ NULL \notin Procs
  BY OpenFilesAssumption DEF Control, OwnTable, OpenFilesAssumption
<1>1. CASE Runprogram(p)
  BY <1>a, <1>b, <1>1, StartEffect DEF Holds, One, Dropping, OnTable, Alone, Back, NoArg
<1>2. CASE Fork(p)
  BY <1>a, <1>b, <1>2, ForkEffect DEF Holds, One, Dropping, OnTable
<1>3. CASE Exit(p)
  BY <1>a, <1>b, <1>3, StartEffect DEF Holds, One, Dropping, OnTable, Alone
<1>4. CASE OpenFile(p)
  BY <1>a, <1>b, <1>4, OpenFileEffect DEF Holds, One, Dropping, OnTable, Alone
<1>5. CASE OpenFails(p)
  BY <1>a, <1>b, <1>5 DEF OpenFails, Holds, One, Dropping, OnTable
<1>6. CASE Close(p) \/ Dup2Place(p)
  BY <1>a, <1>b, <1>6, CloseEffect, SlotsSet
     DEF Placed, Holds, One, Dropping, OnTable, Alone, Back, NoArg
<1>7. CASE Dup2(p)
  BY <1>a, <1>b, <1>7, Dup2Effect DEF Holds, One, Dropping, OnTable, Alone, Recount
<1>8. CASE Transfer(p)
  BY <1>a, <1>b, <1>8, TransferEffect DEF Holds, One, Dropping, OnTable, Alone
<1>9. CASE CopyTurn(p)
  BY <1>a, <1>b, <1>9, CopyTurnEffect, SlotsSet DEF Holds, One, Dropping, OnTable, Alone, Recount
<1>10. CASE Forked(p)
  BY <1>a, <1>b, <1>10, ForkedEffect DEF Holds, One, Dropping, OnTable, Back, NoArg
<1>11. CASE ForkFails(p)
  BY <1>a, <1>b, <1>11, StartEffect DEF Holds, One, Dropping, OnTable, Alone
<1>12. CASE CleanTurn(p)
  BY <1>a, <1>b, <1>12, CleanTurnEffect DEF Holds, One, Dropping, OnTable, Alone
<1>13. CASE Cleaned(p)
  BY <1>a, <1>b, <1>13, CleanedEffect DEF Holds, One, Dropping, OnTable, NoArg
<1>14. CASE Decref(p)
  BY <1>a, <1>b, <1>14, DecrefEffect, AfterDecrefEffect, SlotsSet
     DEF Holds, One, Dropping, OnTable, Alone, Back, NoArg, Recount
<1>15. CASE Destroy(p)
  BY <1>a, <1>b, <1>15, DestroyEffect, AfterDecrefEffect, SlotsSet
     DEF Freed, Holds, One, Dropping, OnTable, Alone, Back, NoArg, LastReference
<1>16. CASE Place(p)
  BY <1>a, <1>b, <1>16, PlaceEffect, SlotsSet DEF Holds, One, Dropping, OnTable, Alone, Back, NoArg
<1>17. CASE LockOffset(p)
  BY <1>a, <1>b, <1>17, LockOffsetEffect DEF Holds, One, Dropping, OnTable, Alone, SameCall, Relock
<1>18. CASE ReadBytes(p)
  BY <1>a, <1>b, <1>18, ReadBytesEffect DEF Holds, One, Dropping, OnTable, Alone, SameCall
<1>19. CASE WriteBytes(p)
  BY <1>a, <1>b, <1>19, WriteBytesEffect
     DEF Holds, One, Dropping, OnTable, Alone, Back, NoArg, Relock
<1>20. CASE IOFails(p) \/ SetOffset(p) \/ Seek(p)
  BY <1>a, <1>b, <1>20, FinishEffect
     DEF Holds, One, Dropping, Using, OnTable, Alone, Back, NoArg, Relock
<1>. QED  BY <1>1, <1>2, <1>3, <1>4, <1>5, <1>6, <1>7, <1>8, <1>9, <1>10, <1>11, <1>12, <1>13,
             <1>14, <1>15, <1>16, <1>17, <1>18, <1>19, <1>20
             DEF Calls, Kernel

\* Who else holds a reference, or the lock, cannot have let a process get to its
\* openfile_destroy, and cannot get one after it.
LEMMA LastReferenceStep ==
  ASSUME Control, RefcountExact, LastReference, NEW p \in Procs, Calls(p) \/ Kernel(p)
  PROVE  LastReference'
<1>. SUFFICES ASSUME NEW q \in Procs, pc'[q] = "destroy"
              PROVE  of'[arg'[q].file].refcount = 1 /\ of'[arg'[q].file].offsetlock = NULL
  BY DEF LastReference
<1>. DEFINE o == arg[q].file
<1>a. NULL \notin Procs /\ NULL \notin Opens
  BY OpenFilesAssumption DEF OpenFilesAssumption
<1>b. /\ \A r \in Procs : pc[r] \notin OnTable => arg[r].other = NULL
      /\ AtHand /\ FileStays
  BY DEF Control, OwnTable
<1>1. CASE q # p
  <2>1. pc[q] = "destroy" /\ arg'[q] = arg[q]
    BY <1>1, HeldElsewhereStep DEF HeldElsewhere
  <2>2. o \in Opens /\ of[o].refcount = 1 /\ of[o].offsetlock = NULL
    BY <1>b, <2>1 DEF LastReference, AtHand, Dropping
  <2>3. /\ pc[p] \in Dropping => arg[p].file # o
        /\ pc[p] # "born" => \A d \in FDs : ft_openfiles[p][d] # o
    BY <1>1, <2>1, <2>2, TwoReferences DEF Dropping
  <2>4. pc[p] \in Using => arg[p].file # o
    BY <1>b, <2>3 DEF AtHand, FileStays, Using
  <2>. HIDE DEF o
  <2>. SUFFICES of'[o].refcount = 1 /\ of'[o].offsetlock = NULL
    BY <2>1 DEF o
  <2>5. CASE Runprogram(p)
    BY <2>2, <2>3, <2>4, <2>5, StartEffect DEF Dropping
  <2>6. CASE Fork(p)
    BY <2>2, <2>3, <2>4, <2>6, ForkEffect DEF Dropping
  <2>7. CASE Exit(p)
    BY <2>2, <2>3, <2>4, <2>7, StartEffect DEF Dropping
  <2>8. CASE OpenFile(p)
    BY <2>2, <2>3, <2>4, <2>8, OpenFileEffect DEF Dropping
  <2>9. CASE OpenFails(p)
    BY <2>2, <2>3, <2>4, <2>9 DEF OpenFails, Dropping
  <2>10. CASE Close(p) \/ Dup2Place(p)
    BY <2>2, <2>3, <2>4, <2>10, CloseEffect DEF Placed, Dropping
  <2>11. CASE Dup2(p)
    BY <2>2, <2>3, <2>4, <2>11, Dup2Effect DEF Dropping, Recount
  <2>12. CASE Transfer(p)
    BY <2>2, <2>3, <2>4, <2>12, TransferEffect DEF Dropping
  <2>13. CASE CopyTurn(p)
    BY <2>2, <2>3, <2>4, <2>13, CopyTurnEffect DEF Dropping, Recount
  <2>14. CASE Forked(p)
    BY <2>2, <2>3, <2>4, <2>14, ForkedEffect DEF Dropping
  <2>15. CASE ForkFails(p)
    BY <2>2, <2>3, <2>4, <2>15, StartEffect DEF Dropping
  <2>16. CASE CleanTurn(p)
    BY <2>2, <2>3, <2>4, <2>16, CleanTurnEffect DEF Dropping
  <2>17. CASE Cleaned(p)
    BY <2>2, <2>3, <2>4, <2>17, CleanedEffect DEF Dropping
  <2>18. CASE Decref(p)
    BY <2>2, <2>3, <2>4, <2>18, DecrefEffect DEF Dropping, Recount
  <2>19. CASE Destroy(p)
    BY <2>2, <2>3, <2>4, <2>19, DestroyEffect DEF Dropping
  <2>20. CASE Place(p)
    BY <2>2, <2>3, <2>4, <2>20, PlaceEffect DEF Dropping
  <2>21. CASE LockOffset(p)
    BY <2>2, <2>3, <2>4, <2>21, LockOffsetEffect DEF Using, Dropping, Relock
  <2>22. CASE ReadBytes(p)
    BY <2>2, <2>3, <2>4, <2>22, ReadBytesEffect DEF Dropping
  <2>23. CASE WriteBytes(p)
    BY <2>2, <2>3, <2>4, <2>23, WriteBytesEffect DEF Dropping, Relock
  <2>24. CASE IOFails(p) \/ SetOffset(p) \/ Seek(p)
    BY <2>2, <2>3, <2>4, <2>24, FinishEffect DEF Using, Dropping, Relock
  <2>. QED  BY <2>5, <2>6, <2>7, <2>8, <2>9, <2>10, <2>11, <2>12, <2>13, <2>14, <2>15, <2>16, <2>17,
               <2>18, <2>19, <2>20, <2>21, <2>22, <2>23, <2>24
               DEF Calls, Kernel
<1>2. CASE q = p
  <2>1. CASE Runprogram(p)
    BY <1>2, <2>1, StartEffect DEF Back, Dropping
  <2>2. CASE Fork(p)
    BY <1>2, <2>2, ForkEffect DEF Dropping
  <2>3. CASE Exit(p)
    BY <1>2, <2>3, StartEffect DEF Dropping
  <2>4. CASE OpenFile(p)
    BY <1>2, <2>4, OpenFileEffect DEF Dropping
  <2>5. CASE OpenFails(p)
    BY <1>2, <2>5 DEF OpenFails, Dropping
  <2>6. CASE Close(p) \/ Dup2Place(p)
    BY <1>2, <2>6, CloseEffect DEF Placed, Back, Dropping
  <2>7. CASE Dup2(p)
    BY <1>2, <2>7, Dup2Effect DEF Dropping
  <2>8. CASE Transfer(p)
    BY <1>2, <2>8, TransferEffect DEF Dropping
  <2>9. CASE CopyTurn(p)
    BY <1>2, <2>9, CopyTurnEffect DEF Dropping
  <2>10. CASE Forked(p)
    BY <1>2, <2>10, ForkedEffect DEF Back, Dropping
  <2>11. CASE ForkFails(p)
    BY <1>2, <2>11, StartEffect DEF Dropping
  <2>12. CASE CleanTurn(p)
    BY <1>2, <2>12, CleanTurnEffect DEF Dropping
  <2>13. CASE Cleaned(p)
    BY <1>2, <2>13, CleanedEffect DEF Dropping
  <2>15. CASE Destroy(p)
    BY <1>2, <2>15, DestroyEffect, AfterDecrefEffect DEF Back, Dropping
  <2>16. CASE Place(p)
    BY <1>2, <2>16, PlaceEffect DEF Back, Dropping
  <2>17. CASE LockOffset(p)
    BY <1>2, <2>17, LockOffsetEffect DEF Dropping
  <2>18. CASE ReadBytes(p)
    BY <1>2, <2>18, ReadBytesEffect DEF Dropping
  <2>19. CASE WriteBytes(p)
    BY <1>2, <2>19, WriteBytesEffect DEF Back, Dropping
  <2>20. CASE IOFails(p) \/ SetOffset(p) \/ Seek(p)
    BY <1>2, <2>20, FinishEffect DEF Back, Dropping
  <2>30. CASE Decref(p)
    <3>1. pc[p] = "decref" /\ o \in Opens /\ of[o].refcount = 1 /\ arg'[p] = arg[p] /\ UNCHANGED of
      BY <1>2, <2>30, DecrefEffect, AfterDecrefEffect DEF Back, Dropping
    <3>2. of[o].offsetlock = NULL
      <4>. SUFFICES ASSUME of[o].offsetlock # NULL
                    PROVE  FALSE
        OBVIOUS
      <4>1. PICK t \in Procs : pc[t] \in Using /\ arg[t].file = o
        <5>1. of[o].offsetlock \in Procs
          BY <3>1, InfoParts DEF Control, Shape
        <5>. QED  BY <3>1, <5>1 DEF Control, LockGivenBack, Using
      <4>2. arg[t].fd \in FDs /\ ft_openfiles[t][arg[t].fd] = arg[p].file
        BY <1>b, <1>2, <4>1 DEF AtHand, FileStays, Using
      <4>3. t \in Procs \ {p} /\ pc[t] # "born" /\ pc[p] \in Dropping
        BY <3>1, <4>1 DEF Using, Dropping
      <4>4. of[arg[p].file].refcount >= 2
        BY <4>2, <4>3, TwoReferences
      <4>. QED  BY <1>2, <3>1, <4>4
    <3>. QED  BY <1>2, <3>1, <3>2
  <2>. QED  BY <2>1, <2>2, <2>3, <2>4, <2>5, <2>6, <2>7, <2>8, <2>9, <2>10, <2>11, <2>12, <2>13,
               <2>15, <2>16, <2>17, <2>18, <2>19, <2>20, <2>30
               DEF Calls, Kernel
<1>. QED  BY <1>1, <1>2

-----------------------------------------------------------------------------
(* The invariant is inductive, and the theorems follow *)

LEMMA InitInv == Init => IInv
<1>. SUFFICES ASSUME Init
              PROVE  IInv
  OBVIOUS
<1>1. Empty \in [FDs -> Opens \cup {NULL}] /\ MaxSize \in Nat
  BY OpenFilesAssumption DEF Empty, OpenFilesAssumption
<1>2. Shape
  <2>1. of \in [Opens -> Info] /\ arg \in [Procs -> Args]
    BY NoArgShape DEF Init
  <2>2. pc \in [Procs -> Labels]
    BY DEF Init, Labels
  <2>3. content \in [Files -> Seq(Procs \cup {Zero})] /\ \A v \in Files : Len(content[v]) <= MaxSize
    BY <1>1 DEF Init
  <2>4. ft_openfiles \in [Procs -> [FDs -> Opens \cup {NULL}]]
    BY <1>1 DEF Init
  <2>. QED  BY <2>1, <2>2, <2>3, <2>4 DEF Shape
<1>3. NULL \notin Opens \cup Procs
  BY OpenFilesAssumption DEF OpenFilesAssumption
<1>4. /\ \A p \in Procs : pc[p] = "none" /\ arg[p].other = NULL /\ arg[p].file = NULL
      /\ \A p \in Procs, d \in FDs : ft_openfiles[p][d] = NULL
      /\ \A o \in Opens : of[o].refcount = 0 /\ of[o].offsetlock = NULL
  BY DEF Init, NoArg, Freed, Empty
<1>5. OwnTable /\ TablesClear
  BY <1>3, <1>4 DEF OwnTable, TablesClear, OnTable, Dropping
<1>6. AtHand /\ FileStays /\ LastReference
  BY <1>4 DEF AtHand, FileStays, LastReference, Dropping, Using
<1>7. LockGivenBack /\ Allocated
  BY <1>4 DEF LockGivenBack, Allocated
<1>8. RefcountExact
  <2>1. SUFFICES ASSUME NEW o \in Opens
                 PROVE  0 = Cardinality(Slots(o)) + Cardinality(Held(o))
    BY <1>4 DEF RefcountExact
  <2>2. Slots(o) = {} /\ Held(o) = {}
    BY <1>3, <1>4 DEF Slots, Held
  <2>. QED  BY <2>2, FS_EmptySet
<1>. QED  BY <1>2, <1>5, <1>6, <1>7, <1>8 DEF IInv, Control

LEMMA StepInv == IInv /\ [Next]_vars => IInv'
<1>. SUFFICES ASSUME IInv, [Next]_vars
              PROVE  IInv'
  OBVIOUS
<1>1. Control /\ RefcountExact /\ LastReference
  BY DEF IInv
<1>2. CASE Next
  <2>1. PICK p \in Procs : Calls(p) \/ Kernel(p)
    BY <1>2 DEF Next
  <2>2. UsesFile
    BY <1>1, CountedHolds, UsesFileHolds DEF Control
  <2>3. Shape'
    BY <1>1, <2>1, <2>2, ShapeStep DEF Control
  <2>4. OwnTable'
    BY <1>1, <2>1, OwnTableStep
  <2>5. TablesClear' /\ AtHand' /\ FileStays' /\ LockGivenBack'
    BY <1>1, <2>1, TablesClearStep, AtHandStep, FileStaysStep, LockStep
  <2>6. Allocated' /\ RefcountExact' /\ LastReference'
    BY <1>1, <2>1, AllocatedStep, RefcountStep, LastReferenceStep
  <2>. QED  BY <2>3, <2>4, <2>5, <2>6 DEF IInv, Control
<1>3. CASE UNCHANGED vars
  BY <1>3 DEF vars, IInv, Control, Shape, OwnTable, TablesClear, AtHand, FileStays, LockGivenBack,
              Allocated, RefcountExact, LastReference, Slots, Held
<1>. QED  BY <1>2, <1>3

LEMMA SpecInv == Spec => []IInv
BY InitInv, StepInv, PTL DEF Spec

\* The variables keep their types: no count is negative, no descriptor is out of a
\* table, no file and no position passes its bound.
THEOREM OpenFilesTypeCorrect == Spec => []TypeOK
<1>1. ASSUME IInv
      PROVE  TypeOK
  <2>1. \A o \in Opens : of[o].refcount \in Nat
    BY <1>1, References DEF IInv, Control
  <2>2. of \in [Opens -> [vnode : Files \cup {NULL}, accmode : Modes, offset : 0..MaxSize,
                          refcount : Nat, offsetlock : Procs \cup {NULL}]]
    <3>1. \A o \in Opens : of[o] \in Info
      BY <1>1 DEF IInv, Control, Shape
    <3>2. \A x \in Info : x.refcount \in Nat =>
            x \in [vnode : Files \cup {NULL}, accmode : Modes, offset : 0..MaxSize,
                   refcount : Nat, offsetlock : Procs \cup {NULL}]
      BY DEF Info
    <3>. QED  BY <1>1, <2>1, <3>1, <3>2 DEF IInv, Control, Shape
  <2>. QED  BY <1>1, <2>2 DEF TypeOK, IInv, Control, Shape, Labels, Args
<1>. QED  BY <1>1, SpecInv, PTL

\* of_refcount is the number of descriptors and calls that refer to an open file,
\* through fork, dup2, close and exit of any number of processes.
THEOREM RefcountsExact == Spec => []RefcountExact
<1>1. IInv => RefcountExact
  BY DEF IInv
<1>. QED  BY <1>1, SpecInv, PTL

\* openfile_destroy frees what nobody else names and nobody has locked, and a read,
\* write or lseek finds its open file in the same descriptor when it is through.
THEOREM NeverFreedInUse == Spec => []NotFreedInUse
<1>1. IInv => NotFreedInUse
  BY DEF IInv, Control, NotFreedInUse
<1>. QED  BY <1>1, SpecInv, PTL

\* of_offsetlock belongs to a call between lock_acquire and lock_release, whichever
\* way sys_readwrite and sys_lseek end.
THEOREM LocksGivenBack == Spec => []LockGivenBack
<1>1. IInv => LockGivenBack
  BY DEF IInv, Control
<1>. QED  BY <1>1, SpecInv, PTL

-----------------------------------------------------------------------------
(* The system calls are those of the manual *)

\* What the invariant lacks for that.  A read or write has the lock, and so its
\* position is the open file's; the loop of fork has copied what it went past; an
\* open file that is in no table yet is at its start; dup2's is in a descriptor.
LockHeld ==
  \A p \in Procs :
    /\ pc[p] \in {"io", "unlock", "seek"} => of[arg[p].file].offsetlock = p
    /\ pc[p] = "io" => arg[p].pos = of[arg[p].file].offset
Copied ==
  \A p \in Procs, d \in FDs :
    pc[p] = "copy" /\ d < arg[p].fd => ft_openfiles[arg[p].other][d] = ft_openfiles[p][d]
Fresh ==
  \A p \in Procs : pc[p] = "place" =>
    of[arg[p].file].refcount = 1 /\ of[arg[p].file].offset = 0
Source == \A p \in Procs : pc[p] = "dup" => \E d \in FDs : ft_openfiles[p][d] = arg[p].file

RInv == IInv /\ LockHeld /\ Copied /\ Fresh /\ Source

\* The file, the mode and the position of an open file.
SameOpen(o) == of'[o].vnode = of[o].vnode /\ of'[o].accmode = of[o].accmode
Kept(o)     == SameOpen(o) /\ of'[o].offset = of[o].offset

LEMMA UnlockKept ==
  ASSUME Control, NEW p \in Procs, arg[p].file \in Opens, NEW n, Unlock(p, n)
  PROVE  /\ \A o \in Opens \ {arg[p].file} : Kept(o)
         /\ SameOpen(arg[p].file) /\ of'[arg[p].file].offset = n
<1>1. PICK x \in Info : x = of[arg[p].file]
  BY DEF Control, Shape
<1>2. of'[arg[p].file] = [x EXCEPT !.offset = n, !.offsetlock = NULL]
  BY <1>1, UnlockEffect
<1>3. /\ [x EXCEPT !.offset = n, !.offsetlock = NULL].vnode = x.vnode
      /\ [x EXCEPT !.offset = n, !.offsetlock = NULL].accmode = x.accmode
      /\ [x EXCEPT !.offset = n, !.offsetlock = NULL].offset = n
  BY DEF Info
<1>. QED  BY <1>1, <1>2, <1>3, UnlockEffect DEF Kept, SameOpen

LEMMA FieldKept ==
  ASSUME Shape, NEW f \in Opens, NEW n,
         \/ of' = [of EXCEPT ![f] = [of[f] EXCEPT !.refcount = n]]
         \/ of' = [of EXCEPT ![f] = [of[f] EXCEPT !.offsetlock = n]]
  PROVE  \A o \in Opens : Kept(o)
<1>1. PICK x \in Info : x = of[f]
  BY DEF Shape
<1>2. /\ of'[f] \in {[x EXCEPT !.refcount = n], [x EXCEPT !.offsetlock = n]}
      /\ \A o \in Opens \ {f} : of'[o] = of[o]
  BY <1>1 DEF Shape
<1>3. \A y \in {[x EXCEPT !.refcount = n], [x EXCEPT !.offsetlock = n]} :
        y.vnode = x.vnode /\ y.accmode = x.accmode /\ y.offset = x.offset
  BY DEF Info
<1>. QED  BY <1>1, <1>2, <1>3 DEF Kept, SameOpen

\* Positions change under the lock, open files when they are opened and freed.
Moves(p) == SetOffset(p) \/ Seek(p)

LEMMA KeptStep ==
  ASSUME Control, NEW p \in Procs, Calls(p) \/ Kernel(p), NEW o \in Opens
  PROVE  \/ Kept(o)
         \/ OpenFile(p) /\ o = arg'[p].file
         \/ Destroy(p) /\ o = arg[p].file
         \/ Moves(p) /\ o = arg[p].file /\ SameOpen(o)
<1>1. CASE UNCHANGED of
  BY <1>1 DEF Kept, SameOpen
<1>2. CASE OpenFile(p)
  BY <1>2, OpenFileEffect DEF Kept, SameOpen
<1>3. CASE Destroy(p)
  BY <1>3, DestroyEffect DEF Kept, SameOpen
<1>4. CASE CopyTurn(p)
  <2>1. CASE UNCHANGED of
    BY <1>1, <2>1
  <2>2. CASE ~ UNCHANGED of
    <3>1. PICK f \in Opens : f = ft_openfiles[p][arg[p].fd] /\ incref(f)
      BY <1>4, <2>2, CopyTurnEffect DEF CopyTurn
    <3>2. of' = [of EXCEPT ![f] = [of[f] EXCEPT !.refcount = of[f].refcount + 1]]
      BY <3>1 DEF incref, Control, Shape
    <3>. QED  BY <3>2, FieldKept DEF Control
  <2>. QED  BY <2>1, <2>2
<1>5. CASE Dup2(p)
  <2>1. PICK f \in Opens : incref(f)
    BY <1>5 DEF Dup2, Control, Shape
  <2>2. of' = [of EXCEPT ![f] = [of[f] EXCEPT !.refcount = of[f].refcount + 1]]
    BY <2>1 DEF incref, Control, Shape
  <2>. QED  BY <2>2, FieldKept DEF Control
<1>6. CASE Decref(p)
  <2>1. CASE UNCHANGED of
    BY <1>1, <2>1
  <2>2. CASE ~ UNCHANGED of
    <3>1. PICK f \in Opens : f = arg[p].file
      BY <1>6, DecrefEffect
    <3>2. of' = [of EXCEPT ![f] = [of[f] EXCEPT !.refcount = of[f].refcount - 1]]
      BY <1>6, <2>2, <3>1 DEF Decref, Control, Shape
    <3>. QED  BY <3>2, FieldKept DEF Control
  <2>. QED  BY <2>1, <2>2
<1>7. CASE LockOffset(p)
  <2>1. PICK f \in Opens : f = arg[p].file
    BY <1>7 DEF LockOffset, Control, AtHand, Using
  <2>2. of' = [of EXCEPT ![f] = [of[f] EXCEPT !.offsetlock = p]]
    BY <1>7, <2>1 DEF LockOffset, Control, Shape
  <2>. QED  BY <2>2, FieldKept DEF Control
<1>8. CASE IOFails(p) \/ WriteBytes(p)
  <2>1. arg[p].file \in Opens
    BY <1>8 DEF IOFails, WriteBytes, Control, AtHand, Using
  <2>2. UNCHANGED of \/ Unlock(p, of[arg[p].file].offset)
    BY <1>8 DEF IOFails, WriteBytes
  <2>. QED  BY <1>1, <2>1, <2>2, UnlockKept DEF Kept
<1>9. CASE Moves(p)
  <2>1. arg[p].file \in Opens
    BY <1>9 DEF Moves, SetOffset, Seek, Control, AtHand, Using
  <2>2. \E n : Unlock(p, n)
    BY <1>9 DEF Moves, SetOffset, Seek
  <2>. QED  BY <1>9, <2>1, <2>2, UnlockKept
<1>10. CASE \/ Runprogram(p) \/ Fork(p) \/ Exit(p) \/ OpenFails(p) \/ Close(p) \/ Transfer(p)
            \/ Forked(p) \/ ForkFails(p) \/ CleanTurn(p) \/ Cleaned(p) \/ Place(p)
            \/ Dup2Place(p) \/ ReadBytes(p)
  BY <1>1, <1>10 DEF Runprogram, Fork, Exit, OpenFails, Close, Transfer, Forked, ForkFails,
                     CleanTurn, Cleaned, Place, Dup2Place, ReadBytes, PlaceAt
<1>. QED  BY <1>2, <1>3, <1>4, <1>5, <1>6, <1>7, <1>8, <1>9, <1>10 DEF Calls, Kernel, Moves

\* Only one process has a lock, so nobody moves the position of a file that
\* another one has locked, and nobody opens or frees what is at hand.
LEMMA UsedKept ==
  ASSUME RInv, NEW p \in Procs, Calls(p) \/ Kernel(p), NEW q \in Procs \ {p}
  PROVE  /\ pc[q] \in {"io", "unlock", "seek"} =>
              of'[arg[q].file].offsetlock = q /\ Kept(arg[q].file)
         /\ pc[q] = "place" => Kept(arg[q].file) /\ of'[arg[q].file].refcount = 1
<1>1. Control /\ Counted /\ NULL \notin Procs
  BY CountedHolds, OpenFilesAssumption DEF RInv, IInv, Control, OpenFilesAssumption
<1>2. \A o \in Opens : of[o] \in Info /\ of[o].refcount \in Int
  BY <1>1, InfoParts DEF Control, Shape
<1>3. ASSUME NEW o \in Opens, of[o].refcount >= 1, OpenFile(p)
      PROVE  o # arg'[p].file
  BY <1>1, <1>2, <1>3, OpenFileEffect
<1>4. ASSUME pc[q] \in {"io", "unlock", "seek"}
      PROVE  of'[arg[q].file].offsetlock = q /\ Kept(arg[q].file)
  <2>1. PICK o \in Opens : o = arg[q].file
    BY <1>1, <1>4 DEF Control, AtHand, Using
  <2>2. of[o].refcount >= 1 /\ of[o].offsetlock = q
    BY <1>1, <1>4, <2>1 DEF Counted, RInv, LockHeld, Control, AtHand, FileStays, Using
  <2>3. pc[p] \in {"lock", "io", "unlock", "seek", "destroy"} /\ arg[p].file = o => pc[p] = "lock"
    BY <1>1, <2>2 DEF RInv, IInv, LockHeld, LastReference
  <2>4. ~ (OpenFile(p) /\ o = arg'[p].file)
    BY <1>3, <2>2
  <2>5. ~ (Destroy(p) /\ o = arg[p].file)
    BY <2>3 DEF Destroy
  <2>6. ~ (Moves(p) /\ o = arg[p].file)
    BY <2>3 DEF Moves, SetOffset, Seek
  <2>7. Kept(o)
    BY <1>1, <2>4, <2>5, <2>6, KeptStep
  <2>8. of'[o].offsetlock = of[o].offsetlock
    <3>1. CASE UNCHANGED of
      BY <3>1
    <3>2. CASE OpenFile(p)
      BY <1>1, <2>4, <3>2, OpenFileEffect
    <3>3. CASE Destroy(p)
      BY <1>1, <2>5, <3>3, DestroyEffect
    <3>4. CASE CopyTurn(p) \/ Dup2(p) \/ Decref(p)
      BY <1>1, <3>4, CopyTurnEffect, Dup2Effect, DecrefEffect DEF Recount
    <3>5. CASE LockOffset(p)
      BY <1>1, <2>2, <3>5, LockOffsetEffect DEF Relock
    <3>6. CASE WriteBytes(p)
      BY <1>1, <2>3, <3>6, WriteBytesEffect DEF Relock
    <3>7. CASE IOFails(p) \/ SetOffset(p) \/ Seek(p)
      <4>1. pc[p] \in {"io", "unlock", "seek"}
        BY <3>7 DEF IOFails, SetOffset, Seek
      <4>. QED  BY <1>1, <2>3, <3>7, <4>1, FinishEffect DEF Relock
    <3>8. CASE \/ Runprogram(p) \/ Fork(p) \/ Exit(p) \/ OpenFails(p) \/ Close(p) \/ Transfer(p)
               \/ Forked(p) \/ ForkFails(p) \/ CleanTurn(p) \/ Cleaned(p) \/ Place(p)
               \/ Dup2Place(p) \/ ReadBytes(p)
      BY <3>1, <3>8 DEF Runprogram, Fork, Exit, OpenFails, Close, Transfer, Forked, ForkFails,
                        CleanTurn, Cleaned, Place, Dup2Place, ReadBytes, PlaceAt
    <3>. QED  BY <3>2, <3>3, <3>4, <3>5, <3>6, <3>7, <3>8 DEF Calls, Kernel
  <2>. QED  BY <2>1, <2>2, <2>7, <2>8
<1>5. ASSUME pc[q] = "place"
      PROVE  Kept(arg[q].file) /\ of'[arg[q].file].refcount = 1
  <2>1. PICK o \in Opens : o = arg[q].file
    BY <1>1, <1>5 DEF Control, AtHand
  <2>2. of[o].refcount = 1 /\ q \in Held(o)
    BY <1>5, <2>1 DEF RInv, Fresh, Held
  <2>3. Slots(o) = {} /\ \A x \in Held(o) : x = q
    BY <1>1, <2>2, References DEF RInv, IInv, Control
  <2>4. ~ (OpenFile(p) /\ o = arg'[p].file)
    BY <1>3, <2>2
  <2>5. ~ (pc[p] \in Dropping /\ o = arg[p].file)
    <3>1. SUFFICES ASSUME pc[p] \in Dropping, o = arg[p].file  PROVE FALSE
      OBVIOUS
    <3>2. arg[p].other \in Procs \cup {NULL}
      BY <1>1, ArgParts DEF Control, Shape
    <3>3. CASE arg[p].other = NULL
      <4>1. p \in Held(o)
        BY <3>1, <3>3 DEF Held, Dropping
      <4>. QED  BY <2>3, <4>1
    <3>4. CASE arg[p].other \in Procs
      <4>1. <<arg[p].other, arg[p].fd>> \in Slots(o)
        BY <1>1, <3>1, <3>4 DEF Control, AtHand, Slots
      <4>. QED  BY <2>3, <4>1
    <3>. QED  BY <3>2, <3>3, <3>4
  <2>6. ~ (pc[p] \in Using /\ o = arg[p].file)
    <3>1. SUFFICES ASSUME pc[p] \in Using, o = arg[p].file  PROVE FALSE
      OBVIOUS
    <3>2. <<p, arg[p].fd>> \in Slots(o)
      BY <1>1, <3>1 DEF Control, AtHand, FileStays, Using, Slots
    <3>. QED  BY <2>3, <3>2
  <2>7. Kept(o)
    BY <1>1, <2>4, <2>5, <2>6, KeptStep DEF Moves, SetOffset, Seek, Destroy, Dropping, Using
  <2>8. of'[o].refcount = of[o].refcount
    <3>1. CASE UNCHANGED of
      BY <3>1
    <3>2. CASE OpenFile(p)
      BY <1>1, <2>4, <3>2, OpenFileEffect
    <3>3. CASE Destroy(p)
      BY <1>1, <2>5, <3>3, DestroyEffect DEF Dropping
    <3>4. CASE CopyTurn(p)
      <4>1. ft_openfiles[p][arg[p].fd] # o
        <5>1. arg[p].fd \in FDs
          BY <1>1, <3>4, CopyTurnEffect
        <5>2. ft_openfiles[p][arg[p].fd] = o => <<p, arg[p].fd>> \in Slots(o)
          BY <5>1 DEF Slots
        <5>. QED  BY <2>3, <5>2
      <4>. QED  BY <1>1, <1>2, <3>4, <4>1, CopyTurnEffect DEF Recount
    <3>5. CASE Dup2(p)
      <4>1. arg'[p].file # o
        <5>1. PICK d \in FDs : ft_openfiles[p][d] = arg'[p].file
          BY <1>1, <3>5, Dup2Effect
        <5>2. ft_openfiles[p][d] = o => <<p, d>> \in Slots(o)
          BY DEF Slots
        <5>. QED  BY <2>3, <5>1, <5>2
      <4>. QED  BY <1>1, <1>2, <3>5, <4>1, Dup2Effect DEF Recount
    <3>6. CASE Decref(p)
      BY <1>1, <1>2, <2>5, <3>6, DecrefEffect DEF Recount, Dropping
    <3>7. CASE LockOffset(p)
      BY <1>1, <3>7, LockOffsetEffect DEF Relock
    <3>8. CASE WriteBytes(p)
      BY <1>1, <3>8, WriteBytesEffect DEF Relock
    <3>9. CASE IOFails(p) \/ SetOffset(p) \/ Seek(p)
      BY <1>1, <3>9, FinishEffect DEF Relock
    <3>10. CASE \/ Runprogram(p) \/ Fork(p) \/ Exit(p) \/ OpenFails(p) \/ Close(p) \/ Transfer(p)
               \/ Forked(p) \/ ForkFails(p) \/ CleanTurn(p) \/ Cleaned(p) \/ Place(p)
               \/ Dup2Place(p) \/ ReadBytes(p)
      BY <3>1, <3>10 DEF Runprogram, Fork, Exit, OpenFails, Close, Transfer, Forked, ForkFails,
                        CleanTurn, Cleaned, Place, Dup2Place, ReadBytes, PlaceAt
    <3>. QED  BY <3>2, <3>3, <3>4, <3>5, <3>6, <3>7, <3>8, <3>9, <3>10 DEF Calls, Kernel
  <2>. QED  BY <2>1, <2>2, <2>7, <2>8
<1>. QED  BY <1>4, <1>5

\* A step of p works on its own table or on that of its child, which is born; it
\* leaves the calls of the others alone, and wakes or buries no one but the child.
LEMMA OthersStep ==
  ASSUME Control, NEW p \in Procs, Calls(p) \/ Kernel(p), NEW q \in Procs \ {p}
  PROVE  /\ arg'[q] = arg[q]
         /\ \/ pc'[q] = pc[q]
            \/ pc[q] \in {"none", "born"} /\ pc'[q] \in {"none", "born", "run"}
         /\ pc[q] # "born" => \A d \in FDs : ft_openfiles'[q][d] = ft_openfiles[q][d]
         /\ q # arg[p].other => \A d \in FDs : ft_openfiles'[q][d] = ft_openfiles[q][d]
<1>a. arg[p].other \in Procs \ {p} => pc[arg[p].other] = "born"
  BY DEF Control, OwnTable
<1>1. CASE Runprogram(p) \/ Exit(p) \/ ForkFails(p)
  BY <1>1, StartEffect DEF Alone
<1>2. CASE Fork(p)
  BY <1>2, ForkEffect
<1>3. CASE OpenFile(p) \/ Dup2(p) \/ Transfer(p)
  BY <1>3, OpenFileEffect, Dup2Effect, TransferEffect DEF Alone
<1>4. CASE OpenFails(p)
  BY <1>4 DEF OpenFails
<1>5. CASE Close(p) \/ Dup2Place(p)
  BY <1>5, CloseEffect DEF Placed, Alone, Set
<1>6. CASE CopyTurn(p)
  BY <1>a, <1>6, CopyTurnEffect DEF Alone, Set
<1>7. CASE Forked(p)
  BY <1>7, ForkedEffect
<1>8. CASE CleanTurn(p)
  BY <1>8, CleanTurnEffect DEF Alone
<1>9. CASE Cleaned(p)
  BY <1>9, CleanedEffect
<1>10. CASE Decref(p) \/ Destroy(p)
  BY <1>a, <1>10, DecrefEffect, DestroyEffect, AfterDecrefEffect DEF Alone, Set, Dropping
<1>11. CASE Place(p)
  BY <1>11, PlaceEffect DEF Alone, Set
<1>12. CASE LockOffset(p) \/ ReadBytes(p) \/ WriteBytes(p)
  BY <1>12, LockOffsetEffect, ReadBytesEffect, WriteBytesEffect DEF Alone
<1>13. CASE IOFails(p) \/ SetOffset(p) \/ Seek(p)
  BY <1>13, FinishEffect DEF Alone
<1>. QED  BY <1>1, <1>2, <1>3, <1>4, <1>5, <1>6, <1>7, <1>8, <1>9, <1>10, <1>11, <1>12, <1>13
             DEF Calls, Kernel

\* Where the process that takes a step goes.
LEMMA WhereNext ==
  ASSUME Control, NEW p \in Procs, Calls(p) \/ Kernel(p)
  PROVE  /\ pc[p] # "born"
         /\ pc'[p] = "place" => OpenFile(p)
         /\ pc'[p] = "dup" => Dup2(p)
         /\ pc'[p] = "copy" => Fork(p) \/ CopyTurn(p)
         /\ pc'[p] = "io" => LockOffset(p)
         /\ pc'[p] = "unlock" => ReadBytes(p) \/ WriteBytes(p)
         /\ pc'[p] = "seek" => LockOffset(p)
<1>1. CASE Runprogram(p) \/ Exit(p) \/ ForkFails(p)
  BY <1>1, StartEffect DEF Back
<1>2. CASE Fork(p)
  BY <1>2, ForkEffect
<1>3. CASE OpenFile(p) \/ Dup2(p) \/ Transfer(p)
  BY <1>3, OpenFileEffect, Dup2Effect, TransferEffect
<1>4. CASE OpenFails(p)
  BY <1>4 DEF OpenFails
<1>5. CASE Close(p) \/ Dup2Place(p)
  BY <1>5, CloseEffect DEF Placed, Back
<1>6. CASE CopyTurn(p)
  BY <1>6, CopyTurnEffect
<1>7. CASE Forked(p)
  BY <1>7, ForkedEffect DEF Back
<1>8. CASE CleanTurn(p)
  BY <1>8, CleanTurnEffect
<1>9. CASE Cleaned(p)
  BY <1>9, CleanedEffect
<1>10. CASE Decref(p) \/ Destroy(p)
  BY <1>10, DecrefEffect, DestroyEffect, AfterDecrefEffect DEF Dropping, Back
<1>11. CASE Place(p)
  BY <1>11, PlaceEffect DEF Back
<1>12. CASE LockOffset(p) \/ ReadBytes(p) \/ WriteBytes(p)
  BY <1>12, LockOffsetEffect, ReadBytesEffect, WriteBytesEffect DEF Back
<1>13. CASE IOFails(p) \/ SetOffset(p) \/ Seek(p)
  BY <1>13, FinishEffect DEF Back, Using
<1>. QED  BY <1>1, <1>2, <1>3, <1>4, <1>5, <1>6, <1>7, <1>8, <1>9, <1>10, <1>11, <1>12, <1>13
             DEF Calls, Kernel

LEMMA RefinementInvStep ==
  ASSUME RInv, NEW p \in Procs, Calls(p) \/ Kernel(p)
  PROVE  LockHeld' /\ Copied' /\ Fresh' /\ Source'
<1>1. Control /\ OwnTable /\ \A q \in Procs : arg[q] \in Args /\ arg[q].fd \in Nat
  BY ArgParts DEF RInv, IInv, Control, Shape
<1>2. LockHeld'
  <2>1. ASSUME pc'[p] \in {"io", "unlock", "seek"}
        PROVE  /\ of'[arg'[p].file].offsetlock = p
               /\ pc'[p] = "io" => arg'[p].pos = of'[arg'[p].file].offset
    <3>1. CASE LockOffset(p)
      <4>1. PICK o \in Opens : o = arg[p].file
        BY <1>1, <3>1 DEF LockOffset, Control, AtHand, Using
      <4>2. of'[o].offsetlock = p /\ arg'[p].file = o
        BY <1>1, <3>1, <4>1, LockOffsetEffect DEF Relock, SameCall
      <4>3. arg'[p].pos = of[o].offset
        BY <1>1, <3>1, <4>1 DEF LockOffset, Step, Control, Shape, Args
      <4>4. Kept(o)
        BY <1>1, <3>1, <4>1, KeptStep DEF LockOffset, OpenFile, Destroy, Moves, SetOffset, Seek
      <4>. QED  BY <4>2, <4>3, <4>4 DEF Kept
    <3>2. CASE ReadBytes(p) \/ WriteBytes(p)
      <4>1. UNCHANGED of /\ arg'[p].file = arg[p].file /\ pc[p] = "io" /\ pc'[p] # "io"
        BY <1>1, <2>1, <3>2, ReadBytesEffect, WriteBytesEffect DEF SameCall, Back
      <4>. QED  BY <4>1 DEF RInv, LockHeld
    <3>. QED  BY <1>1, <2>1, <3>1, <3>2, WhereNext
  <2>2. ASSUME NEW q \in Procs \ {p}, pc'[q] \in {"io", "unlock", "seek"}
        PROVE  /\ of'[arg'[q].file].offsetlock = q
               /\ pc'[q] = "io" => arg'[q].pos = of'[arg'[q].file].offset
    <3>1. pc[q] = pc'[q] /\ arg'[q] = arg[q]
      BY <1>1, <2>2, OthersStep
    <3>. QED  BY <2>2, <3>1, UsedKept DEF RInv, LockHeld, Kept
  <2>. QED  BY <2>1, <2>2 DEF LockHeld
<1>3. Copied'
  <2>1. ASSUME pc'[p] = "copy", NEW d \in FDs, d < arg'[p].fd
        PROVE  ft_openfiles'[arg'[p].other][d] = ft_openfiles'[p][d]
    <3>1. CASE Fork(p)
      BY <1>1, <2>1, <3>1, ForkEffect, OpenFilesAssumption DEF FDs, OpenFilesAssumption
    <3>2. CASE CopyTurn(p)
      <4>1. d \in Int /\ arg[p].fd \in Int
        BY <1>1 DEF FDs
      <4>2. d < arg[p].fd \/ d = arg[p].fd
        BY <1>1, <2>1, <3>2, <4>1, CopyTurnEffect
      <4>. QED  BY <1>1, <3>2, <4>2, CopyTurnEffect DEF Set, RInv, Copied
    <3>. QED  BY <1>1, <2>1, <3>1, <3>2, WhereNext
  <2>2. ASSUME NEW q \in Procs \ {p}, pc'[q] = "copy", NEW d \in FDs, d < arg'[q].fd
        PROVE  ft_openfiles'[arg'[q].other][d] = ft_openfiles'[q][d]
    <3>1. pc[q] = "copy" /\ arg'[q] = arg[q]
      BY <1>1, <2>2, OthersStep
    <3>2. arg[q].other \in Procs \ {p} /\ arg[q].other # arg[p].other
      BY <1>1, <3>1, WhereNext DEF OwnTable
    <3>3. ft_openfiles'[arg[q].other][d] = ft_openfiles[arg[q].other][d]
      BY <1>1, <3>2, OthersStep
    <3>4. ft_openfiles'[q][d] = ft_openfiles[q][d]
      BY <1>1, <3>1, OthersStep
    <3>. QED  BY <2>2, <3>1, <3>3, <3>4 DEF RInv, Copied
  <2>. QED  BY <2>1, <2>2 DEF Copied
<1>4. Fresh'
  <2>1. ASSUME pc'[p] = "place"
        PROVE  of'[arg'[p].file].refcount = 1 /\ of'[arg'[p].file].offset = 0
    <3>1. OpenFile(p)
      BY <1>1, <2>1, WhereNext
    <3>2. PICK o \in Opens, v \in Files, m \in Modes :
            /\ of' = [of EXCEPT ![o] = [Freed EXCEPT !.vnode = v, !.accmode = m, !.refcount = 1]]
            /\ Step(p, "place", [NoArg EXCEPT !.file = o])
      BY <3>1 DEF OpenFile
    <3>3. arg'[p].file = o
      BY <1>1, <3>2 DEF Step, Control, Shape, NoArg
    <3>4. of'[o] = [vnode |-> v, accmode |-> m, offset |-> 0, refcount |-> 1, offsetlock |-> NULL]
      BY <1>1, <3>2 DEF Freed, Control, Shape
    <3>. QED  BY <3>3, <3>4
  <2>2. ASSUME NEW q \in Procs \ {p}, pc'[q] = "place"
        PROVE  of'[arg'[q].file].refcount = 1 /\ of'[arg'[q].file].offset = 0
    <3>1. pc[q] = "place" /\ arg'[q] = arg[q]
      BY <1>1, <2>2, OthersStep
    <3>. QED  BY <3>1, UsedKept DEF RInv, Fresh, Kept
  <2>. QED  BY <2>1, <2>2 DEF Fresh
<1>5. Source'
  <2>1. ASSUME pc'[p] = "dup"
        PROVE  \E d \in FDs : ft_openfiles'[p][d] = arg'[p].file
    BY <1>1, <2>1, WhereNext, Dup2Effect
  <2>2. ASSUME NEW q \in Procs \ {p}, pc'[q] = "dup"
        PROVE  \E d \in FDs : ft_openfiles'[q][d] = arg'[q].file
    <3>1. pc[q] = "dup" /\ arg'[q] = arg[q]
      BY <1>1, <2>2, OthersStep
    <3>. QED  BY <1>1, <3>1, OthersStep DEF RInv, Source
  <2>. QED  BY <2>1, <2>2 DEF Source
<1>. QED  BY <1>2, <1>3, <1>4, <1>5

LEMMA SpecRInv == Spec => []RInv
<1>1. Init => RInv
  <2>. SUFFICES ASSUME Init
                PROVE  RInv
    OBVIOUS
  <2>1. \A p \in Procs : pc[p] = "none"
    BY DEF Init
  <2>2. LockHeld /\ Copied /\ Fresh /\ Source
    BY <2>1 DEF LockHeld, Copied, Fresh, Source
  <2>. QED  BY <2>2, InitInv DEF RInv
<1>2. RInv /\ [Next]_vars => RInv'
  <2>. SUFFICES ASSUME RInv, [Next]_vars
                PROVE  RInv'
    OBVIOUS
  <2>1. IInv'
    BY StepInv DEF RInv
  <2>2. CASE Next
    <3>1. PICK p \in Procs : Calls(p) \/ Kernel(p)
      BY <2>2 DEF Next
    <3>. QED  BY <2>1, <3>1, RefinementInvStep DEF RInv
  <2>3. CASE UNCHANGED vars
    BY <2>1, <2>3 DEF vars, RInv, LockHeld, Copied, Fresh, Source
  <2>. QED  BY <2>2, <2>3
<1>. QED  BY <1>1, <1>2, PTL DEF Spec

\* The descriptors of a process that runs, and what the manual says of an open file.
Fds(p)   == {d \in FDs : p \in Running /\ ft_openfiles[p][d] # NULL}
Shown(o) == [file |-> of[o].vnode, mode |-> of[o].accmode, seek |-> Position(o)]

LEMMA NamesParts ==
  /\ Names = [p \in Procs |-> [d \in Fds(p) |-> ft_openfiles[p][d]]]
  /\ About = [o \in Named |-> Shown(o)]
BY DEF Names, About, Fds, Shown

LEMMA NamesPartsThen ==
  /\ Names' = [p \in Procs |-> [d \in Fds(p)' |-> ft_openfiles'[p][d]]]
  /\ About' = [o \in Named' |-> Shown(o)']
BY DEF Names, About, Fds, Shown

\* The position of an open file that is being moved is where the mover will leave it.
LEMMA PositionIs ==
  RInv => \A o \in Opens :
    /\ (\A p \in Procs : pc[p] = "unlock" => arg[p].file # o) => Position(o) = of[o].offset
    /\ \A p \in Procs : pc[p] = "unlock" /\ arg[p].file = o => Position(o) = arg[p].pos
<1>. SUFFICES ASSUME RInv, NEW o \in Opens
              PROVE  /\ (\A p \in Procs : pc[p] = "unlock" => arg[p].file # o) => Position(o) = of[o].offset
                     /\ \A p \in Procs : pc[p] = "unlock" /\ arg[p].file = o => Position(o) = arg[p].pos
  OBVIOUS
<1>1. ASSUME \A p \in Procs : pc[p] = "unlock" => arg[p].file # o
      PROVE  Position(o) = of[o].offset
  <2>1. Mover(o) = {}
    BY <1>1 DEF Mover
  <2>. QED  BY <2>1 DEF Position
<1>2. ASSUME NEW p \in Procs, pc[p] = "unlock", arg[p].file = o
      PROVE  Position(o) = arg[p].pos
  <2>1. \A q \in Mover(o) : q = p
    BY <1>2 DEF Mover, RInv, LockHeld
  <2>2. Mover(o) # {} /\ (CHOOSE q \in Mover(o) : TRUE) = p
    BY <1>2, <2>1 DEF Mover
  <2>. QED  BY <2>2 DEF Position
<1>. QED  BY <1>1, <1>2

LEMMA PositionThen ==
  RInv' => \A o \in Opens :
    /\ (\A p \in Procs : pc'[p] = "unlock" => arg'[p].file # o) => Position(o)' = of'[o].offset
    /\ \A p \in Procs : pc'[p] = "unlock" /\ arg'[p].file = o => Position(o)' = arg'[p].pos
<1>1. (RInv => \A o \in Opens :
         /\ (\A p \in Procs : pc[p] = "unlock" => arg[p].file # o) => Position(o) = of[o].offset
         /\ \A p \in Procs : pc[p] = "unlock" /\ arg[p].file = o => Position(o) = arg[p].pos)'
  BY PositionIs, PTL
<1>. QED  BY <1>1

\* Whatever process p does, it shows an open file that it does not read, write or
\* seek in as it was.
LEMMA PositionStep ==
  ASSUME RInv, RInv', NEW p \in Procs, Calls(p) \/ Kernel(p), NEW o \in Opens, Kept(o),
         pc[p] = "unlock" => arg[p].file # o, pc'[p] = "unlock" => arg'[p].file # o
  PROVE  Position(o)' = Position(o)
<1>1. \A q \in Procs \ {p} :
        /\ arg'[q] = arg[q]
        /\ \/ pc'[q] = pc[q]
           \/ pc[q] # "unlock" /\ pc'[q] # "unlock"
  BY OthersStep DEF RInv, IInv
<1>2. CASE \E q \in Procs : pc[q] = "unlock" /\ arg[q].file = o
  <2>1. PICK q \in Procs : pc[q] = "unlock" /\ arg[q].file = o
    BY <1>2
  <2>2. q # p /\ pc'[q] = "unlock" /\ arg'[q] = arg[q]
    BY <1>1, <2>1
  <2>3. Position(o) = arg[q].pos /\ Position(o)' = arg'[q].pos
    BY <2>1, <2>2, PositionIs, PositionThen
  <2>. QED  BY <2>2, <2>3
<1>3. CASE \A q \in Procs : pc[q] = "unlock" => arg[q].file # o
  <2>1. \A q \in Procs : pc'[q] = "unlock" => arg'[q].file # o
    BY <1>1, <1>3
  <2>. QED  BY <1>3, <2>1, PositionIs, PositionThen DEF Kept
<1>. QED  BY <1>2, <1>3

\* Nothing is opened as, or freed, that a process that runs has in its table.
LEMMA NamedKept ==
  ASSUME RInv, NEW p \in Procs, NEW o \in Named
  PROVE  /\ o \in Opens /\ of[o].refcount >= 1
         /\ ~ (pc[p] = "destroy" /\ arg[p].file = o)
<1>1. Control /\ Counted /\ Shape /\ RefcountExact
  BY CountedHolds DEF RInv, IInv, Control
<1>2. PICK q \in Running, d \in FDs : ft_openfiles[q][d] = o
  BY DEF Named
<1>3. o \in Opens /\ q \in Procs /\ pc[q] # "born" /\ arg[q].other # q
  BY <1>2 DEF Named, Running
<1>4. of[o].refcount >= 1
  BY <1>1, <1>2, <1>3 DEF Counted
<1>5. ASSUME pc[p] = "destroy", arg[p].file = o
      PROVE  FALSE
  <2>1. of[o].refcount = 1
    BY <1>5 DEF RInv, IInv, LastReference
  <2>2. CASE q # p
    BY <1>1, <1>2, <1>3, <1>5, <2>1, <2>2, TwoReferences DEF Dropping
  <2>3. CASE q = p
    <3>1. <<p, d>> \in Slots(o)
      BY <1>2, <2>3 DEF Slots
    <3>2. CASE arg[p].other = NULL
      <4>1. p \in Held(o)
        BY <1>5, <3>2 DEF Held
      <4>. QED  BY <1>1, <1>3, <2>1, <3>1, <4>1, References
    <3>3. CASE arg[p].other \in Procs
      <4>1. <<arg[p].other, arg[p].fd>> \in Slots(o)
        BY <1>1, <1>5, <3>3 DEF Control, AtHand, Dropping, Slots
      <4>2. <<arg[p].other, arg[p].fd>> # <<p, d>>
        BY <1>3, <2>3
      <4>. QED  BY <1>1, <1>3, <2>1, <3>1, <4>1, <4>2, References
    <3>4. arg[p].other \in Procs \cup {NULL}
      BY <1>1, ArgParts DEF Shape
    <3>. QED  BY <3>2, <3>3, <3>4
  <2>. QED  BY <2>2, <2>3
<1>. QED  BY <1>3, <1>4, <1>5

\* Storing the position that was read or written shows no change.
LEMMA ShownStep ==
  ASSUME RInv, RInv', NEW p \in Procs, Calls(p) \/ Kernel(p), NEW o \in Named,
         ReadBytes(p) \/ Seek(p) \/ (WriteBytes(p) /\ pc'[p] = "unlock") => o # arg[p].file
  PROVE  Shown(o)' = Shown(o)
<1>1. Control /\ o \in Opens /\ of[o].refcount >= 1 /\ \A x \in Opens : of[x].refcount \in Int
  BY NamedKept, InfoParts DEF RInv, IInv, Control, Shape
<1>2. ~ (Destroy(p) /\ o = arg[p].file)
  BY NamedKept DEF Destroy
<1>3. ~ (OpenFile(p) /\ o = arg'[p].file)
  BY <1>1, OpenFileEffect
<1>4. CASE Kept(o) /\ ~ (pc[p] = "unlock" /\ arg[p].file = o)
  <2>1. pc'[p] = "unlock" => arg'[p].file # o
    <3>1. SUFFICES ASSUME pc'[p] = "unlock"  PROVE arg'[p].file # o
      OBVIOUS
    <3>2. ReadBytes(p) \/ WriteBytes(p)
      BY <1>1, <3>1, WhereNext
    <3>3. arg'[p].file = arg[p].file
      BY <1>1, <3>1, <3>2, ReadBytesEffect, WriteBytesEffect DEF SameCall, Back
    <3>. QED  BY <3>1, <3>2, <3>3
  <2>2. Position(o)' = Position(o)
    BY <1>1, <1>4, <2>1, PositionStep
  <2>. QED  BY <1>4, <2>2 DEF Shown, Kept, SameOpen
<1>5. CASE pc[p] = "unlock" /\ arg[p].file = o
  <2>1. SetOffset(p)
    BY <1>5 DEF Calls, Kernel, Runprogram, Fork, Exit, OpenFile, OpenFails, Close, Dup2, Transfer,
            CopyTurn, Forked, ForkFails, CleanTurn, Cleaned, Decref, Destroy, Place, Dup2Place,
            LockOffset, IOFails, ReadBytes, WriteBytes, Seek
  <2>2. SameOpen(o) /\ of'[o].offset = arg[p].pos
    BY <1>1, <1>5, <2>1, UnlockKept DEF SetOffset
  <2>3. of[o].offsetlock = p /\ pc'[p] = "run"
    BY <1>1, <1>5, <2>1, FinishEffect DEF RInv, LockHeld, Back
  <2>4. \A q \in Procs : pc'[q] = "unlock" => arg'[q].file # o
    <3>1. SUFFICES ASSUME NEW q \in Procs \ {p}, pc'[q] = "unlock", arg'[q].file = o  PROVE FALSE
      BY <2>3
    <3>2. pc[q] = "unlock" /\ arg[q].file = o
      BY <1>1, <3>1, OthersStep
    <3>. QED  BY <2>3, <3>2 DEF RInv, LockHeld
  <2>5. Position(o)' = arg[p].pos /\ Position(o) = arg[p].pos
    BY <1>1, <1>5, <2>2, <2>4, PositionIs, PositionThen
  <2>. QED  BY <2>2, <2>5 DEF Shown, SameOpen
<1>6. Kept(o) \/ (Moves(p) /\ o = arg[p].file)
  BY <1>1, <1>2, <1>3, KeptStep
<1>. QED  BY <1>4, <1>5, <1>6 DEF Moves, SetOffset

\* Who runs, and what is in the tables of those.
Runs(q) == pc[q] \notin {"none", "born"} /\ arg[q].other # q

LEMMA RunsStep ==
  ASSUME Control, NEW p \in Procs, Calls(p) \/ Kernel(p)
  PROVE  \/ Runprogram(p) /\ ~ Runs(p) /\ \A q \in Procs : Runs(q)' <=> Runs(q) \/ q = p
         \/ Exit(p) /\ Runs(p) /\ \A q \in Procs : Runs(q)' <=> Runs(q) /\ q # p
         \/ /\ Forked(p) /\ Runs(p) /\ arg[p].other \in Procs /\ ~ Runs(arg[p].other)
            /\ \A q \in Procs : Runs(q)' <=> Runs(q) \/ q = arg[p].other
         \/ /\ ~ (Runprogram(p) \/ Exit(p) \/ Forked(p))
            /\ \A q \in Procs : Runs(q)' <=> Runs(q)
<1>a. OwnTable /\ NULL \notin Procs
  BY OpenFilesAssumption DEF Control, OpenFilesAssumption
<1>b. pc[p] \notin OnTable => arg[p].other # p
  BY <1>a DEF OwnTable
<1>1. CASE Runprogram(p)
  <2>1. \A q \in Procs : Runs(q)' <=> Runs(q) \/ q = p
    BY <1>a, <1>1, StartEffect DEF Runs, Alone, Back, NoArg
  <2>2. ~ Runs(p)
    BY <1>1, StartEffect DEF Runs
  <2>. QED  BY <1>1, <2>1, <2>2
<1>2. CASE Exit(p)
  <2>1. \A q \in Procs : Runs(q)' <=> Runs(q) /\ q # p
    BY <1>a, <1>2, StartEffect DEF Runs, Alone
  <2>2. Runs(p)
    BY <1>b, <1>2, StartEffect DEF Runs, OnTable, Dropping
  <2>. QED  BY <1>2, <2>1, <2>2
<1>3. CASE Forked(p)
  <2>1. arg[p].other \in Procs /\ Runs(p) /\ ~ Runs(arg[p].other)
    BY <1>a, <1>3, ForkedEffect DEF Runs
  <2>2. \A q \in Procs : Runs(q)' <=> Runs(q) \/ q = arg[p].other
    BY <1>a, <1>3, ForkedEffect DEF Runs, Back, NoArg
  <2>. QED  BY <1>3, <2>1, <2>2
<1>4. ASSUME ~ (Runprogram(p) \/ Exit(p) \/ Forked(p)), NEW q \in Procs
      PROVE  Runs(q)' <=> Runs(q)
  <2>1. CASE ForkFails(p)
    BY <2>1, StartEffect DEF Runs, Alone
  <2>2. CASE Fork(p)
    BY <1>a, <2>2, ForkEffect DEF Runs
  <2>3. CASE OpenFile(p)
    BY <1>a, <1>b, <2>3, OpenFileEffect DEF Runs, Alone, OnTable, Dropping
  <2>4. CASE Dup2(p)
    BY <1>a, <1>b, <2>4, Dup2Effect DEF Runs, Alone, OnTable, Dropping
  <2>5. CASE Transfer(p)
    BY <1>a, <1>b, <2>5, TransferEffect DEF Runs, Alone, OnTable, Dropping
  <2>6. CASE OpenFails(p)
    BY <2>6 DEF OpenFails, Runs
  <2>7. CASE Close(p) \/ Dup2Place(p)
    BY <1>a, <2>7, CloseEffect DEF Runs, Placed, Alone, Back, NoArg
  <2>8. CASE CopyTurn(p)
    BY <2>8, CopyTurnEffect DEF Runs, Alone
  <2>9. CASE CleanTurn(p)
    BY <2>9, CleanTurnEffect DEF Runs, Alone
  <2>10. CASE Cleaned(p)
    <3>1. pc'[p] = "run" => arg[p].other # p
      BY <2>10 DEF Cleaned, Control, Shape
    <3>. QED  BY <1>a, <2>10, <3>1, CleanedEffect DEF Runs, NoArg
  <2>11. CASE Decref(p)
    BY <1>a, <2>11, DecrefEffect, AfterDecrefEffect DEF Runs, Alone, Dropping, Back, NoArg
  <2>12. CASE Destroy(p)
    BY <1>a, <2>12, DestroyEffect, AfterDecrefEffect DEF Runs, Alone, Dropping, Back, NoArg
  <2>13. CASE Place(p)
    BY <1>a, <2>13, PlaceEffect DEF Runs, Alone, Back, NoArg
  <2>14. CASE LockOffset(p)
    BY <2>14, LockOffsetEffect DEF Runs, Alone, SameCall
  <2>15. CASE ReadBytes(p)
    BY <2>15, ReadBytesEffect DEF Runs, Alone, SameCall
  <2>16. CASE WriteBytes(p)
    BY <1>a, <1>b, <2>16, WriteBytesEffect DEF Runs, Alone, Back, NoArg, OnTable, Dropping
  <2>17. CASE IOFails(p) \/ SetOffset(p) \/ Seek(p)
    BY <1>a, <1>b, <2>17, FinishEffect DEF Runs, Alone, Back, NoArg, Using, OnTable, Dropping
  <2>. QED  BY <1>4, <2>1, <2>2, <2>3, <2>4, <2>5, <2>6, <2>7, <2>8, <2>9, <2>10, <2>11, <2>12, <2>13,
               <2>14, <2>15, <2>16, <2>17 DEF Calls, Kernel
<1>. QED  BY <1>1, <1>2, <1>3, <1>4

LEMMA RunningStep ==
  ASSUME Control, NEW p \in Procs, Calls(p) \/ Kernel(p)
  PROVE  \/ Runprogram(p) /\ p \notin Running /\ Running' = Running \cup {p}
         \/ Exit(p) /\ p \in Running /\ Running' = Running \ {p}
         \/ /\ Forked(p) /\ p \in Running /\ arg[p].other \in Procs \ Running
            /\ Running' = Running \cup {arg[p].other}
         \/ ~ (Runprogram(p) \/ Exit(p) \/ Forked(p)) /\ Running' = Running
<1>1. /\ \A q : q \in Running <=> q \in Procs /\ Runs(q)
      /\ \A q : q \in Running' <=> q \in Procs /\ Runs(q)'
  BY DEF Running, Runs
<1>. QED  BY <1>1, RunsStep

LEMMA TablesStep ==
  ASSUME Control, NEW p \in Procs, Calls(p) \/ Kernel(p), NEW q \in Running
  PROVE  \/ \A d \in FDs : ft_openfiles'[q][d] = ft_openfiles[q][d]
         \/ q = p /\ (Place(p) \/ Close(p) \/ Dup2Place(p))
<1>1. q \in Procs /\ pc[q] # "born" /\ arg[q].other # q
  BY DEF Running
<1>2. CASE q # p
  BY <1>1, <1>2, OthersStep
<1>3. CASE q = p
  <2>1. CASE UNCHANGED ft_openfiles
    BY <2>1
  <2>2. CASE CopyTurn(p)
    BY <1>3, <2>2, CopyTurnEffect DEF Set
  <2>3. CASE Decref(p) \/ Destroy(p)
    BY <1>1, <1>3, <2>3, DecrefEffect, DestroyEffect, AfterDecrefEffect DEF Set, Dropping
  <2>4. CASE \/ Runprogram(p) \/ Fork(p) \/ Exit(p) \/ OpenFile(p) \/ OpenFails(p) \/ Dup2(p) \/ Transfer(p)
             \/ Forked(p) \/ ForkFails(p) \/ CleanTurn(p) \/ Cleaned(p) \/ LockOffset(p) \/ IOFails(p)
             \/ ReadBytes(p) \/ WriteBytes(p) \/ SetOffset(p) \/ Seek(p)
    BY <2>1, <2>4 DEF Runprogram, Fork, Exit, OpenFile, OpenFails, Dup2, Transfer, Forked, ForkFails,
       CleanTurn, Cleaned, LockOffset, IOFails, ReadBytes, WriteBytes, SetOffset, Seek
  <2>. QED  BY <1>3, <2>2, <2>3, <2>4 DEF Calls, Kernel
<1>. QED  BY <1>2, <1>3

\* The manual's view of it: a row for each process, an entry for each open file.
LEMMA RowSame ==
  ASSUME NEW q \in Procs, (q \in Running') <=> (q \in Running),
         q \in Running => \A d \in FDs : ft_openfiles'[q][d] = ft_openfiles[q][d]
  PROVE  Names'[q] = Names[q]
<1>1. Fds(q)' = Fds(q)
  BY DEF Fds
<1>2. \A d \in Fds(q) : ft_openfiles'[q][d] = ft_openfiles[q][d]
  BY DEF Fds
<1>. QED  BY <1>1, <1>2, NamesParts, NamesPartsThen

LEMMA NamedIs ==
  Shape => Manual!Named(Names) = Named
<1>. SUFFICES ASSUME Shape
              PROVE  Manual!Named(Names) = Named
  OBVIOUS
<1>1. \A p \in Procs : DOMAIN Names[p] = Fds(p) /\ \A d \in Fds(p) : Names[p][d] = ft_openfiles[p][d]
  BY NamesParts
<1>2. ASSUME NEW o \in Opens
      PROVE  o \in Manual!Named(Names) <=> o \in Named
  <2>1. o # NULL
    BY OpenFilesAssumption DEF OpenFilesAssumption
  <2>2. o \in Manual!Named(Names) <=> \E p \in Procs : \E d \in Fds(p) : ft_openfiles[p][d] = o
    BY <1>1 DEF Manual!Named
  <2>3. o \in Named <=> \E p \in Running, d \in FDs : ft_openfiles[p][d] = o
    BY DEF Named
  <2>4. Running \subseteq Procs
    BY DEF Running
  <2>. QED  BY <2>1, <2>2, <2>3, <2>4 DEF Fds
<1>3. Named \subseteq Opens /\ Manual!Named(Names) \subseteq Opens
  BY DEF Named, Manual!Named
<1>. QED  BY <1>2, <1>3

LEMMA NamedThen ==
  Shape' => Manual!Named(Names') = Named'
<1>1. (Shape => Manual!Named(Names) = Named)'
  BY NamedIs, PTL
<1>. QED  BY <1>1

LEMMA NamesSame ==
  ASSUME Running' = Running,
         \A q \in Running, d \in FDs : ft_openfiles'[q][d] = ft_openfiles[q][d]
  PROVE  Names' = Names /\ Named' = Named
<1>1. \A q \in Procs : Names'[q] = Names[q]
  BY RowSame
<1>2. Names' = Names
  BY <1>1, NamesParts, NamesPartsThen
<1>3. Named' = Named
  BY DEF Named
<1>. QED  BY <1>2, <1>3

\* When names only go away, what the manual says of the rest is what it said.
LEMMA Becomes ==
  ASSUME RInv, RInv', Named' \subseteq Named, \A o \in Named' : Shown(o)' = Shown(o),
         NEW ns, Names' = ns
  PROVE  /\ Manual!Become(ns)
         /\ Named' = Named => About' = About
<1>1. Manual!Named(Names') = Named'
  BY NamedThen DEF RInv, IInv, Control
<1>2. About' = [o \in Named' |-> About[o]]
  BY NamesParts, NamesPartsThen
<1>3. About' = Manual!Restrict(About, Manual!Named(Names'))
  BY <1>1, <1>2 DEF Manual!Restrict
<1>4. Named' = Named => About' = About
  BY <1>2, NamesParts
<1>. QED  BY <1>3, <1>4 DEF Manual!Become

\* Calls that name nothing else than before, in the same processes.
Naming(p) == Runprogram(p) \/ Exit(p) \/ Forked(p) \/ Place(p) \/ Close(p) \/ Dup2Place(p)
\* What reads, writes and seeks does it with the lock.
Moving(p) == ReadBytes(p) \/ Seek(p) \/ (WriteBytes(p) /\ pc'[p] = "unlock")

LEMMA CalmStep ==
  ASSUME RInv, RInv', NEW p \in Procs, Calls(p) \/ Kernel(p), ~ Naming(p)
  PROVE  /\ Running' = Running /\ Names' = Names /\ Named' = Named
         /\ ~ Moving(p) => About' = About
<1>1. Running' = Running
  BY RunningStep DEF RInv, IInv, Naming
<1>2. \A q \in Running, d \in FDs : ft_openfiles'[q][d] = ft_openfiles[q][d]
  BY TablesStep DEF RInv, IInv, Naming
<1>3. Names' = Names /\ Named' = Named
  BY <1>1, <1>2, NamesSame
<1>4. ASSUME ~ Moving(p)
      PROVE  About' = About
  <2>1. \A o \in Named : Shown(o)' = Shown(o)
    BY <1>4, ShownStep DEF Moving
  <2>. QED  BY <1>3, <2>1, NamesParts, NamesPartsThen
<1>. QED  BY <1>1, <1>3, <1>4

LEMMA MovingFile ==
  ASSUME RInv, NEW p \in Procs, pc[p] \in {"io", "seek"}
  PROVE  \E o \in Opens :
           /\ o = arg[p].file /\ p \in Running /\ o \in Named
           /\ arg[p].fd \in DOMAIN Names[p] /\ Names[p][arg[p].fd] = o
           /\ About[o] = Shown(o) /\ Position(o) = of[o].offset /\ of[o].vnode \in Files
<1>. DEFINE o == arg[p].file
            d == arg[p].fd
<1>1. Control /\ NULL \notin Opens \cup Procs /\ UsesFile
  BY CountedHolds, UsesFileHolds, OpenFilesAssumption DEF RInv, IInv, Control, OpenFilesAssumption
<1>2. o \in Opens /\ d \in FDs /\ ft_openfiles[p][d] = o /\ arg[p].other = NULL
  BY <1>1 DEF Control, AtHand, Using, FileStays, OwnTable, OnTable, Dropping
<1>3. p \in Running
  BY <1>1, <1>2 DEF Running
<1>4. o \in Named /\ d \in Fds(p)
  BY <1>1, <1>2, <1>3 DEF Named, Fds
<1>5. Position(o) = of[o].offset
  <2>1. \A q \in Procs : pc[q] = "unlock" => arg[q].file # o
    BY DEF RInv, LockHeld
  <2>. QED  BY <1>2, <2>1, PositionIs
<1>6. of[o].vnode \in Files
  BY <1>1 DEF UsesFile, Using
<1>. QED  BY <1>2, <1>3, <1>4, <1>5, <1>6, NamesParts

\* Reading, writing and seeking moves one position.
LEMMA MovingStep ==
  ASSUME RInv, RInv', NEW p \in Procs, Calls(p) \/ Kernel(p), Moving(p),
         NEW o \in Opens, o = arg[p].file
  PROVE  Manual!SeekTo(o, Position(o)') /\ UNCHANGED <<Running, Names>>
<1>1. Control /\ pc[p] \in {"io", "seek"}
  BY DEF RInv, IInv, Moving, ReadBytes, WriteBytes, Seek
<1>2. o \in Named /\ About[o] = Shown(o)
  BY <1>1, MovingFile
<1>3. ~ Naming(p)
  BY <1>1 DEF Naming, Runprogram, Exit, Forked, Place, Close, Dup2Place
<1>4. Names' = Names /\ Running' = Running /\ Named' = Named
  BY <1>3, CalmStep
<1>5. \A x \in Named : x # o => Shown(x)' = Shown(x)
  BY ShownStep
<1>6. SameOpen(o)
  BY <1>1, <1>2, KeptStep DEF OpenFile, Destroy, Kept
<1>7. Shown(o)' = [Shown(o) EXCEPT !.seek = Position(o)']
  BY <1>6 DEF Shown, SameOpen
<1>8. About' = [x \in Named |-> IF x = o THEN [About[o] EXCEPT !.seek = Position(o)'] ELSE About[x]]
  BY <1>2, <1>4, <1>5, <1>7, NamesParts, NamesPartsThen
<1>9. About' = [About EXCEPT ![o].seek = Position(o)']
  BY <1>2, <1>8, NamesParts
<1>. QED  BY <1>4, <1>9 DEF Manual!SeekTo

\* The bytes: the code's and the manual's.
LEMMA OverwriteIsLay ==
  ASSUME NEW S, NEW s \in Seq(S), NEW n \in Nat, NEW w \in Seq(S)
  PROVE  Overwrite(s, n, w) = Manual!Lay(s, n, w)
<1>. DEFINE m == IF n + Len(w) > Len(s) THEN n + Len(w) ELSE Len(s)
<1>1. Max({Len(s), n + Len(w)}) = m
  BY MaxOfTwo
<1>2. \A i \in 1..m : /\ i - n \in 1..Len(w) <=> i > n /\ i <= n + Len(w)
                      /\ i \in 1..Len(s) <=> i <= Len(s)
  OBVIOUS
<1>. HIDE DEF m
<1>3. Overwrite(s, n, w) =
        [i \in 1..m |-> IF i - n \in 1..Len(w) THEN w[i - n] ELSE IF i \in 1..Len(s) THEN s[i] ELSE Zero]
  BY <1>1 DEF Overwrite
<1>4. Manual!Lay(s, n, w) =
        [i \in 1..m |-> IF i > n /\ i <= n + Len(w) THEN w[i - n] ELSE IF i <= Len(s) THEN s[i] ELSE Zero]
  BY DEF Manual!Lay, m
<1>. QED  BY <1>2, <1>3, <1>4

LEMMA ReadSimulated ==
  ASSUME RInv, RInv', NEW p \in Procs, ReadBytes(p)
  PROVE  Manual!ShNext
<1>a. PICK o \in Opens :
        /\ o = arg[p].file /\ p \in Running /\ o \in Named
        /\ arg[p].fd \in DOMAIN Names[p] /\ Names[p][arg[p].fd] = o
        /\ About[o] = Shown(o) /\ Position(o) = of[o].offset /\ of[o].vnode \in Files
  BY MovingFile DEF ReadBytes
<1>. DEFINE left == Len(content[of[o].vnode]) - arg[p].pos
<1>1. Control /\ pc[p] = "io" /\ of[o].accmode # "w" /\ arg[p] \in Args /\ arg[p].pos \in Nat
  BY <1>a, ArgParts DEF RInv, IInv, Control, Shape, ReadBytes
<1>2. PICK n \in Lengths : Step(p, "unlock", [arg[p] EXCEPT !.pos = arg[p].pos + Min({n, Max({left, 0})})])
  BY <1>a DEF ReadBytes
<1>4. Manual!SeekTo(o, Position(o)') /\ UNCHANGED <<Running, Names>>
  BY <1>a, MovingStep DEF Moving, Kernel
<1>5. arg[p].pos = Position(o)
  BY <1>a, <1>1 DEF RInv, LockHeld
<1>6. arg'[p].pos = arg[p].pos + Min({n, Max({left, 0})}) /\ pc'[p] = "unlock" /\ arg'[p].file = o
  BY <1>a, <1>1, <1>2 DEF Step, Control, Shape, Args
<1>7. Position(o)' = arg'[p].pos
  BY <1>a, <1>6, PositionThen
<1>8. left \in Int /\ n \in Nat
  <2>1. content[of[o].vnode] \in Seq(Procs \cup {Zero})
    BY <1>a, <1>1 DEF Control, Shape
  <2>2. Len(content[of[o].vnode]) \in Nat
    BY <2>1
  <2>. QED  BY <1>1, <2>2, OpenFilesAssumption DEF OpenFilesAssumption
<1>. HIDE DEF left
<1>9. Min({n, Max({left, 0})}) = IF left <= 0 THEN 0 ELSE IF left < n THEN left ELSE n
  <2>1. Max({left, 0}) = IF left >= 0 THEN left ELSE 0
    BY <1>8, MaxOfTwo
  <2>2. PICK m \in Int : m = Max({left, 0})
    BY <1>8, <2>1
  <2>3. Min({n, m}) = IF n <= m THEN n ELSE m
    BY <1>8, MinOfTwo
  <2>. QED  BY <1>8, <2>1, <2>2, <2>3
<1>10. About[o].seek = arg[p].pos /\ About[o].file = of[o].vnode /\ About[o].mode = of[o].accmode
  BY <1>a, <1>5 DEF Shown
<1>11. left = Len(content[About[o].file]) - About[o].seek
  BY <1>10 DEF left
<1>12. Manual!Read(p, arg[p].fd, n)
  <2>1. Position(o)' = About[o].seek + (IF left <= 0 THEN 0 ELSE IF left < n THEN left ELSE n)
    BY <1>6, <1>7, <1>9, <1>10
  <2>2. UNCHANGED content
    BY DEF ReadBytes
  <2>. QED  BY <1>a, <1>1, <1>4, <1>10, <1>11, <2>1, <2>2 DEF Manual!Read
<1>. QED  BY <1>a, <1>12 DEF Manual!ShNext

LEMMA WriteSimulated ==
  ASSUME RInv, RInv', NEW p \in Procs, WriteBytes(p)
  PROVE  Manual!ShNext
<1>a. PICK o \in Opens :
        /\ o = arg[p].file /\ p \in Running /\ o \in Named
        /\ arg[p].fd \in DOMAIN Names[p] /\ Names[p][arg[p].fd] = o
        /\ About[o] = Shown(o) /\ Position(o) = of[o].offset /\ of[o].vnode \in Files
  BY MovingFile DEF WriteBytes
<1>. DEFINE w(n) == [i \in 1..n |-> p]
<1>1. Control /\ pc[p] = "io" /\ of[o].accmode # "r" /\ arg[p] \in Args /\ arg[p].pos \in Nat
  BY <1>a, ArgParts DEF RInv, IInv, Control, Shape, WriteBytes
<1>2. PICK n \in Lengths :
        /\ content' = [content EXCEPT ![of[o].vnode] = Overwrite(content[of[o].vnode], arg[p].pos, w(n))]
        /\ \/ Step(p, "unlock", [arg[p] EXCEPT !.pos = arg[p].pos + n]) /\ UNCHANGED of
           \/ Unlock(p, of[o].offset)
  BY <1>a DEF WriteBytes
<1>4. arg[p].pos = Position(o)
  BY <1>a, <1>1 DEF RInv, LockHeld
<1>5. About[o].seek = arg[p].pos /\ About[o].file = of[o].vnode /\ About[o].mode = of[o].accmode
  BY <1>a, <1>4 DEF Shown
<1>6. n \in Nat /\ w(n) \in Seq(Procs \cup {Zero}) /\ Len(w(n)) = n
  <2>1. n \in Nat
    BY OpenFilesAssumption DEF OpenFilesAssumption
  <2>. QED  BY <2>1
<1>7. content[of[o].vnode] \in Seq(Procs \cup {Zero})
  BY <1>a, <1>1 DEF Control, Shape
<1>. HIDE DEF w
<1>8. content' = [content EXCEPT ![About[o].file] = Manual!Lay(content[About[o].file], About[o].seek, w(n))]
  <2>1. Overwrite(content[of[o].vnode], arg[p].pos, w(n)) = Manual!Lay(content[of[o].vnode], arg[p].pos, w(n))
    BY <1>1, <1>6, <1>7, OverwriteIsLay
  <2>. QED  BY <1>2, <1>5, <2>1
<1>9. CASE Step(p, "unlock", [arg[p] EXCEPT !.pos = arg[p].pos + n]) /\ UNCHANGED of
  <2>1. arg'[p].pos = arg[p].pos + n /\ pc'[p] = "unlock" /\ arg'[p].file = o
    BY <1>a, <1>1, <1>9 DEF Step, Control, Shape, Args
  <2>2. Manual!SeekTo(o, Position(o)') /\ UNCHANGED <<Running, Names>>
    BY <1>a, <2>1, MovingStep DEF Moving, Kernel
  <2>3. Position(o)' = About[o].seek + Len(w(n))
    BY <1>a, <1>5, <1>6, <2>1, PositionThen
  <2>4. Manual!Write(p, arg[p].fd, w(n))
    BY <1>a, <1>1, <1>5, <1>8, <2>2, <2>3 DEF Manual!Write
  <2>. QED  BY <1>a, <2>4 DEF Manual!ShNext, w
<1>10. CASE Unlock(p, of[o].offset)
  <2>1. pc'[p] = "run"
    BY <1>a, <1>1, <1>10, UnlockEffect DEF Back
  <2>2. ~ Moving(p) /\ ~ Naming(p)
    BY <1>1, <2>1 DEF Moving, Naming, ReadBytes, Seek, Runprogram, Exit, Forked, Place, Close, Dup2Place,
                      Step, Control, Shape
  <2>3. UNCHANGED <<Running, Names, About>>
    BY <2>2, CalmStep DEF Kernel
  <2>4. Manual!BadWrite(p, arg[p].fd, w(n))
    BY <1>a, <1>1, <1>5, <1>8, <2>3 DEF Manual!BadWrite
  <2>. QED  BY <1>a, <2>4 DEF Manual!ShNext, w
<1>. QED  BY <1>2, <1>9, <1>10

LEMMA SeekSimulated ==
  ASSUME RInv, RInv', NEW p \in Procs, Seek(p)
  PROVE  Manual!ShNext
<1>1. Control /\ pc[p] = "seek" /\ UNCHANGED content
  BY DEF RInv, IInv, Seek
<1>2. PICK o \in Opens :
        /\ o = arg[p].file /\ p \in Running
        /\ arg[p].fd \in DOMAIN Names[p] /\ Names[p][arg[p].fd] = o
  BY <1>1, MovingFile
<1>3. Manual!SeekTo(o, Position(o)') /\ UNCHANGED <<Running, Names>>
  BY <1>2, MovingStep DEF Moving, Kernel
<1>4. Position(o)' = of'[o].offset
  <2>1. of[o].offsetlock = p /\ pc'[p] = "run"
    BY <1>1, <1>2, FinishEffect DEF RInv, LockHeld, Back
  <2>2. \A q \in Procs : pc'[q] = "unlock" => arg'[q].file # o
    <3>1. SUFFICES ASSUME NEW q \in Procs \ {p}, pc'[q] = "unlock", arg'[q].file = o  PROVE FALSE
      BY <2>1
    <3>2. pc[q] = "unlock" /\ arg[q].file = o
      BY <1>1, <3>1, OthersStep DEF Kernel
    <3>. QED  BY <2>1, <3>2 DEF RInv, LockHeld
  <2>. QED  BY <1>2, <2>2, PositionThen
<1>5. of'[o].offset \in 0..MaxSize
  BY <1>2, InfoParts DEF RInv, IInv, Control, Shape, Info
<1>6. Manual!Lseek(p, arg[p].fd, of'[o].offset)
  BY <1>1, <1>2, <1>3, <1>4 DEF Manual!Lseek
<1>. QED  BY <1>2, <1>5, <1>6 DEF Manual!ShNext

LEMMA RunprogramSimulated ==
  ASSUME RInv, RInv', NEW p \in Procs, Runprogram(p)
  PROVE  Manual!ShNext
<1>1. Control /\ pc[p] = "none" /\ UNCHANGED <<ft_openfiles, content>>
  BY DEF RInv, IInv, Runprogram
<1>2. p \notin Running /\ Running' = Running \cup {p}
  <2>1. ~ Exit(p) /\ ~ Forked(p)
    BY <1>1 DEF Exit, Forked
  <2>. QED  BY <1>1, <2>1, RunningStep DEF Calls
<1>3. \A d \in FDs : ft_openfiles[p][d] = NULL
  BY <1>1 DEF Control, TablesClear
<1>4. \A q \in Procs : Fds(q)' = Fds(q)
  BY <1>1, <1>2, <1>3 DEF Fds
<1>5. Names' = Names
  BY <1>1, <1>4, NamesParts, NamesPartsThen
<1>6. Named' = Named
  BY <1>5, NamedIs, NamedThen DEF RInv, IInv, Control
<1>7. \A o \in Named : Shown(o)' = Shown(o)
  BY <1>1, ShownStep DEF Calls, ReadBytes, WriteBytes, Seek
<1>8. About' = About
  BY <1>6, <1>7, NamesParts, NamesPartsThen
<1>9. Manual!Start(p)
  BY <1>1, <1>2, <1>5, <1>8 DEF Manual!Start
<1>. QED  BY <1>9 DEF Manual!ShNext

LEMMA ForkedSimulated ==
  ASSUME RInv, RInv', NEW p \in Procs, Forked(p)
  PROVE  Manual!ShNext
<1>1. Control /\ pc[p] = "copy" /\ arg[p].fd = OPEN_MAX /\ UNCHANGED <<ft_openfiles, content>>
  BY DEF RInv, IInv, Forked
<1>2. PICK q \in Procs : q = arg[p].other /\ q \notin Running /\ p \in Running /\ Running' = Running \cup {q}
  <2>1. ~ Exit(p) /\ ~ Runprogram(p)
    BY <1>1 DEF Exit, Runprogram
  <2>. QED  BY <1>1, <2>1, RunningStep DEF Kernel
<1>3. \A d \in FDs : ft_openfiles[q][d] = ft_openfiles[p][d]
  <2>1. \A d \in FDs : d < OPEN_MAX
    BY OpenFilesAssumption DEF OpenFilesAssumption, FDs
  <2>. QED  BY <1>1, <1>2, <2>1 DEF RInv, Copied
<1>4. /\ Fds(q)' = Fds(p)
      /\ \A r \in Procs \ {q} : Fds(r)' = Fds(r)
  BY <1>1, <1>2, <1>3 DEF Fds
<1>5. \A d \in Fds(p) : ft_openfiles[q][d] = ft_openfiles[p][d]
  BY <1>3 DEF Fds
<1>6. Names' = [Names EXCEPT ![q] = Names[p]]
  <2>1. Names'[q] = Names[p]
    BY <1>1, <1>4, <1>5, NamesParts, NamesPartsThen
  <2>2. \A r \in Procs \ {q} : Names'[r] = Names[r]
    BY <1>1, <1>4, NamesParts, NamesPartsThen
  <2>. QED  BY <2>1, <2>2, NamesParts, NamesPartsThen
<1>7. Named' = Named
  BY <1>1, <1>2, <1>3 DEF Named
<1>8. \A o \in Named : Shown(o)' = Shown(o)
  BY <1>1, ShownStep DEF Kernel, ReadBytes, WriteBytes, Seek
<1>9. About' = About
  BY <1>7, <1>8, NamesParts, NamesPartsThen
<1>10. Manual!Fork(p, q)
  BY <1>1, <1>2, <1>6, <1>9 DEF Manual!Fork
<1>. QED  BY <1>10 DEF Manual!ShNext

LEMMA ExitSimulated ==
  ASSUME RInv, RInv', NEW p \in Procs, Exit(p)
  PROVE  Manual!ShNext
<1>1. Control /\ pc[p] = "run" /\ UNCHANGED <<ft_openfiles, content>>
  BY DEF RInv, IInv, Exit
<1>2. p \in Running /\ Running' = Running \ {p}
  <2>1. ~ Forked(p) /\ ~ Runprogram(p)
    BY <1>1 DEF Forked, Runprogram
  <2>. QED  BY <1>1, <2>1, RunningStep DEF Calls
<1>3. /\ Fds(p)' = {}
      /\ \A r \in Procs \ {p} : Fds(r)' = Fds(r)
  BY <1>1, <1>2 DEF Fds
<1>4. Names' = [Names EXCEPT ![p] = Manual!NoNames]
  <2>1. Names'[p] = Manual!NoNames
    BY <1>3, NamesPartsThen DEF Manual!NoNames
  <2>2. \A r \in Procs \ {p} : Names'[r] = Names[r]
    BY <1>1, <1>3, NamesParts, NamesPartsThen
  <2>. QED  BY <2>1, <2>2, NamesParts, NamesPartsThen
<1>5. Named' \subseteq Named
  BY <1>1, <1>2 DEF Named
<1>6. \A o \in Named' : Shown(o)' = Shown(o)
  BY <1>1, <1>5, ShownStep DEF Calls, ReadBytes, WriteBytes, Seek
<1>7. Manual!Become([Names EXCEPT ![p] = Manual!NoNames])
  BY <1>4, <1>5, <1>6, Becomes
<1>8. Manual!Exit(p)
  BY <1>1, <1>2, <1>7 DEF Manual!Exit
<1>. QED  BY <1>8 DEF Manual!ShNext

\* close, and dup2 when its reference is counted.
LEMMA PlaceAtSimulated ==
  ASSUME RInv, RInv', NEW p \in Procs, Close(p) \/ Dup2Place(p)
  PROVE  Manual!ShNext \/ UNCHANGED Manual!shVars
<1>1. Control /\ NULL \notin Opens \cup Procs /\ UNCHANGED content /\ pc[p] \in {"run", "dup"}
  BY OpenFilesAssumption DEF RInv, IInv, OpenFilesAssumption, Close, Dup2Place, PlaceAt
<1>2. Running' = Running /\ p \in Running
  <2>1. ~ (Runprogram(p) \/ Exit(p) \/ Forked(p))
    <3>1. CASE Dup2Place(p)
      BY <3>1 DEF Dup2Place, Runprogram, Exit, Forked
    <3>2. CASE Close(p)
      <4>1. pc'[p] \in {"run", "decref"} /\ pc[p] = "run"
        BY <1>1, <3>2, CloseEffect DEF Close, Placed, Back
      <4>. QED  BY <1>1, <4>1, StartEffect DEF Runprogram, Forked
    <3>. QED  BY <3>1, <3>2
  <2>2. Running' = Running
    BY <1>1, <2>1, RunningStep DEF Calls, Kernel
  <2>3. p \in Running
    BY <1>1 DEF Running, Control, OwnTable, OnTable, Dropping
  <2>. QED  BY <2>2, <2>3
<1>3. PICK new \in Opens \cup {NULL}, fd \in FDs :
        /\ Set(p, fd, new)
        /\ \/ new = NULL
           \/ pc[p] = "dup" /\ new \in Opens /\ new = arg[p].file
  <2>1. CASE pc[p] = "run" /\ \E d \in FDs : Placed(p, NULL, d)
    BY <2>1 DEF Placed
  <2>2. CASE pc[p] = "dup" /\ arg[p].file \in Opens /\ arg[p].fd \in FDs /\ Placed(p, arg[p].file, arg[p].fd)
    BY <2>2 DEF Placed
  <2>. QED  BY <1>1, <2>1, <2>2, CloseEffect
<1>4. new # NULL => \E d \in Fds(p) : ft_openfiles[p][d] = new
  BY <1>1, <1>2, <1>3 DEF RInv, Source, Fds
<1>5. /\ Fds(p)' = IF new = NULL THEN Fds(p) \ {fd} ELSE Fds(p) \cup {fd}
      /\ \A r \in Procs \ {p} : Fds(r)' = Fds(r)
  BY <1>1, <1>2, <1>3 DEF Fds, Set
<1>6. /\ \A d \in Fds(p)' : Names'[p][d] = IF d = fd THEN new ELSE Names[p][d]
      /\ \A r \in Procs \ {p} : Names'[r] = Names[r]
      /\ DOMAIN Names' = Procs /\ DOMAIN Names'[p] = Fds(p)' /\ DOMAIN Names[p] = Fds(p)
  <2>1. \A r \in Procs \ {p} : \A d \in Fds(r) : ft_openfiles'[r][d] = ft_openfiles[r][d]
    BY <1>3 DEF Set, Fds
  <2>2. \A r \in Procs \ {p} : Names'[r] = Names[r]
    BY <1>5, <2>1, NamesParts, NamesPartsThen
  <2>3. \A d \in Fds(p)' : ft_openfiles'[p][d] = IF d = fd THEN new ELSE ft_openfiles[p][d]
    BY <1>3 DEF Set, Fds
  <2>4. \A d \in Fds(p)' : d # fd => d \in Fds(p)
    BY <1>5
  <2>. QED  BY <2>2, <2>3, <2>4, NamesParts, NamesPartsThen
<1>7. Named' \subseteq Named
  <2>1. SUFFICES ASSUME NEW o \in Named'
                 PROVE  o \in Named
    OBVIOUS
  <2>2. PICK r \in Running, d \in FDs : ft_openfiles'[r][d] = o
    BY <1>2 DEF Named
  <2>3. o \in Opens /\ r \in Procs /\ o # NULL
    BY <1>1 DEF Named, Running
  <2>4. CASE r = p /\ d = fd
    BY <1>2, <1>3, <1>4, <2>2, <2>3, <2>4 DEF Named, Fds, Set
  <2>5. CASE ~ (r = p /\ d = fd)
    BY <1>3, <2>2, <2>3, <2>5 DEF Named, Set
  <2>. QED  BY <2>4, <2>5
<1>8. \A o \in Named' : Shown(o)' = Shown(o)
  BY <1>1, <1>7, ShownStep DEF Calls, Kernel, ReadBytes, WriteBytes, Seek
<1>9. CASE new = NULL /\ fd \in Fds(p)
  <2>. DEFINE row == Manual!Restrict(Names[p], DOMAIN Names[p] \ {fd})
  <2>1. Names'[p] = row
    BY <1>5, <1>6, <1>9, NamesPartsThen DEF Manual!Restrict
  <2>. HIDE DEF row
  <2>2. Names' = [Names EXCEPT ![p] = row]
    BY <1>6, <2>1, NamesParts, NamesPartsThen
  <2>3. Manual!Become([Names EXCEPT ![p] = row])
    BY <1>7, <1>8, <2>2, Becomes
  <2>4. Manual!Close(p, fd)
    BY <1>1, <1>2, <2>3 DEF Manual!Close, row
  <2>. QED  BY <1>6, <1>9, <2>4 DEF Manual!ShNext
<1>10. CASE new = NULL /\ fd \notin Fds(p)
  <2>1. \A q \in Running, d \in FDs : ft_openfiles'[q][d] = ft_openfiles[q][d]
    BY <1>2, <1>3, <1>10 DEF Set, Fds, Running
  <2>2. Names' = Names /\ Named' = Named
    BY <1>2, <2>1, NamesSame
  <2>3. About' = About
    BY <1>8, <2>2, NamesParts, NamesPartsThen
  <2>. QED  BY <1>1, <1>2, <2>2, <2>3 DEF Manual!shVars
<1>11. CASE new # NULL
  <2>1. PICK d \in Fds(p) : Names[p][d] = new
    BY <1>4, <1>11, NamesParts
  <2>. DEFINE row == [x \in DOMAIN Names[p] \cup {fd} |-> IF x = fd THEN Names[p][d] ELSE Names[p][x]]
  <2>2. Names'[p] = row
    BY <1>5, <1>6, <1>11, <2>1, NamesPartsThen
  <2>. HIDE DEF row
  <2>3. Names' = [Names EXCEPT ![p] = row]
    BY <1>6, <2>2, NamesParts, NamesPartsThen
  <2>4. Manual!Become([Names EXCEPT ![p] = row])
    BY <1>7, <1>8, <2>3, Becomes
  <2>5. Manual!Dup2(p, d, fd)
    BY <1>1, <1>2, <2>4 DEF Manual!Dup2, row
  <2>. QED  BY <1>6, <2>5 DEF Manual!ShNext
<1>. QED  BY <1>9, <1>10, <1>11

\* open, when the open file has found its descriptor, or EMFILE.
LEMMA PlaceSimulated ==
  ASSUME RInv, RInv', NEW p \in Procs, Place(p)
  PROVE  Manual!ShNext \/ UNCHANGED Manual!shVars
<1>1. /\ Control /\ pc[p] = "place" /\ UNCHANGED <<of, content>>
      /\ NULL \notin Opens \cup Procs /\ RefcountExact /\ Shape /\ Allocated
  BY OpenFilesAssumption DEF RInv, IInv, Control, OpenFilesAssumption, Place
<1>2. Running' = Running /\ p \in Running
  <2>1. ~ (Runprogram(p) \/ Exit(p) \/ Forked(p))
    BY <1>1 DEF Runprogram, Exit, Forked
  <2>2. p \in Running
    BY <1>1 DEF Running, Control, OwnTable, OnTable, Dropping
  <2>. QED  BY <1>1, <2>1, <2>2, RunningStep DEF Kernel
<1>3. \A o \in Named : Shown(o)' = Shown(o)
  BY <1>1, ShownStep DEF Kernel, ReadBytes, WriteBytes, Seek
<1>4. CASE FreeFDs(p) = {}
  <2>1. UNCHANGED ft_openfiles
    BY <1>4 DEF Place
  <2>2. Names' = Names /\ Named' = Named
    BY <1>2, <2>1, NamesSame
  <2>3. About' = About
    BY <1>3, <2>2, NamesParts, NamesPartsThen
  <2>. QED  BY <1>1, <1>2, <2>2, <2>3 DEF Manual!shVars
<1>5. CASE FreeFDs(p) # {}
  <2>1. PICK o \in Opens : o = arg[p].file /\ of[o].refcount = 1 /\ of[o].offset = 0
    BY <1>1 DEF Control, AtHand, RInv, Fresh
  <2>2. Slots(o) = {}
    <3>1. p \in Held(o)
      BY <1>1, <2>1 DEF Held
    <3>. QED  BY <1>1, <2>1, <3>1, References
  <2>3. \A q \in Procs, d \in FDs : ft_openfiles[q][d] # o
    <3>1. SUFFICES ASSUME NEW q \in Procs, NEW d \in FDs, ft_openfiles[q][d] = o  PROVE FALSE
      OBVIOUS
    <3>2. <<q, d>> \in Slots(o)
      BY <3>1 DEF Slots
    <3>. QED  BY <2>2, <3>2
  <2>4. o \notin Named
    BY <2>3 DEF Named, Running
  <2>5. PICK d \in FDs : /\ d \in FreeFDs(p) /\ \A e \in FreeFDs(p) : d <= e
                         /\ Set(p, d, o) /\ pc'[p] = "run"
    <3>1. FreeFDs(p) \in SUBSET Nat
      BY OpenFilesAssumption DEF FreeFDs, FDs, OpenFilesAssumption
    <3>2. Min(FreeFDs(p)) \in FreeFDs(p) /\ \A e \in FreeFDs(p) : Min(FreeFDs(p)) <= e
      BY <1>5, <3>1, MinIn
    <3>3. Min(FreeFDs(p)) \in FDs
      BY <3>2 DEF FreeFDs
    <3>4. Set(p, Min(FreeFDs(p)), o)
      BY <1>1, <1>5, <2>1, <3>3, SetCell DEF Place, Control
    <3>5. pc'[p] = "run"
      BY <1>1, <1>5 DEF Place, Return, Step, Control, Shape
    <3>. QED  BY <3>2, <3>3, <3>4, <3>5
  <2>6. /\ Fds(p)' = Fds(p) \cup {d} /\ FreeFDs(p) = FDs \ Fds(p)
        /\ \A r \in Procs \ {p} : Fds(r)' = Fds(r)
    BY <1>1, <1>2, <2>5 DEF Fds, Set, FreeFDs
  <2>. DEFINE row == [e \in DOMAIN Names[p] \cup {d} |-> IF e = d THEN o ELSE Names[p][e]]
  <2>7. Names' = [Names EXCEPT ![p] = row]
    <3>1. DOMAIN Names[p] = Fds(p) /\ \A e \in Fds(p) : Names[p][e] = ft_openfiles[p][e]
      BY NamesParts
    <3>2. \A e \in Fds(p) \cup {d} : ft_openfiles'[p][e] = IF e = d THEN o ELSE ft_openfiles[p][e]
      BY <2>5 DEF Set, Fds
    <3>3. Names'[p] = row
      BY <2>6, <3>1, <3>2, NamesPartsThen
    <3>4. \A r \in Procs \ {p} : \A e \in Fds(r) : ft_openfiles'[r][e] = ft_openfiles[r][e]
      BY <2>5 DEF Set, Fds
    <3>5. \A r \in Procs \ {p} : Names'[r] = Names[r]
      BY <2>6, <3>4, NamesParts, NamesPartsThen
    <3>. HIDE DEF row
    <3>. QED  BY <3>3, <3>5, NamesParts, NamesPartsThen
  <2>8. Named' = Named \cup {o}
    <3>1. ASSUME NEW x \in Opens
          PROVE  x \in Named' <=> x \in Named \/ x = o
      <4>1. x # NULL
        BY <1>1
      <4>2. x \in Named' <=> \E r \in Running, e \in FDs : ft_openfiles'[r][e] = x
        BY <1>2 DEF Named
      <4>3. \A r \in Running, e \in FDs :
              ft_openfiles'[r][e] = IF r = p /\ e = d THEN o ELSE ft_openfiles[r][e]
        BY <2>5 DEF Set, Running
      <4>4. ft_openfiles[p][d] = NULL
        BY <2>5 DEF FreeFDs
      <4>. QED  BY <1>2, <4>1, <4>2, <4>3, <4>4 DEF Named
    <3>2. Named \subseteq Opens /\ Named' \subseteq Opens
      BY DEF Named
    <3>. QED  BY <3>1, <3>2
  <2>9. Shown(o)' = [file |-> of[o].vnode, mode |-> of[o].accmode, seek |-> 0]
    <3>1. \A q \in Procs : pc'[q] = "unlock" => arg'[q].file # o
      <4>1. SUFFICES ASSUME NEW q \in Procs \ {p}, pc'[q] = "unlock", arg'[q].file = o  PROVE FALSE
        BY <2>5
      <4>2. pc[q] = "unlock" /\ arg[q].file = o
        BY <1>1, <4>1, OthersStep DEF Kernel
      <4>. QED  BY <1>1, <2>3, <4>2 DEF Control, AtHand, FileStays, Using
    <3>2. Position(o)' = 0
      BY <1>1, <2>1, <3>1, PositionThen
    <3>. QED  BY <1>1, <3>2 DEF Shown
  <2>10. About' = [x \in DOMAIN About \cup {o} |->
                    IF x = o THEN [file |-> of[o].vnode, mode |-> of[o].accmode, seek |-> 0] ELSE About[x]]
    BY <1>3, <2>4, <2>8, <2>9, NamesParts, NamesPartsThen
  <2>11. of[o].vnode \in Files /\ of[o].accmode \in {"r", "w", "rw"}
    BY <1>1, <2>1 DEF Allocated, Shape, Info, Modes
  <2>12. Manual!Open(p, o, of[o].vnode, of[o].accmode)
    <3>1. o \notin Manual!Named(Names)
      BY <1>1, <2>4, NamedIs
    <3>2. DOMAIN Names[p] = Fds(p)
      BY NamesParts
    <3>3. d \in FDs \ DOMAIN Names[p] /\ \A e \in FDs \ DOMAIN Names[p] : d <= e
      BY <2>5, <2>6, <3>2
    <3>. HIDE DEF row
    <3>4. Names' = [Names EXCEPT ![p] = [e \in DOMAIN Names[p] \cup {d} |-> IF e = d THEN o ELSE Names[p][e]]]
      BY <2>7 DEF row
    <3>. QED  BY <1>1, <1>2, <2>10, <3>1, <3>3, <3>4 DEF Manual!Open
  <2>. QED  BY <2>11, <2>12 DEF Manual!ShNext
<1>. QED  BY <1>4, <1>5

\* Every step of the code is a call of the manual's, or shows nothing.
LEMMA ManualStep ==
  ASSUME RInv, RInv', NEW p \in Procs, Calls(p) \/ Kernel(p)
  PROVE  Manual!ShNext \/ UNCHANGED Manual!shVars
<1>1. CASE Naming(p)
  BY <1>1, RunprogramSimulated, ExitSimulated, ForkedSimulated, PlaceSimulated, PlaceAtSimulated DEF Naming
<1>2. CASE ReadBytes(p) \/ WriteBytes(p) \/ Seek(p)
  BY <1>2, ReadSimulated, WriteSimulated, SeekSimulated
<1>3. CASE ~ Naming(p) /\ ~ (ReadBytes(p) \/ WriteBytes(p) \/ Seek(p))
  <2>1. UNCHANGED <<Running, Names, About>>
    BY <1>3, CalmStep DEF Moving
  <2>2. CASE UNCHANGED content
    BY <2>1, <2>2 DEF Manual!shVars
  <2>3. CASE OpenFile(p) \/ OpenFails(p)
    <3>1. CASE UNCHANGED content
      BY <2>2, <3>1
    <3>2. CASE ~ UNCHANGED content
      <4>1. PICK v \in Files : content' = [content EXCEPT ![v] = <<>>]
        BY <2>3, <3>2 DEF OpenFile, OpenFails
      <4>2. Manual!Truncate(v)
        BY <2>1, <4>1 DEF Manual!Truncate
      <4>3. p \in Running
        <5>1. pc[p] = "run" /\ arg[p].other = NULL /\ NULL \notin Procs
          BY <2>3, OpenFilesAssumption
             DEF OpenFile, OpenFails, RInv, IInv, Control, OwnTable, OnTable, Dropping, OpenFilesAssumption
        <5>. QED  BY <5>1 DEF Running
      <4>. QED  BY <4>2, <4>3 DEF Manual!ShNext
    <3>. QED  BY <3>1, <3>2
  <2>4. CASE \/ Fork(p) \/ Dup2(p) \/ Transfer(p) \/ CopyTurn(p) \/ ForkFails(p) \/ CleanTurn(p)
             \/ Cleaned(p) \/ Decref(p) \/ Destroy(p) \/ LockOffset(p) \/ IOFails(p) \/ SetOffset(p)
    BY <2>2, <2>4 DEF Fork, Dup2, Transfer, CopyTurn, ForkFails, CleanTurn, Cleaned, Decref, Destroy,
                      LockOffset, IOFails, SetOffset
  <2>. QED  BY <1>3, <2>3, <2>4 DEF Calls, Kernel, Naming
<1>. QED  BY <1>1, <1>2, <1>3

\* The calls that take several steps each, of processes that share open files, do
\* what the manual says of them as if in one: every step is one call of the
\* manual's, or shows nothing, and no position is moved from a stale value.
THEOREM CallsAtomic == Spec => AtomicCalls
<1>1. Init => Manual!ShInit
  <2>. SUFFICES ASSUME Init
                PROVE  Manual!ShInit
    OBVIOUS
  <2>1. Running = {} /\ Named = {}
    BY DEF Init, Running, Named
  <2>2. \A p \in Procs : Fds(p) = {}
    BY <2>1 DEF Fds
  <2>3. Names = [p \in Procs |-> Manual!NoNames]
    BY <2>2, NamesParts DEF Manual!NoNames
  <2>4. About = Manual!NoNames
    BY <2>1, NamesParts DEF Manual!NoNames
  <2>. QED  BY <2>1, <2>3, <2>4 DEF Init, Manual!ShInit
<1>2. RInv /\ RInv' /\ [Next]_vars => [Manual!ShNext]_(Manual!shVars)
  <2>. SUFFICES ASSUME RInv, RInv', [Next]_vars
                PROVE  Manual!ShNext \/ UNCHANGED Manual!shVars
    OBVIOUS
  <2>1. CASE Next
    BY <2>1, ManualStep DEF Next
  <2>2. CASE UNCHANGED vars
    <3>1. Running' = Running /\ \A q \in Running, d \in FDs : ft_openfiles'[q][d] = ft_openfiles[q][d]
      BY <2>2 DEF vars, Running
    <3>2. Names' = Names /\ Named' = Named
      BY <3>1, NamesSame
    <3>3. \A o \in Named : Shown(o)' = Shown(o)
      BY <2>2 DEF vars, Shown, Position, Mover
    <3>4. About' = About
      BY <3>2, <3>3, NamesParts, NamesPartsThen
    <3>. QED  BY <2>2, <3>1, <3>2, <3>4 DEF vars, Manual!shVars
  <2>. QED  BY <2>1, <2>2
<1>. QED  BY <1>1, <1>2, SpecRInv, PTL DEF Spec, AtomicCalls, Manual!ShSpec
=============================================================================
