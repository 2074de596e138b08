----------------------- MODULE ProducerConsumerProofs -----------------------
(***************************************************************************)
(* The bounded buffer of ProducerConsumer.tla for every number of          *)
(* producers, consumers, items and slots: one thread in the critical       *)
(* section, every slot accounted for, the indices in step with the         *)
(* semaphores, the ring a bounded FIFO of whole items, and the driver's    *)
(* stop protocol clean.                                                    *)
(***************************************************************************)
EXTENDS ProducerConsumer, Integers, FiniteSetTheorems, TLAPS

\* A sender inside producer_send has something left to send, and a producer
\* never more than it started with.
LeftBounded ==
  /\ \A s \in Senders : pc[s] \in InCall => left[s] > 0
  /\ \A p \in Producers : left[p] <= ItemsToProduce

\* The inductive invariant of the control: the counts and the indices are only
\* kept in step because one thread at a time moves an index (OneInside), and
\* SlotsConserved bounds Count, so that the ring never wraps onto itself.
Control == TypeOK /\ OneInside /\ SlotsConserved /\ IndicesAgree /\ LeftBounded

-----------------------------------------------------------------------------
(* Lemmas about the operators *)

\* Moving an index on keeps it an index.
LEMMA AdvanceBounded ==
  ASSUME NEW B \in Nat \ {0}, NEW i \in 0..B-1
  PROVE  (i + 1) % B \in 0..B-1
OBVIOUS

\* Moving the end of a range of n slots on by one makes it n + 1 slots.
LEMMA AdvanceEnd ==
  ASSUME NEW B \in Nat \ {0}, NEW i \in 0..B-1, NEW n \in 0..B-1
  PROVE  (((i + n) % B) + 1) % B = (i + (n + 1)) % B
<1>1. CASE i + n + 1 < B
  <2>1. (i + n) % B = i + n
    BY <1>1
  <2>. QED  BY <2>1
<1>2. CASE i + n + 1 = B
  <2>1. (i + n) % B = i + n
    BY <1>2
  <2>. QED  BY <2>1
<1>3. CASE i + n + 1 > B
  <2>1. (i + n) % B = i + n - B
    BY <1>3
  <2>2. (i + n - B + 1) % B = i + n - B + 1
    BY <1>3
  <2>3. (i + (n + 1)) % B = i + n + 1 - B
    BY <1>3
  <2>. QED  BY <2>1, <2>2, <2>3
<1>. QED  BY <1>1, <1>2, <1>3

\* Moving its beginning on by one leaves n - 1 slots.
LEMMA AdvanceBegin ==
  ASSUME NEW B \in Nat \ {0}, NEW i \in 0..B-1, NEW n \in 1..B
  PROVE  (((i + 1) % B) + (n - 1)) % B = (i + n) % B
<1>1. CASE i + 1 < B
  <2>1. (i + 1) % B = i + 1
    BY <1>1
  <2>. QED  BY <2>1
<1>2. CASE i + 1 = B
  <2>1. (i + 1) % B = 0
    BY <1>2
  <2>2. (n - 1) % B = n - 1
    OBVIOUS
  <2>3. (i + n) % B = n - 1
    BY <1>2
  <2>. QED  BY <2>1, <2>2, <2>3
<1>. QED  BY <1>1, <1>2

Bit(b) == IF b THEN 1 ELSE 0

\* How the number of threads at certain places changes when t goes from one
\* place to another.
LEMMA Moved ==
  ASSUME NEW S \in SUBSET Thread, IsFiniteSet(S), DOMAIN pc = Thread,
         NEW t \in Thread, NEW x, Goto(t, x), NEW places
  PROVE  /\ Cardinality(At(S, places)) \in Nat
         /\ Cardinality(At(S, places)') = Cardinality(At(S, places))
              + Bit(t \in S /\ x \in places) - Bit(t \in S /\ pc[t] \in places)
<1>. DEFINE old == At(S, places)
            new == At(S, places)'
<1>1. IsFiniteSet(old) /\ Cardinality(old) \in Nat
  <2>1. IsFiniteSet(old)
    BY FS_Subset DEF At
  <2>. QED  BY <2>1, FS_CardinalityType
<1>2. CASE t \in S /\ x \in places /\ pc[t] \notin places
  <2>1. new = old \cup {t} /\ t \notin old
    BY <1>2 DEF At, Goto
  <2>. HIDE DEF old, new
  <2>2. Cardinality(new) = Cardinality(old) + 1
    BY <1>1, <2>1, FS_AddElement
  <2>. QED  BY <1>1, <1>2, <2>2 DEF old, new, Bit
<1>3. CASE t \in S /\ x \notin places /\ pc[t] \in places
  <2>1. new = old \ {t} /\ t \in old
    BY <1>3 DEF At, Goto
  <2>. HIDE DEF old, new
  <2>2. Cardinality(new) = Cardinality(old) - 1
    BY <1>1, <2>1, FS_RemoveElement
  <2>. QED  BY <1>1, <1>3, <2>2 DEF old, new, Bit
<1>4. CASE t \notin S \/ (x \in places <=> pc[t] \in places)
  <2>1. new = old
    BY <1>4 DEF At, Goto
  <2>. HIDE DEF old, new
  <2>. QED  BY <1>1, <1>4, <2>1 DEF old, new, Bit
<1>. QED  BY <1>2, <1>3, <1>4

\* What moving one thread does to the four counts.
LEMMA CountsMove ==
  ASSUME TypeOK, NEW t \in Thread, NEW x, Goto(t, x)
  PROVE  /\ Cardinality(Reserving) \in Nat /\ Cardinality(Stored) \in Nat
         /\ Cardinality(Claiming) \in Nat /\ Cardinality(Freeing) \in Nat
         /\ Cardinality(Reserving)' = Cardinality(Reserving)
              + Bit(t \in Senders /\ x \in {"lock", "copy1", "copy2"})
              - Bit(t \in Senders /\ pc[t] \in {"lock", "copy1", "copy2"})
         /\ Cardinality(Stored)' = Cardinality(Stored)
              + Bit(t \in Senders /\ x \in {"unlock", "V"})
              - Bit(t \in Senders /\ pc[t] \in {"unlock", "V"})
         /\ Cardinality(Claiming)' = Cardinality(Claiming)
              + Bit(t \in Consumers /\ x \in {"lock", "copy1", "copy2"})
              - Bit(t \in Consumers /\ pc[t] \in {"lock", "copy1", "copy2"})
         /\ Cardinality(Freeing)' = Cardinality(Freeing)
              + Bit(t \in Consumers /\ x \in {"unlock", "V"})
              - Bit(t \in Consumers /\ pc[t] \in {"unlock", "V"})
<1>1. IsFiniteSet(Senders) /\ IsFiniteSet(Consumers)
  BY PCAssumption, FS_AddElement DEF PCAssumption, Senders
<1>2. Senders \in SUBSET Thread /\ Consumers \in SUBSET Thread /\ DOMAIN pc = Thread
  BY DEF Thread, TypeOK
<1>. USE <1>1, <1>2, Moved
<1>3. /\ Cardinality(Reserving) \in Nat
      /\ Cardinality(Reserving)' = Cardinality(Reserving)
              + Bit(t \in Senders /\ x \in {"lock", "copy1", "copy2"})
              - Bit(t \in Senders /\ pc[t] \in {"lock", "copy1", "copy2"})
  BY DEF Reserving
<1>4. /\ Cardinality(Stored) \in Nat
      /\ Cardinality(Stored)' = Cardinality(Stored)
              + Bit(t \in Senders /\ x \in {"unlock", "V"})
              - Bit(t \in Senders /\ pc[t] \in {"unlock", "V"})
  BY DEF Stored
<1>5. /\ Cardinality(Claiming) \in Nat
      /\ Cardinality(Claiming)' = Cardinality(Claiming)
              + Bit(t \in Consumers /\ x \in {"lock", "copy1", "copy2"})
              - Bit(t \in Consumers /\ pc[t] \in {"lock", "copy1", "copy2"})
  BY DEF Claiming
<1>6. /\ Cardinality(Freeing) \in Nat
      /\ Cardinality(Freeing)' = Cardinality(Freeing)
              + Bit(t \in Consumers /\ x \in {"unlock", "V"})
              - Bit(t \in Consumers /\ pc[t] \in {"unlock", "V"})
  BY DEF Freeing
<1>. QED  BY <1>3, <1>4, <1>5, <1>6

\* The ring never holds more items than it has slots, and with a sender about
\* to store it has room, with a consumer about to load it has an item.
LEMMA CountBounded ==
  ASSUME TypeOK, SlotsConserved
  PROVE  /\ Count \in 0..BufferSize
         /\ \A s \in Senders : pc[s] \in {"lock", "copy1", "copy2"} => Count < BufferSize
         /\ \A c \in Consumers : pc[c] \in {"lock", "copy1", "copy2"} => Count > 0
<1>1. /\ IsFiniteSet(Reserving) /\ IsFiniteSet(Stored)
      /\ IsFiniteSet(Claiming) /\ IsFiniteSet(Freeing)
  <2>1. IsFiniteSet(Senders) /\ IsFiniteSet(Consumers)
    BY PCAssumption, FS_AddElement DEF PCAssumption, Senders
  <2>. QED  BY <2>1, FS_Subset DEF Reserving, Stored, Claiming, Freeing, At
<1>2. /\ Cardinality(Reserving) \in Nat /\ Cardinality(Stored) \in Nat
      /\ Cardinality(Claiming) \in Nat /\ Cardinality(Freeing) \in Nat
  BY <1>1, FS_CardinalityType
<1>3. ASSUME NEW s \in Senders, pc[s] \in {"lock", "copy1", "copy2"}
      PROVE  Cardinality(Reserving) > 0
  <2>1. s \in Reserving
    BY <1>3 DEF Reserving, At
  <2>2. Reserving # {}
    BY <2>1
  <2>3. Cardinality(Reserving) # 0
    BY <1>1, <2>2, FS_EmptySet
  <2>. QED  BY <1>2, <2>3
<1>4. ASSUME NEW c \in Consumers, pc[c] \in {"lock", "copy1", "copy2"}
      PROVE  Cardinality(Claiming) > 0
  <2>1. c \in Claiming
    BY <1>4 DEF Claiming, At
  <2>2. Claiming # {}
    BY <2>1
  <2>3. Cardinality(Claiming) # 0
    BY <1>1, <2>2, FS_EmptySet
  <2>. QED  BY <1>2, <2>3
<1>. QED  BY <1>2, <1>3, <1>4, PCAssumption DEF PCAssumption, TypeOK, SlotsConserved, Count

\* A step that moves t without passing a point where slots change hands.
LEMMA CountsStay ==
  ASSUME TypeOK, NEW t \in Thread, NEW x, Goto(t, x),
         \A places \in {{"lock", "copy1", "copy2"}, {"unlock", "V"}} :
            x \in places <=> pc[t] \in places
  PROVE  /\ Cardinality(Reserving)' = Cardinality(Reserving)
         /\ Cardinality(Stored)' = Cardinality(Stored)
         /\ Cardinality(Claiming)' = Cardinality(Claiming)
         /\ Cardinality(Freeing)' = Cardinality(Freeing)
<1>1. \A S : At(S, {"lock", "copy1", "copy2"})' = At(S, {"lock", "copy1", "copy2"})
  BY DEF At, Goto, TypeOK
<1>2. \A S : At(S, {"unlock", "V"})' = At(S, {"unlock", "V"})
  BY DEF At, Goto, TypeOK
<1>. QED  BY <1>1, <1>2 DEF Reserving, Stored, Claiming, Freeing

\* A step that leaves the four counts, the semaphores of the buffer and the
\* indices alone keeps the account and the indices in step.
LEMMA AccountSame ==
  ASSUME SlotsConserved, IndicesAgree, UNCHANGED <<hi, lo, empty_sem, full_sem>>,
         Cardinality(Reserving)' = Cardinality(Reserving),
         Cardinality(Stored)' = Cardinality(Stored),
         Cardinality(Claiming)' = Cardinality(Claiming),
         Cardinality(Freeing)' = Cardinality(Freeing)
  PROVE  SlotsConserved' /\ IndicesAgree'
BY DEF SlotsConserved, IndicesAgree, Count

\* Who is who, and where a thread can go.
LEMMA Threads ==
  /\ \A s \in Senders : s \in Thread /\ s \notin Consumers
  /\ \A c \in Consumers : c \in Thread /\ c \notin Senders
  /\ \A p \in Producers : p \in Senders /\ p # Main
  /\ Main \in Senders /\ Nobody \notin Thread
BY PCAssumption DEF PCAssumption, Senders, Thread

-----------------------------------------------------------------------------
(* The steps of producer_send and consumer_receive *)

\* lock_acquire and lock_release keep the invariant, for senders and consumers.
LEMMA LockStep ==
  ASSUME Control, NEW t \in Thread, Lock(t) \/ Unlock(t)
  PROVE  Control'
<1>. USE Threads DEF Control, ring, sems, fins
<1>1. CASE Lock(t)
  <2>1. TypeOK'
    BY <1>1 DEF Lock, TypeOK, Goto, InCall
  <2>2. OneInside'
    BY <1>1 DEF Lock, TypeOK, OneInside, Goto
  <2>3. SlotsConserved' /\ IndicesAgree'
    BY <1>1, CountsStay, AccountSame DEF Lock
  <2>4. LeftBounded'
    BY <1>1 DEF Lock, TypeOK, LeftBounded, Goto, InCall
  <2>. QED  BY <2>1, <2>2, <2>3, <2>4
<1>2. CASE Unlock(t)
  <2>1. TypeOK'
    BY <1>2 DEF Unlock, TypeOK, Goto, InCall
  <2>2. OneInside'
    BY <1>2 DEF Unlock, TypeOK, OneInside, Goto
  <2>3. SlotsConserved' /\ IndicesAgree'
    BY <1>2, CountsStay, AccountSame DEF Unlock
  <2>4. LeftBounded'
    BY <1>2 DEF Unlock, TypeOK, LeftBounded, Goto, InCall
  <2>. QED  BY <2>1, <2>2, <2>3, <2>4
<1>. QED  BY <1>1, <1>2

\* The other steps of producer_send keep the invariant: P reserves a slot, the
\* second copy turns it into an item and moves hi, V announces it.
LEMMA SendStep ==
  ASSUME Control, NEW s \in Senders, SendP(s) \/ Store1(s) \/ Store2(s) \/ SendV(s)
  PROVE  Control'
<1>. USE Threads DEF Control, ring, sems, fins
<1>. DEFINE Account == /\ Cardinality(Reserving) \in Nat /\ Cardinality(Stored) \in Nat
                       /\ Cardinality(Claiming) \in Nat /\ Cardinality(Freeing) \in Nat
<1>1. CASE SendP(s)
  <2>1. TypeOK'
    BY <1>1 DEF SendP, TypeOK, Goto, InCall
  <2>2. OneInside'
    BY <1>1 DEF SendP, TypeOK, OneInside, Goto
  <2>3. /\ Account
        /\ Cardinality(Reserving)' = Cardinality(Reserving) + 1
        /\ Cardinality(Stored)' = Cardinality(Stored)
        /\ Cardinality(Claiming)' = Cardinality(Claiming)
        /\ Cardinality(Freeing)' = Cardinality(Freeing)
    BY <1>1, CountsMove DEF SendP, Bit
  <2>4. SlotsConserved' /\ IndicesAgree'
    BY <1>1, <2>3 DEF SendP, TypeOK, SlotsConserved, IndicesAgree, Count
  <2>5. LeftBounded'
    BY <1>1 DEF SendP, TypeOK, LeftBounded, Goto, InCall
  <2>. QED  BY <2>1, <2>2, <2>4, <2>5
<1>2. CASE Store1(s)
  <2>1. TypeOK'
    BY <1>2 DEF Store1, TypeOK, Goto, InCall, PcData
  <2>2. OneInside'
    BY <1>2 DEF Store1, TypeOK, OneInside, Goto
  <2>3. SlotsConserved' /\ IndicesAgree'
    BY <1>2, CountsStay, AccountSame DEF Store1
  <2>4. LeftBounded'
    BY <1>2 DEF Store1, TypeOK, LeftBounded, Goto, InCall
  <2>. QED  BY <2>1, <2>2, <2>3, <2>4
<1>3. CASE Store2(s)
  <2>1. hi' = (hi + 1) % BufferSize /\ hi' \in 0..BufferSize-1
    BY <1>3, AdvanceBounded, PCAssumption DEF Store2, TypeOK, PCAssumption
  <2>2. TypeOK'
    <3>1. buffer' \in [0..BufferSize-1 -> PcData]
      BY <1>3 DEF Store2, TypeOK, PcData
    <3>. QED  BY <1>3, <2>1, <3>1 DEF Store2, TypeOK, Goto, InCall
  <2>3. OneInside'
    BY <1>3 DEF Store2, TypeOK, OneInside, Goto
  <2>4. /\ Account
        /\ Cardinality(Reserving)' = Cardinality(Reserving) - 1
        /\ Cardinality(Stored)' = Cardinality(Stored) + 1
        /\ Cardinality(Claiming)' = Cardinality(Claiming)
        /\ Cardinality(Freeing)' = Cardinality(Freeing)
    BY <1>3, CountsMove DEF Store2, Bit
  <2>5. Count' = Count + 1 /\ SlotsConserved'
    <3>1. /\ empty_sem' = empty_sem /\ full_sem' = full_sem
          /\ empty_sem \in Nat /\ full_sem \in Nat
      BY <1>3 DEF Store2, TypeOK
    <3>. QED  BY <2>4, <3>1 DEF SlotsConserved, Count
  <2>6. IndicesAgree'
    <3>1. Count \in 0..BufferSize-1
      BY <1>3, CountBounded, PCAssumption DEF Store2, PCAssumption
    <3>2. (((lo + Count) % BufferSize) + 1) % BufferSize = (lo + (Count + 1)) % BufferSize
      BY <3>1, AdvanceEnd, PCAssumption DEF TypeOK, PCAssumption
    <3>3. lo' = lo
      BY <1>3 DEF Store2
    <3>. QED  BY <2>1, <2>5, <3>2, <3>3 DEF IndicesAgree
  <2>7. LeftBounded'
    BY <1>3 DEF Store2, TypeOK, LeftBounded, Goto, InCall
  <2>. QED  BY <2>2, <2>3, <2>5, <2>6, <2>7
<1>4. CASE SendV(s)
  <2>1. left[s] > 0
    BY <1>4 DEF SendV, LeftBounded, InCall
  <2>2. TypeOK'
    BY <1>4, <2>1 DEF SendV, TypeOK, Goto, Driver
  <2>3. OneInside'
    BY <1>4 DEF SendV, TypeOK, OneInside, Goto
  <2>4. /\ Account
        /\ Cardinality(Reserving)' = Cardinality(Reserving)
        /\ Cardinality(Stored)' = Cardinality(Stored) - 1
        /\ Cardinality(Claiming)' = Cardinality(Claiming)
        /\ Cardinality(Freeing)' = Cardinality(Freeing)
    BY <1>4, CountsMove DEF SendV, Bit
  <2>5. Count' = Count
    BY <1>4, <2>4 DEF SendV, TypeOK, Count
  <2>6. SlotsConserved' /\ IndicesAgree'
    BY <1>4, <2>4, <2>5 DEF SendV, SlotsConserved, IndicesAgree
  <2>7. LeftBounded'
    <3>1. /\ left \in [Senders -> Nat] /\ pc \in [Thread -> InCall \cup Driver]
          /\ left' = [left EXCEPT ![s] = left[s] - 1] /\ pc' = [pc EXCEPT ![s] = "start"]
      BY <1>4 DEF SendV, TypeOK, Goto
    <3>2. \A u \in Senders : pc'[u] \in InCall => left'[u] > 0
      BY <3>1 DEF LeftBounded, InCall
    <3>3. \A p \in Producers : left'[p] <= ItemsToProduce
      <4>1. \A p \in Producers : left[p] \in Nat /\ left'[p] \in Nat /\ left'[p] <= left[p]
        BY <2>1, <3>1
      <4>. QED  BY <4>1, PCAssumption DEF PCAssumption, LeftBounded
    <3>. QED  BY <3>2, <3>3 DEF LeftBounded
  <2>. QED  BY <2>2, <2>3, <2>6, <2>7
<1>. QED  BY <1>1, <1>2, <1>3, <1>4

\* The steps of consumer_receive keep the invariant: P claims an item, the
\* second copy takes it and moves lo, V announces the free slot.
LEMMA ReceiveStep ==
  ASSUME Control, NEW c \in Consumers, ReceiveP(c) \/ Load1(c) \/ Load2(c) \/ ReceiveV(c)
  PROVE  Control'
<1>. USE Threads DEF Control, ring, sems, fins
<1>. DEFINE Account == /\ Cardinality(Reserving) \in Nat /\ Cardinality(Stored) \in Nat
                       /\ Cardinality(Claiming) \in Nat /\ Cardinality(Freeing) \in Nat
<1>1. CASE ReceiveP(c)
  <2>1. TypeOK'
    BY <1>1 DEF ReceiveP, TypeOK, Goto, InCall
  <2>2. OneInside'
    BY <1>1 DEF ReceiveP, TypeOK, OneInside, Goto
  <2>3. /\ Account
        /\ Cardinality(Reserving)' = Cardinality(Reserving)
        /\ Cardinality(Stored)' = Cardinality(Stored)
        /\ Cardinality(Claiming)' = Cardinality(Claiming) + 1
        /\ Cardinality(Freeing)' = Cardinality(Freeing)
    BY <1>1, CountsMove DEF ReceiveP, Bit
  <2>4. Count' = Count
    BY <1>1, <2>3 DEF ReceiveP, TypeOK, Count
  <2>5. SlotsConserved' /\ IndicesAgree'
    BY <1>1, <2>3, <2>4 DEF ReceiveP, SlotsConserved, IndicesAgree
  <2>6. LeftBounded'
    BY <1>1 DEF ReceiveP, TypeOK, LeftBounded, Goto
  <2>. QED  BY <2>1, <2>2, <2>5, <2>6
<1>2. CASE Load1(c)
  <2>1. TypeOK'
    BY <1>2 DEF Load1, TypeOK, Goto, InCall, PcData
  <2>2. OneInside'
    BY <1>2 DEF Load1, TypeOK, OneInside, Goto
  <2>3. SlotsConserved' /\ IndicesAgree'
    BY <1>2, CountsStay, AccountSame DEF Load1
  <2>4. LeftBounded'
    BY <1>2 DEF Load1, TypeOK, LeftBounded, Goto
  <2>. QED  BY <2>1, <2>2, <2>3, <2>4
<1>3. CASE Load2(c)
  <2>1. lo' = (lo + 1) % BufferSize /\ lo' \in 0..BufferSize-1
    BY <1>3, AdvanceBounded, PCAssumption DEF Load2, TypeOK, PCAssumption
  <2>2. TypeOK'
    <3>1. thedata' \in [Thread -> PcData]
      BY <1>3 DEF Load2, TypeOK, PcData
    <3>. QED  BY <1>3, <2>1, <3>1 DEF Load2, TypeOK, Goto, InCall
  <2>3. OneInside'
    BY <1>3 DEF Load2, TypeOK, OneInside, Goto
  <2>4. /\ Account
        /\ Cardinality(Reserving)' = Cardinality(Reserving)
        /\ Cardinality(Stored)' = Cardinality(Stored)
        /\ Cardinality(Claiming)' = Cardinality(Claiming) - 1
        /\ Cardinality(Freeing)' = Cardinality(Freeing) + 1
    BY <1>3, CountsMove DEF Load2, Bit
  <2>5. Count' = Count - 1 /\ SlotsConserved'
    <3>1. /\ empty_sem' = empty_sem /\ full_sem' = full_sem
          /\ empty_sem \in Nat /\ full_sem \in Nat
      BY <1>3 DEF Load2, TypeOK
    <3>. QED  BY <2>4, <3>1 DEF SlotsConserved, Count
  <2>6. IndicesAgree'
    <3>1. Count \in 1..BufferSize
      BY <1>3, CountBounded, PCAssumption DEF Load2, PCAssumption
    <3>2. (((lo + 1) % BufferSize) + (Count - 1)) % BufferSize = (lo + Count) % BufferSize
      BY <3>1, AdvanceBegin, PCAssumption DEF TypeOK, PCAssumption
    <3>3. hi' = hi
      BY <1>3 DEF Load2
    <3>. QED  BY <2>1, <2>5, <3>2, <3>3 DEF IndicesAgree
  <2>7. LeftBounded'
    BY <1>3 DEF Load2, TypeOK, LeftBounded, Goto
  <2>. QED  BY <2>2, <2>3, <2>5, <2>6, <2>7
<1>4. CASE ReceiveV(c)
  <2>0. PICK x \in {"finish", "P"} : Goto(c, x)
    BY <1>4 DEF ReceiveV
  <2>1. TypeOK'
    BY <1>4, <2>0 DEF ReceiveV, TypeOK, Goto, Driver, InCall
  <2>2. OneInside'
    BY <1>4, <2>0 DEF ReceiveV, TypeOK, OneInside, Goto
  <2>3. /\ Account
        /\ Cardinality(Reserving)' = Cardinality(Reserving)
        /\ Cardinality(Stored)' = Cardinality(Stored)
        /\ Cardinality(Claiming)' = Cardinality(Claiming)
        /\ Cardinality(Freeing)' = Cardinality(Freeing) - 1
    BY <1>4, <2>0, CountsMove DEF ReceiveV, Bit
  <2>4. SlotsConserved' /\ IndicesAgree'
    <3>1. /\ empty_sem' = empty_sem /\ full_sem' = full_sem + 1 /\ hi' = hi /\ lo' = lo
          /\ empty_sem \in Nat /\ full_sem \in Nat
      BY <1>4 DEF ReceiveV, TypeOK
    <3>2. Count' = Count /\ Count \in Nat
      BY <2>3, <3>1 DEF Count
    <3>. QED  BY <2>3, <3>1, <3>2 DEF SlotsConserved, IndicesAgree
  <2>5. LeftBounded'
    BY <1>4, <2>0 DEF ReceiveV, TypeOK, LeftBounded, Goto
  <2>. QED  BY <2>1, <2>2, <2>4, <2>5
<1>. QED  BY <1>1, <1>2, <1>3, <1>4

-----------------------------------------------------------------------------
(* The driver *)

\* A step that moves no thread and touches neither ring nor its semaphores.
LEMMA AccountFrame ==
  ASSUME SlotsConserved, IndicesAgree, UNCHANGED <<pc, hi, lo, empty_sem, full_sem>>
  PROVE  SlotsConserved' /\ IndicesAgree'
BY DEF SlotsConserved, IndicesAgree, Count, Reserving, Stored, Claiming, Freeing, At

\* The loops of the producer and consumer threads keep the invariant.
LEMMA WorkerStep ==
  ASSUME Control,
         \/ \E p \in Producers : NextItem(p) \/ ProducerExit(p)
         \/ \E c \in Consumers : ConsumerExit(c)
  PROVE  Control'
<1>. USE Threads DEF Control, ring, sems, fins
<1>1. ASSUME NEW p \in Producers, NextItem(p) PROVE Control'
  <2>1. TypeOK'
    <3>1. <<p, left[p]>> \in Item
      BY <1>1, PCAssumption DEF NextItem, TypeOK, Item, LeftBounded, PCAssumption
    <3>. QED  BY <1>1, <3>1 DEF NextItem, TypeOK, Goto, InCall, PcData
  <2>2. OneInside'
    BY <1>1 DEF NextItem, TypeOK, OneInside, Goto
  <2>3. SlotsConserved' /\ IndicesAgree'
    BY <1>1, CountsStay, AccountSame DEF NextItem
  <2>4. LeftBounded'
    BY <1>1 DEF NextItem, TypeOK, LeftBounded, Goto, InCall
  <2>. QED  BY <2>1, <2>2, <2>3, <2>4
<1>2. ASSUME NEW p \in Producers, ProducerExit(p) PROVE Control'
  <2>1. TypeOK'
    BY <1>2 DEF ProducerExit, TypeOK, Goto, Driver
  <2>2. OneInside'
    BY <1>2 DEF ProducerExit, TypeOK, OneInside, Goto
  <2>3. SlotsConserved' /\ IndicesAgree'
    BY <1>2, CountsStay, AccountSame DEF ProducerExit
  <2>4. LeftBounded'
    BY <1>2 DEF ProducerExit, TypeOK, LeftBounded, Goto, InCall
  <2>. QED  BY <2>1, <2>2, <2>3, <2>4
<1>3. ASSUME NEW c \in Consumers, ConsumerExit(c) PROVE Control'
  <2>1. TypeOK'
    BY <1>3 DEF ConsumerExit, TypeOK, Goto, Driver
  <2>2. OneInside'
    BY <1>3 DEF ConsumerExit, TypeOK, OneInside, Goto
  <2>3. SlotsConserved' /\ IndicesAgree'
    BY <1>3, CountsStay, AccountSame DEF ConsumerExit
  <2>4. LeftBounded'
    BY <1>3 DEF ConsumerExit, TypeOK, LeftBounded, Goto, InCall
  <2>. QED  BY <2>1, <2>2, <2>3, <2>4
<1>. QED  BY <1>1, <1>2, <1>3

\* The main thread's steps keep the invariant.
LEMMA MainDriverStep ==
  ASSUME Control, Join \/ Stop \/ NextZero \/ StartReap \/ Reap \/ StartShutdown \/ Shutdown
  PROVE  Control'
<1>. USE Threads DEF Control, ring, sems, fins
<1>0. Cardinality(Consumers) \in Nat /\ Zero \in Item
  BY FS_CardinalityType, PCAssumption DEF PCAssumption, Item
<1>1. CASE Join
  <2>1. TypeOK'
    BY <1>1 DEF Join, TypeOK
  <2>2. OneInside'
    BY <1>1 DEF Join, OneInside
  <2>3. SlotsConserved' /\ IndicesAgree'
    BY <1>1, AccountFrame DEF Join
  <2>4. LeftBounded'
    BY <1>1 DEF Join, TypeOK, LeftBounded, InCall
  <2>. QED  BY <2>1, <2>2, <2>3, <2>4
<1>2. CASE Stop
  <2>1. TypeOK'
    BY <1>0, <1>2 DEF Stop, TypeOK, Goto, Driver
  <2>2. OneInside'
    BY <1>2 DEF Stop, TypeOK, OneInside, Goto
  <2>3. SlotsConserved' /\ IndicesAgree'
    BY <1>2, CountsStay, AccountSame DEF Stop
  <2>4. LeftBounded'
    BY <1>2 DEF Stop, TypeOK, LeftBounded, Goto, InCall
  <2>. QED  BY <2>1, <2>2, <2>3, <2>4
<1>3. CASE NextZero
  <2>1. TypeOK'
    BY <1>0, <1>3 DEF NextZero, TypeOK, Goto, InCall, PcData
  <2>2. OneInside'
    BY <1>3 DEF NextZero, TypeOK, OneInside, Goto
  <2>3. SlotsConserved' /\ IndicesAgree'
    BY <1>3, CountsStay, AccountSame DEF NextZero
  <2>4. LeftBounded'
    BY <1>3 DEF NextZero, TypeOK, LeftBounded, Goto, InCall
  <2>. QED  BY <2>1, <2>2, <2>3, <2>4
<1>4. CASE StartReap
  <2>1. TypeOK'
    BY <1>0, <1>4 DEF StartReap, TypeOK, Goto, Driver
  <2>2. OneInside'
    BY <1>4 DEF StartReap, TypeOK, OneInside, Goto
  <2>3. SlotsConserved' /\ IndicesAgree'
    BY <1>4, CountsStay, AccountSame DEF StartReap
  <2>4. LeftBounded'
    BY <1>4 DEF StartReap, TypeOK, LeftBounded, Goto, InCall
  <2>. QED  BY <2>1, <2>2, <2>3, <2>4
<1>5. CASE Reap
  <2>1. TypeOK'
    BY <1>5 DEF Reap, TypeOK
  <2>2. OneInside'
    BY <1>5 DEF Reap, OneInside
  <2>3. SlotsConserved' /\ IndicesAgree'
    BY <1>5, AccountFrame DEF Reap
  <2>4. LeftBounded'
    BY <1>5 DEF Reap, TypeOK, LeftBounded, InCall
  <2>. QED  BY <2>1, <2>2, <2>3, <2>4
<1>6. CASE StartShutdown
  <2>1. TypeOK'
    BY <1>6 DEF StartShutdown, TypeOK, Goto, Driver
  <2>2. OneInside'
    BY <1>6 DEF StartShutdown, TypeOK, OneInside, Goto
  <2>3. SlotsConserved' /\ IndicesAgree'
    BY <1>6, CountsStay, AccountSame DEF StartShutdown
  <2>4. LeftBounded'
    BY <1>6 DEF StartShutdown, TypeOK, LeftBounded, Goto, InCall
  <2>. QED  BY <2>1, <2>2, <2>3, <2>4
<1>7. CASE Shutdown
  <2>1. TypeOK'
    BY <1>7 DEF Shutdown, TypeOK, Goto, Driver
  <2>2. OneInside'
    BY <1>7 DEF Shutdown, TypeOK, OneInside, Goto
  <2>3. SlotsConserved' /\ IndicesAgree'
    BY <1>7, CountsStay, AccountSame DEF Shutdown
  <2>4. LeftBounded'
    BY <1>7 DEF Shutdown, TypeOK, LeftBounded, Goto, InCall
  <2>. QED  BY <2>1, <2>2, <2>3, <2>4
<1>. QED  BY <1>1, <1>2, <1>3, <1>4, <1>5, <1>6, <1>7

-----------------------------------------------------------------------------
(* The theorems about the control *)

\* Startup establishes the invariant.
LEMMA ControlInit == Init => Control
<1>. SUFFICES ASSUME Init PROVE Control
  OBVIOUS
<1>. USE Threads DEF Init
<1>1. IsFiniteSet(Producers) /\ Cardinality(Producers) \in Nat /\ BufferSize \in Nat \ {0}
  BY PCAssumption, FS_CardinalityType DEF PCAssumption
<1>2. TypeOK
  <2>1. Zero \in Item /\ [item1 |-> Zero, item2 |-> Zero] \in PcData
    BY DEF Item, PcData
  <2>2. left \in [Senders -> Nat]
    BY <1>1, PCAssumption DEF PCAssumption
  <2>. QED  BY <1>1, <2>1, <2>2 DEF TypeOK, InCall, Driver
<1>3. OneInside
  BY DEF OneInside
<1>4. Reserving = {} /\ Stored = {} /\ Claiming = {} /\ Freeing = {}
  BY DEF Reserving, Stored, Claiming, Freeing, At, Thread
<1>5. /\ Cardinality(Reserving) = 0 /\ Cardinality(Stored) = 0
      /\ Cardinality(Claiming) = 0 /\ Cardinality(Freeing) = 0
  BY <1>4, FS_EmptySet
<1>6. SlotsConserved
  BY <1>1, <1>5 DEF SlotsConserved, Count
<1>7. IndicesAgree
  <2>1. Count = 0 /\ 0 % BufferSize = 0
    BY <1>1, <1>5 DEF Count
  <2>. QED  BY <2>1 DEF IndicesAgree
<1>8. LeftBounded
  BY <1>1, PCAssumption DEF PCAssumption, LeftBounded, InCall, Senders, Thread
<1>. QED  BY <1>2, <1>3, <1>6, <1>7, <1>8 DEF Control

\* Every step keeps it.
LEMMA ControlStep == Control /\ [Next]_vars => Control'
<1>. SUFFICES ASSUME Control, [Next]_vars PROVE Control'
  OBVIOUS
<1>1. ASSUME NEW s \in Senders, Send(s) PROVE Control'
  BY <1>1, LockStep, SendStep, Threads DEF Send
<1>2. ASSUME NEW c \in Consumers, Receive(c) PROVE Control'
  BY <1>2, LockStep, ReceiveStep, Threads DEF Receive
<1>3. CASE Over \/ UNCHANGED vars
  <2>1. UNCHANGED vars
    BY <1>3 DEF Over
  <2>. USE <2>1 DEF vars, Control
  <2>2. TypeOK' /\ OneInside' /\ LeftBounded'
    BY DEF TypeOK, OneInside, LeftBounded
  <2>3. SlotsConserved' /\ IndicesAgree'
    BY AccountFrame
  <2>. QED  BY <2>2, <2>3
<1>. QED
  BY <1>1, <1>2, <1>3, WorkerStep, MainDriverStep, Threads
  DEF Next, ProducerStep, ConsumerStep, MainStep

\* The invariant of the control holds of every reachable state.
LEMMA ControlInvariant == Spec => []Control
BY ControlInit, ControlStep, PTL DEF Spec

\* Every variable keeps its type: the indices stay inside the ring and no
\* semaphore is taken below zero.
THEOREM TypeCorrect == Spec => []TypeOK
BY ControlInvariant, PTL DEF Control

\* Stores, loads and the moves of both indices exclude each other.
THEOREM MutualExclusion == Spec => []OneInside
BY ControlInvariant, PTL DEF Control

\* Whatever the preemptions, each slot is an item, reserved, being freed or
\* announced free, never two of them, and the indices enclose exactly the items
\* the semaphores account for.
THEOREM RingIsExact == Spec => []RingExact
BY ControlInvariant, PTL DEF Control, RingExact

-----------------------------------------------------------------------------
(* What a step does to the items *)

\* The second assignment of a store adds an item.
LEMMA Store2Counts ==
  ASSUME Control, NEW s \in Senders, Store2(s)
  PROVE  Count' = Count + 1
<1>1. empty_sem \in Nat /\ empty_sem' = empty_sem
  BY DEF Control, TypeOK, Store2, sems
<1>2. /\ Cardinality(Stored) \in Nat /\ Cardinality(Claiming) \in Nat
      /\ Cardinality(Stored)' = Cardinality(Stored) + 1
      /\ Cardinality(Claiming)' = Cardinality(Claiming)
  BY CountsMove, Threads DEF Control, Store2, Bit
<1>. QED  BY <1>1, <1>2 DEF Count

\* The second assignment of a load takes an item.
LEMMA Load2Counts ==
  ASSUME Control, NEW c \in Consumers, Load2(c)
  PROVE  Count' = Count - 1
<1>1. empty_sem \in Nat /\ empty_sem' = empty_sem
  BY DEF Control, TypeOK, Load2, sems
<1>2. /\ Cardinality(Stored) \in Nat /\ Cardinality(Claiming) \in Nat
      /\ Cardinality(Stored)' = Cardinality(Stored)
      /\ Cardinality(Claiming)' = Cardinality(Claiming) - 1
  BY CountsMove, Threads DEF Control, Load2, Bit
<1>. QED  BY <1>1, <1>2 DEF Count

\* The number of items changes nowhere else: the P that claims an item and the
\* V that announces one move it between the terms of Count.
LEMMA CountSteps ==
  ASSUME Control, [Next]_vars,
         \A s \in Senders : ~Store2(s), \A c \in Consumers : ~Load2(c)
  PROVE  /\ Count' = Count /\ UNCHANGED <<hi, lo>>
         /\ buffer' = buffer \/ (\E s \in Senders : Store1(s))
<1>. USE Threads DEF Control, ring, sems, fins
<1>. DEFINE Quiet == Count' = Count /\ UNCHANGED <<hi, lo>>
<1>0. empty_sem \in Nat
  BY DEF TypeOK
<1>1. ASSUME NEW t \in Thread, Lock(t) \/ Unlock(t)
      PROVE  Quiet /\ buffer' = buffer
  <2>1. PICK x \in {"copy1", "V"} : Goto(t, x) /\ (x = "copy1" => pc[t] = "lock") /\ (x = "V" => pc[t] = "unlock")
    BY <1>1 DEF Lock, Unlock
  <2>. QED  BY <1>1, <2>1, CountsStay DEF Lock, Unlock, Count
<1>2. ASSUME NEW s \in Senders, SendP(s) PROVE Quiet /\ buffer' = buffer
  <2>1. /\ Cardinality(Stored)' = Cardinality(Stored)
        /\ Cardinality(Claiming)' = Cardinality(Claiming)
    BY <1>2, CountsMove DEF SendP, Bit
  <2>. QED  BY <1>2, <2>1 DEF SendP, Count
<1>3. ASSUME NEW s \in Senders, Store1(s) PROVE Quiet
  BY <1>3, CountsStay DEF Store1, Count
<1>4. ASSUME NEW s \in Senders, SendV(s) PROVE Quiet /\ buffer' = buffer
  <2>1. /\ Cardinality(Stored) \in Nat /\ Cardinality(Claiming) \in Nat
        /\ Cardinality(Stored)' = Cardinality(Stored) - 1
        /\ Cardinality(Claiming)' = Cardinality(Claiming)
    BY <1>4, CountsMove DEF SendV, Bit
  <2>. QED  BY <1>0, <1>4, <2>1 DEF SendV, Count
<1>5. ASSUME NEW c \in Consumers, ReceiveP(c) PROVE Quiet /\ buffer' = buffer
  <2>1. /\ Cardinality(Stored) \in Nat /\ Cardinality(Claiming) \in Nat
        /\ Cardinality(Stored)' = Cardinality(Stored)
        /\ Cardinality(Claiming)' = Cardinality(Claiming) + 1
    BY <1>5, CountsMove DEF ReceiveP, Bit
  <2>. QED  BY <1>0, <1>5, <2>1 DEF ReceiveP, Count
<1>6. ASSUME NEW c \in Consumers, Load1(c) PROVE Quiet /\ buffer' = buffer
  BY <1>6, CountsStay DEF Load1, Count
<1>7. ASSUME NEW c \in Consumers, ReceiveV(c) PROVE Quiet /\ buffer' = buffer
  <2>0. PICK x \in {"finish", "P"} : Goto(c, x)
    BY <1>7 DEF ReceiveV
  <2>1. /\ Cardinality(Stored)' = Cardinality(Stored)
        /\ Cardinality(Claiming)' = Cardinality(Claiming)
    BY <1>7, <2>0, CountsMove DEF ReceiveV, Bit
  <2>. QED  BY <1>7, <2>1 DEF ReceiveV, Count
<1>8. ASSUME NEW p \in Producers, NextItem(p) \/ ProducerExit(p) PROVE Quiet /\ buffer' = buffer
  <2>1. PICK x \in {"P", "done"} : Goto(p, x)
    BY <1>8 DEF NextItem, ProducerExit
  <2>. QED  BY <1>8, <2>1, CountsStay DEF NextItem, ProducerExit, Count
<1>9. ASSUME NEW c \in Consumers, ConsumerExit(c) PROVE Quiet /\ buffer' = buffer
  BY <1>9, CountsStay DEF ConsumerExit, Count
<1>10. ASSUME Stop \/ NextZero \/ StartReap \/ StartShutdown \/ Shutdown PROVE Quiet /\ buffer' = buffer
  <2>1. PICK x \in {"start", "P", "reap", "shutdown", "done"} : Goto(Main, x)
    BY <1>10 DEF Stop, NextZero, StartReap, StartShutdown, Shutdown
  <2>2. pc[Main] \in {"join", "start", "reap", "shutdown"}
    BY <1>10 DEF Stop, NextZero, StartReap, StartShutdown, Shutdown
  <2>3. empty_sem' = empty_sem /\ hi' = hi /\ lo' = lo /\ buffer' = buffer
    BY <1>10 DEF Stop, NextZero, StartReap, StartShutdown, Shutdown
  <2>. QED  BY <2>1, <2>2, <2>3, CountsStay DEF Count
<1>11. ASSUME Join \/ Reap \/ Over \/ UNCHANGED vars PROVE Quiet /\ buffer' = buffer
  <2>1. UNCHANGED <<pc, empty_sem, hi, lo, buffer>>
    BY <1>11 DEF Join, Reap, Over, vars
  <2>. QED  BY <2>1 DEF Count, Stored, Claiming, At
<1>. QED
  BY <1>1, <1>2, <1>3, <1>4, <1>5, <1>6, <1>7, <1>8, <1>9, <1>10, <1>11
  DEF Next, ProducerStep, ConsumerStep, MainStep, Send, Receive

\* Two positions of a ring that starts at b are two slots.
LEMMA SlotsDiffer ==
  ASSUME NEW B \in Nat \ {0}, NEW b \in 0..B-1, NEW i \in 0..B-1, NEW j \in 0..B-1, i # j
  PROVE  (b + i) % B # (b + j) % B
<1>1. ASSUME NEW k \in 0..B-1
      PROVE  (b + k) % B = IF b + k < B THEN b + k ELSE b + k - B
  OBVIOUS
<1>2. /\ (b + i) % B = IF b + i < B THEN b + i ELSE b + i - B
      /\ (b + j) % B = IF b + j < B THEN b + j ELSE b + j - B
  BY <1>1
<1>. QED  BY <1>2

\* Moving its start on by one shifts the positions by one.
LEMMA SlotsShift ==
  ASSUME NEW B \in Nat \ {0}, NEW b \in 0..B-1, NEW i \in 0..B-1
  PROVE  (((b + 1) % B) + i) % B = (b + i + 1) % B
<1>1. CASE b + 1 < B
  <2>1. (b + 1) % B = b + 1
    BY <1>1
  <2>. QED  BY <2>1
<1>2. CASE b + 1 = B
  <2>1. (b + 1) % B = 0
    BY <1>2
  <2>2. i % B = i
    OBVIOUS
  <2>3. (b + i + 1) % B = i
    BY <1>2
  <2>. QED  BY <2>1, <2>2, <2>3
<1>. QED  BY <1>1, <1>2

\* When a sequence is another with one element appended.
LEMMA AppendedIs ==
  ASSUME NEW S, NEW q \in Seq(S), NEW x \in S, NEW r \in Seq(S), Len(r) = Len(q) + 1,
         \A i \in 1..Len(q) : r[i] = q[i], r[Len(q) + 1] = x
  PROVE  r = Append(q, x)
OBVIOUS

\* When a sequence is another without its first element.
LEMMA TailIs ==
  ASSUME NEW S, NEW q \in Seq(S), q # <<>>, NEW r \in Seq(S), Len(r) = Len(q) - 1,
         \A i \in 1..Len(q) - 1 : r[i] = q[i + 1]
  PROVE  r = Tail(q)
OBVIOUS

\* Copies in progress: what senders pass is whole, and whoever is between the
\* two assignments of a copy still sees the first field it copied.  Neither
\* holds without the lock.
InStep ==
  /\ \A s \in Senders : thedata[s].item1 = thedata[s].item2
  /\ \A s \in Senders : pc[s] = "copy2" => buffer[hi].item1 = thedata[s].item1
  /\ \A c \in Consumers : pc[c] = "copy2" => thedata[c].item1 = buffer[lo].item1

\* While t is between lock_acquire and lock_release nobody else copies.
LEMMA Alone ==
  ASSUME OneInside, NEW t \in Thread, pc[t] \in {"copy1", "copy2", "unlock"}
  PROVE  \A u \in Thread \ {t} : pc[u] \notin {"copy1", "copy2", "unlock"}
BY DEF OneInside

\* Every step keeps the copies in step.
LEMMA InStepKept ==
  ASSUME Control, InStep, [Next]_vars
  PROVE  InStep'
<1>. USE Threads DEF Control, ring, sems, fins
<1>0. /\ pc \in [Thread -> InCall \cup Driver] /\ thedata \in [Thread -> PcData]
      /\ buffer \in [0..BufferSize-1 -> PcData] /\ hi \in 0..BufferSize-1 /\ lo \in 0..BufferSize-1
  BY DEF TypeOK
<1>1. ASSUME UNCHANGED <<ring, thedata>>,
             \A t \in Thread : pc'[t] = "copy2" => pc[t] = "copy2"
      PROVE  InStep'
  BY <1>1 DEF InStep
<1>2. ASSUME NEW t \in Thread, Lock(t) \/ Unlock(t) PROVE InStep'
  <2>1. UNCHANGED <<ring, thedata>> /\ \A u \in Thread : pc'[u] = "copy2" => pc[u] = "copy2"
    BY <1>0, <1>2 DEF Lock, Unlock, Goto
  <2>. QED  BY <1>1, <2>1
<1>3. ASSUME NEW s \in Senders, SendP(s) \/ SendV(s) PROVE InStep'
  <2>1. UNCHANGED <<ring, thedata>> /\ \A u \in Thread : pc'[u] = "copy2" => pc[u] = "copy2"
    BY <1>0, <1>3 DEF SendP, SendV, Goto
  <2>. QED  BY <1>1, <2>1
<1>4. ASSUME NEW s \in Senders, Store1(s) PROVE InStep'
  <2>1. /\ buffer'[hi].item1 = thedata[s].item1 /\ UNCHANGED <<hi, lo, thedata>>
        /\ \A u \in Thread \ {s} : pc'[u] = pc[u] /\ pc[u] # "copy2"
    BY <1>0, <1>4, Alone DEF Store1, Goto, PcData
  <2>. QED  BY <2>1 DEF InStep
<1>5. ASSUME NEW s \in Senders, Store2(s) PROVE InStep'
  <2>1. /\ UNCHANGED <<lo, thedata>>
        /\ \A u \in Thread : pc'[u] # "copy2"
    BY <1>0, <1>5, Alone DEF Store2, Goto
  <2>. QED  BY <2>1 DEF InStep
<1>6. ASSUME NEW c \in Consumers, Load1(c) PROVE InStep'
  <2>1. /\ thedata'[c].item1 = buffer[lo].item1 /\ UNCHANGED ring
        /\ \A u \in Thread \ {c} : thedata'[u] = thedata[u] /\ pc'[u] = pc[u] /\ pc[u] # "copy2"
    BY <1>0, <1>6, Alone DEF Load1, Goto, PcData
  <2>. QED  BY <2>1 DEF InStep
<1>7. ASSUME NEW c \in Consumers, Load2(c) PROVE InStep'
  <2>1. \A u \in Thread : pc'[u] # "copy2"
    BY <1>0, <1>7, Alone DEF Load2, Goto
  <2>2. \A u \in Senders : thedata'[u] = thedata[u]
    BY <1>0, <1>7 DEF Load2
  <2>. QED  BY <2>1, <2>2 DEF InStep
<1>8. ASSUME NEW c \in Consumers, ReceiveP(c) \/ ReceiveV(c) \/ ConsumerExit(c) PROVE InStep'
  <2>1. PICK x \in {"lock", "finish", "P", "done"} : Goto(c, x)
    BY <1>8 DEF ReceiveP, ReceiveV, ConsumerExit
  <2>2. UNCHANGED <<ring, thedata>>
    BY <1>8 DEF ReceiveP, ReceiveV, ConsumerExit
  <2>. QED  BY <1>0, <1>1, <2>1, <2>2 DEF Goto
<1>9. ASSUME NEW p \in Producers, NextItem(p) PROVE InStep'
  <2>1. /\ thedata'[p].item1 = thedata'[p].item2 /\ UNCHANGED ring
        /\ \A u \in Thread \ {p} : thedata'[u] = thedata[u]
        /\ \A u \in Thread : pc'[u] = "copy2" => pc[u] = "copy2" /\ u # p
    BY <1>0, <1>9 DEF NextItem, Goto
  <2>. QED  BY <2>1 DEF InStep
<1>10. ASSUME NextZero PROVE InStep'
  <2>1. /\ thedata'[Main].item1 = thedata'[Main].item2 /\ UNCHANGED ring
        /\ \A u \in Thread \ {Main} : thedata'[u] = thedata[u]
        /\ \A u \in Thread : pc'[u] = "copy2" => pc[u] = "copy2" /\ u # Main
    BY <1>0, <1>10 DEF NextZero, Goto
  <2>. QED  BY <2>1 DEF InStep
<1>11. ASSUME NEW p \in Producers, ProducerExit(p) PROVE InStep'
  <2>1. UNCHANGED <<ring, thedata>> /\ \A u \in Thread : pc'[u] = "copy2" => pc[u] = "copy2"
    BY <1>0, <1>11 DEF ProducerExit, Goto
  <2>. QED  BY <1>1, <2>1
<1>12. ASSUME Stop \/ StartReap \/ StartShutdown \/ Shutdown PROVE InStep'
  <2>1. PICK x \in {"start", "reap", "shutdown", "done"} : Goto(Main, x)
    BY <1>12 DEF Stop, StartReap, StartShutdown, Shutdown
  <2>2. UNCHANGED <<ring, thedata>>
    BY <1>12 DEF Stop, StartReap, StartShutdown, Shutdown
  <2>. QED  BY <1>0, <1>1, <2>1, <2>2 DEF Goto
<1>13. ASSUME Join \/ Reap \/ Over \/ UNCHANGED vars PROVE InStep'
  <2>1. UNCHANGED <<pc, ring, thedata>>
    BY <1>13 DEF Join, Reap, Over, vars
  <2>. QED  BY <1>1, <2>1
<1>. QED
  BY <1>2, <1>3, <1>4, <1>5, <1>6, <1>7, <1>8, <1>9, <1>10, <1>11, <1>12, <1>13
  DEF Next, ProducerStep, ConsumerStep, MainStep, Send, Receive

-----------------------------------------------------------------------------
(* What a step does to the queue *)

\* The ring, read from lo, is a sequence of Count items.
LEMMA QueueParts ==
  ASSUME Control
  PROVE  /\ Queue \in Seq(PcData) /\ Len(Queue) = Count /\ Count \in 0..BufferSize
         /\ \A i \in 1..Count : Queue[i] = buffer[(lo + i - 1) % BufferSize]
<1>1. Count \in 0..BufferSize /\ BufferSize \in Nat \ {0} /\ Count \in Nat
  BY CountBounded, PCAssumption DEF Control, PCAssumption
<1>2. \A i \in 1..Count : (lo + i - 1) % BufferSize \in 0..BufferSize-1
  BY <1>1 DEF Control, TypeOK
<1>3. \A i \in 1..Count : buffer[(lo + i - 1) % BufferSize] \in PcData
  BY <1>2 DEF Control, TypeOK
<1>. QED  BY <1>1, <1>3 DEF Queue

\* The first assignment of a store touches no item of the queue: the slot at
\* hi is reserved, and the ring is not full.
LEMMA Store1Hides ==
  ASSUME Control, NEW s \in Senders, Store1(s), Count' = Count
  PROVE  Queue' = Queue
<1>1. /\ BufferSize \in Nat \ {0} /\ Count \in 0..BufferSize-1 /\ lo \in 0..BufferSize-1
      /\ hi = (lo + Count) % BufferSize
  BY CountBounded, PCAssumption DEF Control, PCAssumption, Store1, TypeOK, IndicesAgree
<1>2. \A i \in 1..Count : (lo + i - 1) % BufferSize # hi
  <2>. SUFFICES ASSUME NEW i \in 1..Count PROVE (lo + (i - 1)) % BufferSize # (lo + Count) % BufferSize
    BY <1>1
  <2>1. i - 1 \in 0..BufferSize-1 /\ i - 1 # Count
    BY <1>1
  <2>. QED  BY <1>1, <2>1, SlotsDiffer
<1>3. \A k \in 0..BufferSize-1 : k # hi => buffer'[k] = buffer[k]
  BY DEF Store1, Control, TypeOK
<1>4. \A i \in 1..Count : (lo + i - 1) % BufferSize \in 0..BufferSize-1
  BY <1>1
<1>5. \A i \in 1..Count : buffer'[(lo + i - 1) % BufferSize] = buffer[(lo + i - 1) % BufferSize]
  BY <1>2, <1>3, <1>4
<1>6. Count' = Count /\ lo' = lo
  BY DEF Store1
<1>. QED  BY <1>5, <1>6 DEF Queue

\* The second one appends the sender's item, whole.
LEMMA Store2Appends ==
  ASSUME Control, Control', InStep, NEW s \in Senders, Store2(s)
  PROVE  Count < BufferSize /\ Queue' = Append(Queue, thedata[s])
<1>0. Count' = Count + 1
  BY Store2Counts
<1>1. /\ BufferSize \in Nat \ {0} /\ Count \in 0..BufferSize-1 /\ lo \in 0..BufferSize-1
      /\ hi = (lo + Count) % BufferSize /\ hi \in 0..BufferSize-1
  <2>1. pc[s] = "copy2"
    BY DEF Store2
  <2>2. BufferSize \in Nat \ {0} /\ Count \in 0..BufferSize-1
    BY <2>1, CountBounded, PCAssumption DEF Control, PCAssumption
  <2>. QED  BY <2>2 DEF Control, TypeOK, IndicesAgree
<1>2. /\ lo' = lo /\ \A k \in 0..BufferSize-1 : k # hi => buffer'[k] = buffer[k]
  BY DEF Store2, Control, TypeOK
<1>3. buffer'[hi] = thedata[s]
  <2>1. buffer[hi] \in PcData /\ thedata[s] \in PcData
    BY <1>1, Threads DEF Control, TypeOK
  <2>2. buffer[hi].item1 = thedata[s].item1
    BY DEF InStep, Store2
  <2>3. buffer'[hi] = [buffer[hi] EXCEPT !.item2 = thedata[s].item2]
    BY <1>1 DEF Store2, Control, TypeOK
  <2>. QED  BY <2>1, <2>2, <2>3 DEF PcData
<1>4. \A i \in 1..Count : (lo + i - 1) % BufferSize # hi /\ (lo + i - 1) % BufferSize \in 0..BufferSize-1
  <2>. SUFFICES ASSUME NEW i \in 1..Count
                PROVE  /\ (lo + (i - 1)) % BufferSize # (lo + Count) % BufferSize
                       /\ (lo + (i - 1)) % BufferSize \in 0..BufferSize-1
    BY <1>1
  <2>1. i - 1 \in 0..BufferSize-1 /\ i - 1 # Count
    BY <1>1
  <2>. QED  BY <1>1, <2>1, SlotsDiffer
<1>5. \A i \in 1..Count : buffer'[(lo + i - 1) % BufferSize] = buffer[(lo + i - 1) % BufferSize]
  BY <1>2, <1>4
<1>6. (lo + (Count + 1) - 1) % BufferSize = hi
  BY <1>1
<1>7. Queue' = [i \in 1..Count + 1 |-> buffer'[(lo + i - 1) % BufferSize]]
  BY <1>0, <1>2 DEF Queue
<1>8. /\ Queue \in Seq(PcData) /\ Len(Queue) = Count
      /\ \A i \in 1..Count : Queue[i] = buffer[(lo + i - 1) % BufferSize]
  BY QueueParts
<1>9. /\ Queue' \in Seq(PcData) /\ Len(Queue') = Count + 1
      /\ \A i \in 1..Count : Queue'[i] = Queue[i]
      /\ Queue'[Count + 1] = thedata[s]
  <2>0. (Queue \in Seq(PcData) /\ Len(Queue) = Count)'
    BY QueueParts, PTL
  <2>1. Queue' \in Seq(PcData) /\ Len(Queue') = Count + 1
    BY <1>0, <2>0
  <2>2. \A i \in 1..Count : Queue'[i] = Queue[i]
    BY <1>1, <1>5, <1>7, <1>8
  <2>3. Queue'[Count + 1] = buffer'[(lo + (Count + 1) - 1) % BufferSize]
    BY <1>1, <1>7
  <2>. QED  BY <1>3, <1>6, <2>1, <2>2, <2>3
<1>10. thedata[s] \in PcData
  BY Threads DEF Control, TypeOK
<1>. QED  BY <1>1, <1>8, <1>9, <1>10, AppendedIs

\* The second assignment of a load hands out the oldest item, whole.
LEMMA Load2Takes ==
  ASSUME Control, Control', InStep, NEW c \in Consumers, Load2(c)
  PROVE  Queue # <<>> /\ Queue' = Tail(Queue) /\ thedata'[c] = Head(Queue)
<1>0. Count' = Count - 1
  BY Load2Counts
<1>1. /\ BufferSize \in Nat \ {0} /\ Count \in 1..BufferSize /\ lo \in 0..BufferSize-1
  BY CountBounded, PCAssumption DEF Control, PCAssumption, Load2, TypeOK
<1>2. lo' = (lo + 1) % BufferSize /\ buffer' = buffer
  BY DEF Load2
<1>3. /\ Queue \in Seq(PcData) /\ Len(Queue) = Count
      /\ \A i \in 1..Count : Queue[i] = buffer[(lo + i - 1) % BufferSize]
  BY QueueParts
<1>4. /\ Queue' \in Seq(PcData) /\ Len(Queue') = Count - 1
      /\ \A i \in 1..Count - 1 : Queue'[i] = buffer[(((lo + 1) % BufferSize) + i - 1) % BufferSize]
  <2>1. (/\ Queue \in Seq(PcData) /\ Len(Queue) = Count
         /\ \A i \in 1..Count : Queue[i] = buffer[(lo + i - 1) % BufferSize])'
    BY QueueParts, PTL
  <2>. QED  BY <1>0, <1>2, <2>1
<1>5. \A i \in 1..Count - 1 : Queue'[i] = Queue[i + 1]
  <2>. SUFFICES ASSUME NEW i \in 1..Count - 1 PROVE Queue'[i] = Queue[i + 1]
    OBVIOUS
  <2>1. i - 1 \in 0..BufferSize-1
    BY <1>1
  <2>2. (((lo + 1) % BufferSize) + (i - 1)) % BufferSize = (lo + (i - 1) + 1) % BufferSize
    BY <1>1, <2>1, SlotsShift
  <2>3. Queue[i + 1] = buffer[(lo + (i + 1) - 1) % BufferSize]
    BY <1>1, <1>3
  <2>4. (lo + (i + 1) - 1) = lo + (i - 1) + 1
    BY <1>1
  <2>5. ((lo + 1) % BufferSize) + i - 1 = ((lo + 1) % BufferSize) + (i - 1)
    BY <1>1
  <2>. QED  BY <1>4, <2>2, <2>3, <2>4, <2>5
<1>6. Queue # <<>> /\ Head(Queue) = buffer[lo]
  <2>1. (lo + 1 - 1) % BufferSize = lo
    BY <1>1
  <2>2. Queue[1] = buffer[lo]
    BY <1>1, <1>3, <2>1
  <2>. QED  BY <1>1, <1>3, <2>2
<1>7. thedata'[c] = buffer[lo]
  <2>1. buffer[lo] \in PcData /\ thedata[c] \in PcData
    BY <1>1, Threads DEF Control, TypeOK
  <2>2. thedata[c].item1 = buffer[lo].item1
    BY DEF InStep, Load2
  <2>3. thedata'[c] = [thedata[c] EXCEPT !.item2 = buffer[lo].item2]
    BY Threads DEF Load2, Control, TypeOK
  <2>. QED  BY <2>1, <2>2, <2>3 DEF PcData
<1>8. Queue' = Tail(Queue)
  BY <1>1, <1>3, <1>4, <1>5, <1>6, TailIs
<1>. QED  BY <1>6, <1>7, <1>8

-----------------------------------------------------------------------------
(* The ring is a bounded FIFO *)

\* Where a consumer holds what consumer_receive handed it.
Handed == {"unlock", "V", "finish", "done"}

\* What the consumers were handed only changes in a load and when a consumer
\* calls consumer_receive again.
LEMMA HandedSteps ==
  ASSUME Control, [Next]_vars, \A c \in Consumers : ~Load2(c)
  PROVE  \/ HandedOut' = HandedOut
         \/ \E c \in Consumers : ReceiveV(c) /\ Goto(c, "P")
<1>. USE Threads DEF Control, ring, sems, fins
<1>0. pc \in [Thread -> InCall \cup Driver] /\ thedata \in [Thread -> PcData]
  BY DEF TypeOK
<1>1. ASSUME \A c \in Consumers : /\ pc'[c] \in Handed <=> pc[c] \in Handed
                                  /\ pc[c] \in Handed => thedata'[c] = thedata[c]
      PROVE  HandedOut' = HandedOut
  BY <1>1 DEF HandedOut, Handed
<1>2. ASSUME NEW t \in Thread, Lock(t) \/ Unlock(t) PROVE HandedOut' = HandedOut
  BY <1>0, <1>1, <1>2 DEF Lock, Unlock, Goto, Handed
<1>3. ASSUME NEW s \in Senders, SendP(s) \/ Store1(s) \/ Store2(s) \/ SendV(s) PROVE HandedOut' = HandedOut
  BY <1>0, <1>1, <1>3 DEF SendP, Store1, Store2, SendV, Goto
<1>4. ASSUME NEW c \in Consumers, ReceiveP(c) PROVE HandedOut' = HandedOut
  BY <1>0, <1>1, <1>4 DEF ReceiveP, Goto, Handed
<1>5. ASSUME NEW c \in Consumers, Load1(c) PROVE HandedOut' = HandedOut
  BY <1>0, <1>1, <1>5 DEF Load1, Goto, Handed
<1>6. ASSUME NEW c \in Consumers, ReceiveV(c), ~Goto(c, "P") PROVE HandedOut' = HandedOut
  <2>1. Goto(c, "finish") /\ pc[c] = "V" /\ thedata' = thedata
    BY <1>6 DEF ReceiveV
  <2>. QED  BY <1>0, <1>1, <2>1 DEF Goto, Handed
<1>7. ASSUME NEW c \in Consumers, ConsumerExit(c) PROVE HandedOut' = HandedOut
  BY <1>0, <1>1, <1>7 DEF ConsumerExit, Goto, Handed
<1>8. ASSUME NEW p \in Producers, NextItem(p) \/ ProducerExit(p) PROVE HandedOut' = HandedOut
  BY <1>0, <1>1, <1>8 DEF NextItem, ProducerExit, Goto
<1>9. ASSUME Join \/ Stop \/ NextZero \/ StartReap \/ Reap \/ StartShutdown \/ Shutdown PROVE HandedOut' = HandedOut
  <2>1. \A c \in Consumers : pc'[c] = pc[c] /\ thedata'[c] = thedata[c]
    BY <1>0, <1>9 DEF Join, Stop, NextZero, StartReap, Reap, StartShutdown, Shutdown, Goto
  <2>. QED  BY <1>1, <2>1
<1>10. ASSUME Over \/ UNCHANGED vars PROVE HandedOut' = HandedOut
  <2>1. UNCHANGED <<pc, thedata>>
    BY <1>10 DEF Over, vars
  <2>. QED  BY <1>1, <2>1
<1>. QED
  BY <1>2, <1>3, <1>4, <1>5, <1>6, <1>7, <1>8, <1>9, <1>10
  DEF Next, ProducerStep, ConsumerStep, MainStep, Send, Receive

\* A whole item is one the specification can put.
LEMMA WholeItems ==
  ASSUME Control, InStep, NEW s \in Senders
  PROVE  thedata[s] \in {Whole(x) : x \in Item}
<1>1. thedata[s] \in PcData /\ thedata[s].item1 = thedata[s].item2
  BY Threads DEF Control, TypeOK, InStep
<1>2. thedata[s].item1 \in Item /\ thedata[s] = Whole(thedata[s].item1)
  BY <1>1 DEF PcData, Whole
<1>. QED  BY <1>2

\* A store is a put, a load a get, the call of a consumer that was handed an
\* item an ask, and nothing else is seen.
LEMMA FifoStep ==
  ASSUME Control, Control', InStep, [Next]_vars
  PROVE  Fifo!Next \/ UNCHANGED Fifo!vars
<1>. USE Threads
<1>0. /\ pc \in [Thread -> InCall \cup Driver] /\ thedata \in [Thread -> PcData]
      /\ Queue \in Seq(PcData) /\ Len(Queue) = Count
  BY QueueParts DEF Control, TypeOK
<1>1. ASSUME NEW s \in Senders, Store2(s) PROVE Fifo!Next
  <2>1. Count < BufferSize /\ Queue' = Append(Queue, thedata[s])
    BY <1>1, Store2Appends
  <2>2. \A c \in Consumers : pc'[c] = pc[c] /\ thedata' = thedata
    BY <1>0, <1>1 DEF Store2, Goto
  <2>3. HandedOut' = HandedOut
    BY <2>2 DEF HandedOut
  <2>4. Fifo!Put(thedata[s])
    BY <1>0, <2>1, <2>3 DEF Fifo!Put
  <2>. QED  BY <2>4, WholeItems DEF Fifo!Next
<1>2. ASSUME NEW c \in Consumers, Load2(c) PROVE Fifo!Next
  <2>1. Queue # <<>> /\ Queue' = Tail(Queue) /\ thedata'[c] = Head(Queue)
    BY <1>2, Load2Takes
  <2>2. pc[c] = "copy2" /\ pc'[c] = "unlock" /\ \A u \in Consumers \ {c} : pc'[u] = pc[u] /\ thedata'[u] = thedata[u]
    BY <1>0, <1>2 DEF Load2, Goto
  <2>3. HandedOut[c] = Nobody /\ HandedOut' = [HandedOut EXCEPT ![c] = Head(Queue)]
    BY <2>1, <2>2 DEF HandedOut
  <2>4. Fifo!Get(c)
    BY <2>1, <2>3 DEF Fifo!Get
  <2>. QED  BY <2>4 DEF Fifo!Next
<1>3. ASSUME \A s \in Senders : ~Store2(s), \A c \in Consumers : ~Load2(c)
      PROVE  Fifo!Next \/ UNCHANGED Fifo!vars
  <2>1. Queue' = Queue
    <3>1. Count' = Count /\ lo' = lo /\ (buffer' = buffer \/ (\E s \in Senders : Store1(s)))
      BY <1>3, CountSteps
    <3>2. CASE buffer' = buffer
      BY <3>1, <3>2 DEF Queue
    <3>. QED  BY <3>1, <3>2, Store1Hides
  <2>2. CASE HandedOut' = HandedOut
    BY <2>1, <2>2 DEF Fifo!vars
  <2>3. ASSUME NEW c \in Consumers, ReceiveV(c), Goto(c, "P") PROVE Fifo!Next
    <3>1. /\ pc[c] = "V" /\ pc'[c] = "P" /\ thedata' = thedata
          /\ \A u \in Consumers \ {c} : pc'[u] = pc[u]
      BY <1>0, <2>3 DEF ReceiveV, Goto
    <3>2. thedata[c] # Nobody
      BY <1>0, NobodyAssumption DEF NobodyAssumption
    <3>3. HandedOut[c] # Nobody /\ HandedOut' = [HandedOut EXCEPT ![c] = Nobody]
      BY <3>1, <3>2 DEF HandedOut
    <3>4. Fifo!Ask(c)
      BY <2>1, <3>3 DEF Fifo!Ask
    <3>. QED  BY <3>4 DEF Fifo!Next
  <2>. QED  BY <1>3, <2>2, <2>3, HandedSteps
<1>. QED  BY <1>1, <1>2, <1>3

\* The invariant of the refinement.
LEMMA InStepInvariant == Spec => [](Control /\ InStep)
<1>1. Init => InStep
  <2>. SUFFICES ASSUME Init PROVE InStep
    OBVIOUS
  <2>1. \A s \in Senders : s \in Thread /\ pc[s] # "copy2"
    BY Threads DEF Init
  <2>2. \A c \in Consumers : pc[c] # "copy2"
    BY Threads DEF Init
  <2>. QED  BY <2>1, <2>2 DEF Init, InStep
<1>2. Control /\ InStep /\ [Next]_vars => InStep'
  BY InStepKept
<1>. QED  BY <1>1, <1>2, ControlInit, ControlStep, PTL DEF Spec

\* producer_send and consumer_receive are the put and the get of a first-in
\* first-out buffer of BUFFER_SIZE whole items: whatever the preemptions, no
\* item is lost, handed out twice, overtaken, or made of the halves of two.
THEOREM BoundedBuffer == Spec => ImplementsFifo
<1>1. Init => Fifo!Init
  <2>. SUFFICES ASSUME Init PROVE Fifo!Init
    OBVIOUS
  <2>1. Control
    BY ControlInit
  <2>2. Reserving = {} /\ Stored = {} /\ Claiming = {} /\ Freeing = {}
    BY Threads DEF Init, Reserving, Stored, Claiming, Freeing, At, Thread
  <2>3. Count = 0
    BY <2>2, FS_EmptySet DEF Init, Count
  <2>4. Queue = <<>>
    BY <2>1, <2>3, QueueParts
  <2>5. HandedOut = [c \in Consumers |-> Nobody]
    BY Threads DEF Init, HandedOut
  <2>. QED  BY <2>4, <2>5 DEF Fifo!Init
<1>2. Control /\ Control' /\ InStep /\ [Next]_vars => [Fifo!Next]_(Fifo!vars)
  BY FifoStep
<1>. QED  BY <1>1, <1>2, InStepInvariant, PTL DEF Spec, ImplementsFifo, Fifo!Spec

-----------------------------------------------------------------------------
(* The stop protocol *)

DoneProducers == At(Producers, {"done"})
DoneConsumers == At(Consumers, {"done"})

ZeroData == Whole(Zero)

\* The zero items that main has stored, and the consumers that were handed one.
ZerosSent ==
  CASE pc[Main] = "join" -> 0
    [] pc[Main] \in {"start", "P", "lock", "copy1", "copy2"} -> Cardinality(Consumers) - left[Main]
    [] pc[Main] \in {"unlock", "V"} -> Cardinality(Consumers) - left[Main] + 1
    [] OTHER -> Cardinality(Consumers)

Stopping == {c \in Consumers : HandedOut[c] = ZeroData}

\* Main passes only zero items, a producer never one, and a consumer leaves its
\* loop with one.
SendersItems ==
  /\ thedata[Main] = ZeroData
  /\ \A p \in Producers : pc[p] \in InCall => thedata[p] # ZeroData
  /\ \A c \in Consumers : pc[c] \in {"finish", "done"} => thedata[c] = ZeroData

\* Every V(producer_finished) is either counted or was waited for, and main
\* only gets past the join when every producer has signalled.
ProducersJoined ==
  IF pc[Main] = "join"
  THEN left[Main] + Cardinality(DoneProducers) = Cardinality(Producers) + producer_finished
  ELSE DoneProducers = Producers /\ producer_finished = 0

\* The same of the consumers: nobody is waited for before the zero items are out.
ConsumersReaped ==
  CASE pc[Main] = "reap" ->
         left[Main] + Cardinality(DoneConsumers) = Cardinality(Consumers) + consumer_finished
    [] pc[Main] \in {"shutdown", "done"} -> DoneConsumers = Consumers /\ consumer_finished = 0
    [] OTHER -> Cardinality(DoneConsumers) = consumer_finished

\* The zero items in the ring are the last ones, as many as were sent and not
\* handed out; when one was handed out, nothing else is left.
ZerosLast ==
  LET n == ZerosSent - Cardinality(Stopping)
  IN  /\ n \in 0..Count
      /\ \A i \in 1..Count : Queue[i] = ZeroData <=> i > Count - n
      /\ Stopping # {} => n = Count

\* The inductive invariant of the stop protocol.
Ending == SendersItems /\ ProducersJoined /\ ConsumersReaped /\ ZerosLast

\* Every step keeps what senders pass and consumers end with.
LEMMA SendersItemsKept ==
  ASSUME Control, SendersItems, [Next]_vars
  PROVE  SendersItems'
<1>. USE Threads DEF Control, ring, sems, fins, InCall
<1>0. pc \in [Thread -> InCall \cup Driver] /\ thedata \in [Thread -> PcData]
  BY DEF TypeOK
<1>1. ASSUME \A s \in Senders : thedata'[s] = thedata[s],
             \A p \in Producers : pc'[p] \in InCall => pc[p] \in InCall,
             \A c \in Consumers : pc'[c] \in {"finish", "done"} =>
                                    pc[c] \in {"finish", "done"} /\ thedata'[c] = thedata[c]
      PROVE  SendersItems'
  BY <1>1 DEF SendersItems
<1>2. ASSUME NEW t \in Thread, Lock(t) \/ Unlock(t) PROVE SendersItems'
  BY <1>0, <1>1, <1>2 DEF Lock, Unlock, Goto
<1>3. ASSUME NEW s \in Senders, SendP(s) \/ Store1(s) \/ Store2(s) \/ SendV(s) PROVE SendersItems'
  BY <1>0, <1>1, <1>3 DEF SendP, Store1, Store2, SendV, Goto
<1>4. ASSUME NEW c \in Consumers, ReceiveP(c) \/ Load1(c) \/ Load2(c) PROVE SendersItems'
  <2>1. /\ \A s \in Senders : thedata'[s] = thedata[s] /\ pc'[s] = pc[s]
        /\ \A u \in Consumers \ {c} : thedata'[u] = thedata[u] /\ pc'[u] = pc[u]
        /\ pc'[c] \notin {"finish", "done"}
    BY <1>0, <1>4 DEF ReceiveP, Load1, Load2, Goto
  <2>. QED  BY <1>1, <2>1
<1>5. ASSUME NEW c \in Consumers, ReceiveV(c) PROVE SendersItems'
  <2>1. CASE thedata[c] = ZeroData
    <3>1. /\ thedata' = thedata /\ pc'[c] = "finish"
          /\ \A u \in Thread \ {c} : pc'[u] = pc[u]
      BY <1>0, <1>5, <2>1 DEF ReceiveV, Goto, ZeroData, Whole
    <3>. QED  BY <2>1, <3>1 DEF SendersItems
  <2>2. CASE thedata[c] # ZeroData
    <3>1. /\ thedata' = thedata /\ pc'[c] = "P"
          /\ \A u \in Thread \ {c} : pc'[u] = pc[u]
      BY <1>0, <1>5, <2>2 DEF ReceiveV, Goto, ZeroData, Whole
    <3>. QED  BY <3>1 DEF SendersItems
  <2>. QED  BY <2>1, <2>2
<1>6. ASSUME NEW c \in Consumers, ConsumerExit(c) PROVE SendersItems'
  BY <1>0, <1>1, <1>6 DEF ConsumerExit, Goto
<1>7. ASSUME NEW p \in Producers, NextItem(p) PROVE SendersItems'
  <2>1. /\ thedata'[p] = [item1 |-> <<p, left[p]>>, item2 |-> <<p, left[p]>>]
        /\ \A u \in Thread \ {p} : thedata'[u] = thedata[u] /\ pc'[u] = pc[u]
    BY <1>0, <1>7 DEF NextItem, Goto
  <2>2. thedata'[p].item1 # ZeroData.item1
    BY <2>1 DEF ZeroData, Whole, Zero
  <2>. QED  BY <2>1, <2>2 DEF SendersItems
<1>8. ASSUME NEW p \in Producers, ProducerExit(p) PROVE SendersItems'
  BY <1>0, <1>1, <1>8 DEF ProducerExit, Goto
<1>9. ASSUME NextZero PROVE SendersItems'
  <2>1. /\ thedata'[Main] = ZeroData
        /\ \A u \in Thread \ {Main} : thedata'[u] = thedata[u] /\ pc'[u] = pc[u]
    BY <1>0, <1>9 DEF NextZero, Goto, ZeroData, Whole
  <2>. QED  BY <2>1 DEF SendersItems
<1>10. ASSUME Join \/ Stop \/ StartReap \/ Reap \/ StartShutdown \/ Shutdown PROVE SendersItems'
  <2>1. thedata' = thedata /\ \A u \in Thread \ {Main} : pc'[u] = pc[u]
    BY <1>0, <1>10 DEF Join, Stop, StartReap, Reap, StartShutdown, Shutdown, Goto
  <2>. QED  BY <1>1, <2>1
<1>11. ASSUME Over \/ UNCHANGED vars PROVE SendersItems'
  <2>1. UNCHANGED <<pc, thedata>>
    BY <1>11 DEF Over, vars
  <2>. QED  BY <1>1, <2>1
<1>. QED
  BY <1>2, <1>3, <1>4, <1>5, <1>6, <1>7, <1>8, <1>9, <1>10, <1>11
  DEF Next, ProducerStep, ConsumerStep, MainStep, Send, Receive

\* Counting the threads that are done.
LEMMA DoneCounts ==
  ASSUME TypeOK
  PROVE  /\ IsFiniteSet(Producers) /\ Cardinality(Producers) \in Nat
         /\ IsFiniteSet(Consumers) /\ Cardinality(Consumers) \in Nat
         /\ Cardinality(DoneProducers) \in 0..Cardinality(Producers)
         /\ Cardinality(DoneConsumers) \in 0..Cardinality(Consumers)
         /\ Cardinality(DoneProducers) = Cardinality(Producers) => DoneProducers = Producers
         /\ Cardinality(DoneConsumers) = Cardinality(Consumers) => DoneConsumers = Consumers
<1>1. IsFiniteSet(Producers) /\ IsFiniteSet(Consumers)
  BY PCAssumption DEF PCAssumption
<1>2. DoneProducers \subseteq Producers /\ DoneConsumers \subseteq Consumers
  BY DEF DoneProducers, DoneConsumers, At
<1>3. /\ IsFiniteSet(DoneProducers) /\ Cardinality(DoneProducers) <= Cardinality(Producers)
      /\ Cardinality(DoneProducers) = Cardinality(Producers) => DoneProducers = Producers
  BY <1>1, <1>2, FS_Subset
<1>4. /\ IsFiniteSet(DoneConsumers) /\ Cardinality(DoneConsumers) <= Cardinality(Consumers)
      /\ Cardinality(DoneConsumers) = Cardinality(Consumers) => DoneConsumers = Consumers
  BY <1>1, <1>2, FS_Subset
<1>. QED  BY <1>1, <1>3, <1>4, FS_CardinalityType

\* Every step keeps the account of producer_finished.
LEMMA ProducersJoinedKept ==
  ASSUME Control, ProducersJoined, [Next]_vars
  PROVE  ProducersJoined'
<1>. USE Threads DEF Control, ring, sems, fins
<1>0. /\ pc \in [Thread -> InCall \cup Driver] /\ left \in [Senders -> Nat]
      /\ producer_finished \in Nat
      /\ Cardinality(Producers) \in Nat
      /\ Cardinality(DoneProducers) \in 0..Cardinality(Producers)
  BY DoneCounts DEF TypeOK
<1>1. ASSUME \A p \in Producers : pc'[p] = "done" <=> pc[p] = "done",
             producer_finished' = producer_finished,
             pc'[Main] = "join" <=> pc[Main] = "join",
             pc[Main] = "join" => left'[Main] = left[Main]
      PROVE  ProducersJoined'
  <2>1. DoneProducers' = DoneProducers
    BY <1>1 DEF DoneProducers, At
  <2>. QED  BY <1>1, <2>1 DEF ProducersJoined
<1>2. ASSUME NEW t \in Thread, Lock(t) \/ Unlock(t) PROVE ProducersJoined'
  BY <1>0, <1>1, <1>2 DEF Lock, Unlock, Goto
<1>3. ASSUME NEW s \in Senders, SendP(s) \/ Store1(s) \/ Store2(s) \/ SendV(s) PROVE ProducersJoined'
  BY <1>0, <1>1, <1>3 DEF SendP, Store1, Store2, SendV, Goto
<1>4. ASSUME NEW c \in Consumers, ReceiveP(c) \/ Load1(c) \/ Load2(c) \/ ReceiveV(c) \/ ConsumerExit(c)
      PROVE  ProducersJoined'
  <2>1. /\ \A u \in Senders : pc'[u] = pc[u]
        /\ producer_finished' = producer_finished /\ left' = left
    BY <1>0, <1>4 DEF ReceiveP, Load1, Load2, ReceiveV, ConsumerExit, Goto
  <2>. QED  BY <1>1, <2>1
<1>5. ASSUME NEW p \in Producers, NextItem(p) PROVE ProducersJoined'
  BY <1>0, <1>1, <1>5 DEF NextItem, Goto
<1>6. ASSUME NEW p \in Producers, ProducerExit(p) PROVE ProducersJoined'
  <2>1. /\ pc[p] # "done" /\ pc'[Main] = pc[Main] /\ left' = left
        /\ producer_finished' = producer_finished + 1 /\ Goto(p, "done")
    BY <1>0, <1>6 DEF ProducerExit, Goto
  <2>2. pc[Main] = "join"
    BY <2>1 DEF ProducersJoined, DoneProducers, At
  <2>3. Cardinality(DoneProducers') = Cardinality(DoneProducers) + 1
    <3>1. IsFiniteSet(Producers) /\ Producers \in SUBSET Thread /\ DOMAIN pc = Thread
      BY <1>0, DoneCounts
    <3>. QED  BY <1>0, <2>1, <3>1, Moved DEF DoneProducers, Bit
  <2>. QED  BY <1>0, <2>1, <2>2, <2>3 DEF ProducersJoined
<1>7. ASSUME Join PROVE ProducersJoined'
  <2>1. /\ pc' = pc /\ pc[Main] = "join"
        /\ left'[Main] = left[Main] - 1 /\ producer_finished' = producer_finished - 1
    BY <1>0, <1>7 DEF Join
  <2>2. DoneProducers' = DoneProducers
    BY <2>1 DEF DoneProducers, At
  <2>. QED  BY <1>0, <2>1, <2>2 DEF ProducersJoined
<1>8. ASSUME Stop PROVE ProducersJoined'
  <2>1. /\ pc[Main] = "join" /\ left[Main] = 0 /\ producer_finished' = producer_finished
        /\ pc'[Main] = "start" /\ \A p \in Producers : pc'[p] = pc[p]
    BY <1>0, <1>8 DEF Stop, Goto
  <2>2. DoneProducers' = DoneProducers
    BY <2>1 DEF DoneProducers, At
  <2>3. producer_finished = 0 /\ DoneProducers = Producers
    BY <1>0, <2>1, DoneCounts DEF ProducersJoined
  <2>. QED  BY <2>1, <2>2, <2>3 DEF ProducersJoined
<1>9. ASSUME NextZero \/ StartReap \/ Reap \/ StartShutdown \/ Shutdown PROVE ProducersJoined'
  <2>1. /\ \A p \in Producers : pc'[p] = pc[p]
        /\ producer_finished' = producer_finished
        /\ pc[Main] # "join" /\ pc'[Main] # "join"
    BY <1>0, <1>9 DEF NextZero, StartReap, Reap, StartShutdown, Shutdown, Goto
  <2>. QED  BY <1>1, <2>1
<1>10. ASSUME Over \/ UNCHANGED vars PROVE ProducersJoined'
  <2>1. UNCHANGED <<pc, left, producer_finished>>
    BY <1>10 DEF Over, vars
  <2>. QED  BY <1>1, <2>1
<1>. QED
  BY <1>2, <1>3, <1>4, <1>5, <1>6, <1>7, <1>8, <1>9, <1>10
  DEF Next, ProducerStep, ConsumerStep, MainStep, Send, Receive

\* Every step keeps the account of consumer_finished.
LEMMA ConsumersReapedKept ==
  ASSUME Control, ConsumersReaped, [Next]_vars
  PROVE  ConsumersReaped'
<1>. USE Threads DEF Control, ring, sems, fins
<1>0. /\ pc \in [Thread -> InCall \cup Driver] /\ left \in [Senders -> Nat]
      /\ consumer_finished \in Nat
      /\ Cardinality(Consumers) \in Nat
      /\ Cardinality(DoneConsumers) \in 0..Cardinality(Consumers)
  BY DoneCounts DEF TypeOK
<1>1. ASSUME \A c \in Consumers : pc'[c] = "done" <=> pc[c] = "done",
             consumer_finished' = consumer_finished,
             \/ pc'[Main] = pc[Main] /\ left'[Main] = left[Main]
             \/ /\ pc[Main] \notin {"reap", "shutdown", "done"}
                /\ pc'[Main] \notin {"reap", "shutdown", "done"}
      PROVE  ConsumersReaped'
  <2>1. DoneConsumers' = DoneConsumers
    BY <1>1 DEF DoneConsumers, At
  <2>. QED  BY <1>1, <2>1 DEF ConsumersReaped
<1>2. ASSUME NEW t \in Thread, Lock(t) \/ Unlock(t) PROVE ConsumersReaped'
  BY <1>0, <1>1, <1>2 DEF Lock, Unlock, Goto
<1>3. ASSUME NEW s \in Senders, SendP(s) \/ Store1(s) \/ Store2(s) \/ SendV(s) PROVE ConsumersReaped'
  <2>1. /\ \A c \in Consumers : pc'[c] = pc[c]
        /\ consumer_finished' = consumer_finished
        /\ \A u \in Senders \ {s} : pc'[u] = pc[u] /\ left'[u] = left[u]
        /\ pc[s] \notin {"reap", "shutdown", "done"} /\ pc'[s] \notin {"reap", "shutdown", "done"}
    BY <1>0, <1>3 DEF SendP, Store1, Store2, SendV, Goto
  <2>. QED  BY <1>1, <2>1
<1>4. ASSUME NEW c \in Consumers, ReceiveP(c) \/ Load1(c) \/ Load2(c) \/ ReceiveV(c)
      PROVE  ConsumersReaped'
  <2>1. PICK x \in {"lock", "copy2", "unlock", "finish", "P"} : Goto(c, x)
    BY <1>4 DEF ReceiveP, Load1, Load2, ReceiveV
  <2>2. pc[c] # "done" /\ consumer_finished' = consumer_finished /\ left' = left
    BY <1>4 DEF ReceiveP, Load1, Load2, ReceiveV
  <2>. QED  BY <1>0, <1>1, <2>1, <2>2 DEF Goto
<1>5. ASSUME NEW c \in Consumers, ConsumerExit(c) PROVE ConsumersReaped'
  <2>1. /\ pc[c] # "done" /\ pc'[Main] = pc[Main] /\ left' = left
        /\ consumer_finished' = consumer_finished + 1 /\ Goto(c, "done")
    BY <1>0, <1>5 DEF ConsumerExit, Goto
  <2>2. pc[Main] \notin {"shutdown", "done"}
    BY <2>1 DEF ConsumersReaped, DoneConsumers, At
  <2>3. Cardinality(DoneConsumers') = Cardinality(DoneConsumers) + 1
    <3>1. IsFiniteSet(Consumers) /\ Consumers \in SUBSET Thread /\ DOMAIN pc = Thread
      BY <1>0, DoneCounts
    <3>. QED  BY <1>0, <2>1, <3>1, Moved DEF DoneConsumers, Bit
  <2>4. CASE pc[Main] = "reap"
    <3>1. left[Main] + (Cardinality(DoneConsumers) + 1) = Cardinality(Consumers) + (consumer_finished + 1)
      BY <1>0, <2>4 DEF ConsumersReaped
    <3>. QED  BY <2>1, <2>3, <2>4, <3>1 DEF ConsumersReaped
  <2>5. CASE pc[Main] # "reap"
    <3>1. Cardinality(DoneConsumers) = consumer_finished
      BY <2>2, <2>5 DEF ConsumersReaped
    <3>. QED  BY <2>1, <2>2, <2>3, <2>5, <3>1 DEF ConsumersReaped
  <2>. QED  BY <2>4, <2>5
<1>6. ASSUME NEW p \in Producers, NextItem(p) \/ ProducerExit(p) PROVE ConsumersReaped'
  <2>1. /\ \A u \in Thread \ {p} : pc'[u] = pc[u]
        /\ consumer_finished' = consumer_finished /\ left' = left
    BY <1>0, <1>6 DEF NextItem, ProducerExit, Goto
  <2>. QED  BY <1>1, <2>1
<1>7. ASSUME Join \/ Stop \/ NextZero PROVE ConsumersReaped'
  <2>1. /\ \A c \in Consumers : pc'[c] = pc[c]
        /\ consumer_finished' = consumer_finished
        /\ pc[Main] \notin {"reap", "shutdown", "done"} /\ pc'[Main] \notin {"reap", "shutdown", "done"}
    BY <1>0, <1>7 DEF Join, Stop, NextZero, Goto
  <2>. QED  BY <1>1, <2>1
<1>8. ASSUME StartReap PROVE ConsumersReaped'
  <2>1. /\ pc[Main] = "start" /\ pc'[Main] = "reap" /\ left'[Main] = Cardinality(Consumers)
        /\ \A c \in Consumers : pc'[c] = pc[c]
        /\ consumer_finished' = consumer_finished
    BY <1>0, <1>8 DEF StartReap, Goto
  <2>2. DoneConsumers' = DoneConsumers
    BY <2>1 DEF DoneConsumers, At
  <2>3. Cardinality(DoneConsumers) = consumer_finished
    BY <2>1 DEF ConsumersReaped
  <2>. QED  BY <2>1, <2>2, <2>3 DEF ConsumersReaped
<1>9. ASSUME Reap PROVE ConsumersReaped'
  <2>1. /\ pc' = pc /\ pc[Main] = "reap"
        /\ left'[Main] = left[Main] - 1 /\ consumer_finished' = consumer_finished - 1
    BY <1>0, <1>9 DEF Reap
  <2>2. DoneConsumers' = DoneConsumers
    BY <2>1 DEF DoneConsumers, At
  <2>3. (left[Main] - 1) + Cardinality(DoneConsumers) = Cardinality(Consumers) + (consumer_finished - 1)
    BY <1>0, <2>1 DEF ConsumersReaped
  <2>. QED  BY <2>1, <2>2, <2>3 DEF ConsumersReaped
<1>10. ASSUME StartShutdown \/ Shutdown PROVE ConsumersReaped'
  <2>1. /\ \A c \in Consumers : pc'[c] = pc[c]
        /\ consumer_finished' = consumer_finished
        /\ \/ pc[Main] = "reap" /\ left[Main] = 0
           \/ pc[Main] = "shutdown"
        /\ pc'[Main] \in {"shutdown", "done"}
    BY <1>0, <1>10 DEF StartShutdown, Shutdown, Goto
  <2>2. DoneConsumers' = DoneConsumers
    BY <2>1 DEF DoneConsumers, At
  <2>3. DoneConsumers = Consumers /\ consumer_finished = 0
    BY <1>0, <2>1, DoneCounts DEF ConsumersReaped
  <2>. QED  BY <2>1, <2>2, <2>3 DEF ConsumersReaped
<1>11. ASSUME Over \/ UNCHANGED vars PROVE ConsumersReaped'
  <2>1. UNCHANGED <<pc, left, consumer_finished>>
    BY <1>11 DEF Over, vars
  <2>. QED  BY <1>1, <2>1
<1>. QED
  BY <1>2, <1>3, <1>4, <1>5, <1>6, <1>7, <1>8, <1>9, <1>10, <1>11
  DEF Next, ProducerStep, ConsumerStep, MainStep, Send, Receive

\* A zero item is sent when main stores it, and at no other step.
LEMMA SentSteps ==
  ASSUME Control, [Next]_vars
  PROVE  /\ Store2(Main) => ZerosSent' = ZerosSent + 1
         /\ ~Store2(Main) => ZerosSent' = ZerosSent
<1>. USE Threads DEF Control, ring, sems, fins
<1>0. /\ pc \in [Thread -> InCall \cup Driver] /\ left \in [Senders -> Nat]
      /\ Cardinality(Consumers) \in Nat /\ left[Main] \in Nat
  BY DoneCounts DEF TypeOK
<1>1. ASSUME pc'[Main] = pc[Main], left'[Main] = left[Main] PROVE ZerosSent' = ZerosSent
  BY <1>1 DEF ZerosSent
<1>2. ASSUME Store2(Main) PROVE ZerosSent' = ZerosSent + 1
  <2>1. pc[Main] = "copy2" /\ pc'[Main] = "unlock" /\ left'[Main] = left[Main]
    BY <1>0, <1>2 DEF Store2, Goto
  <2>. QED  BY <2>1 DEF ZerosSent
<1>3. ASSUME SendP(Main) \/ Lock(Main) \/ Store1(Main) PROVE ZerosSent' = ZerosSent
  <2>1. /\ pc[Main] \in {"P", "lock", "copy1"} /\ pc'[Main] \in {"lock", "copy1", "copy2"}
        /\ left'[Main] = left[Main]
    BY <1>0, <1>3 DEF SendP, Lock, Store1, Goto
  <2>. QED  BY <2>1 DEF ZerosSent
<1>4. ASSUME Unlock(Main) PROVE ZerosSent' = ZerosSent
  <2>1. pc[Main] = "unlock" /\ pc'[Main] = "V" /\ left'[Main] = left[Main]
    BY <1>0, <1>4 DEF Unlock, Goto
  <2>. QED  BY <2>1 DEF ZerosSent
<1>5. ASSUME SendV(Main) PROVE ZerosSent' = ZerosSent
  <2>1. pc[Main] = "V" /\ pc'[Main] = "start" /\ left'[Main] = left[Main] - 1
    BY <1>0, <1>5 DEF SendV, Goto
  <2>. QED  BY <1>0, <2>1 DEF ZerosSent
<1>6. ASSUME Join \/ Reap PROVE ZerosSent' = ZerosSent
  <2>1. pc[Main] \in {"join", "reap"} /\ pc'[Main] = pc[Main]
    BY <1>0, <1>6 DEF Join, Reap
  <2>. QED  BY <2>1 DEF ZerosSent
<1>7. ASSUME Stop PROVE ZerosSent' = ZerosSent
  <2>1. pc[Main] = "join" /\ pc'[Main] = "start" /\ left'[Main] = Cardinality(Consumers)
    BY <1>0, <1>7 DEF Stop, Goto
  <2>. QED  BY <1>0, <2>1 DEF ZerosSent
<1>8. ASSUME NextZero PROVE ZerosSent' = ZerosSent
  <2>1. pc[Main] = "start" /\ pc'[Main] = "P" /\ left'[Main] = left[Main]
    BY <1>0, <1>8 DEF NextZero, Goto
  <2>. QED  BY <2>1 DEF ZerosSent
<1>9. ASSUME StartReap PROVE ZerosSent' = ZerosSent
  <2>1. pc[Main] = "start" /\ pc'[Main] = "reap" /\ left[Main] = 0
    BY <1>0, <1>9 DEF StartReap, Goto
  <2>. QED  BY <1>0, <2>1 DEF ZerosSent
<1>10. ASSUME StartShutdown \/ Shutdown PROVE ZerosSent' = ZerosSent
  <2>1. pc[Main] \in {"reap", "shutdown"} /\ pc'[Main] \in {"shutdown", "done"}
    BY <1>0, <1>10 DEF StartShutdown, Shutdown, Goto
  <2>. QED  BY <2>1 DEF ZerosSent
<1>11. ASSUME NEW p \in Producers, Send(p) PROVE ZerosSent' = ZerosSent
  BY <1>0, <1>1, <1>11 DEF Send, SendP, Lock, Store1, Store2, Unlock, SendV, Goto
<1>12. ASSUME NEW p \in Producers, NextItem(p) \/ ProducerExit(p) PROVE ZerosSent' = ZerosSent
  BY <1>0, <1>1, <1>12 DEF NextItem, ProducerExit, Goto
<1>13. ASSUME NEW c \in Consumers, Receive(c) \/ ConsumerExit(c) PROVE ZerosSent' = ZerosSent
  BY <1>0, <1>1, <1>13 DEF Receive, ReceiveP, Lock, Load1, Load2, Unlock, ReceiveV, ConsumerExit, Goto
<1>14. ASSUME Over \/ UNCHANGED vars PROVE ZerosSent' = ZerosSent
  BY <1>1, <1>14 DEF Over, vars
<1>. QED
  BY <1>2, <1>3, <1>4, <1>5, <1>6, <1>7, <1>8, <1>9, <1>10, <1>11, <1>12, <1>13, <1>14
  DEF Next, ProducerStep, ConsumerStep, MainStep, Send

\* The zero item is an item.
LEMMA ZeroIsData == ZeroData \in PcData
BY DEF ZeroData, Whole, PcData, Item

\* The consumers that were handed a zero item are known by where they are.
LEMMA StoppingParts ==
  ASSUME TypeOK
  PROVE  /\ IsFiniteSet(Stopping) /\ Cardinality(Stopping) \in Nat
         /\ Cardinality(Stopping) <= Cardinality(Consumers)
         /\ Stopping = {c \in Consumers : pc[c] \in Handed /\ thedata[c] = ZeroData}
         /\ Cardinality(Stopping) = 0 <=> Stopping = {}
<1>1. IsFiniteSet(Consumers) /\ Stopping \subseteq Consumers
  BY PCAssumption DEF PCAssumption, Stopping
<1>2. IsFiniteSet(Stopping) /\ Cardinality(Stopping) <= Cardinality(Consumers)
  BY <1>1, FS_Subset
<1>3. Cardinality(Stopping) \in Nat /\ Cardinality(Consumers) \in Nat
  BY <1>1, <1>2, FS_CardinalityType
<1>4. Stopping = {c \in Consumers : pc[c] \in Handed /\ thedata[c] = ZeroData}
  BY ZeroIsData, NobodyAssumption DEF NobodyAssumption, Stopping, HandedOut, Handed
<1>. QED  BY <1>2, <1>3, <1>4, FS_EmptySet

\* Every step keeps the zero items last.
LEMMA ZerosLastKept ==
  ASSUME Control, Control', InStep, Ending, [Next]_vars
  PROVE  ZerosLast'
<1>. USE Threads
<1>. DEFINE n == ZerosSent - Cardinality(Stopping)
<1>0. /\ Count \in Nat /\ Queue \in Seq(PcData) /\ Len(Queue) = Count
      /\ Cardinality(Stopping) \in Nat /\ IsFiniteSet(Stopping)
      /\ pc \in [Thread -> InCall \cup Driver] /\ thedata \in [Thread -> PcData]
  <2>1. Count \in Nat /\ Queue \in Seq(PcData) /\ Len(Queue) = Count
    BY QueueParts
  <2>2. Cardinality(Stopping) \in Nat /\ IsFiniteSet(Stopping)
    BY StoppingParts DEF Control
  <2>. QED  BY <2>1, <2>2 DEF Control, TypeOK
<1>1. /\ n \in 0..Count
      /\ \A i \in 1..Count : Queue[i] = ZeroData <=> i > Count - n
      /\ Stopping # {} => n = Count
  BY DEF Ending, ZerosLast
<1>2. ZerosSent \in Nat
  <2>1. ZerosSent \in Int
    <3>1. left[Main] \in Nat /\ Cardinality(Consumers) \in Nat
      BY DoneCounts DEF Control, TypeOK
    <3>. QED  BY <3>1 DEF ZerosSent
  <2>. QED  BY <1>0, <1>1, <2>1
<1>3. ASSUME NEW s \in Senders, Store2(s) PROVE ZerosLast'
  <2>1. Count' = Count + 1 /\ Queue' = Append(Queue, thedata[s])
    BY <1>3, Store2Counts, Store2Appends
  <2>2. HandedOut' = HandedOut
    <3>1. \A c \in Consumers : pc'[c] = pc[c] /\ thedata' = thedata
      BY <1>0, <1>3 DEF Store2, Goto
    <3>. QED  BY <3>1 DEF HandedOut
  <2>3. Stopping' = Stopping
    BY <2>2 DEF Stopping
  <2>4. /\ \A i \in 1..Count : Queue'[i] = Queue[i]
        /\ Queue'[Count + 1] = thedata[s]
    BY <1>0, <2>1
  <2>5. CASE s = Main
    <3>1. ZerosSent' = ZerosSent + 1 /\ thedata[s] = ZeroData
      BY <1>3, <2>5, SentSteps DEF Ending, SendersItems
    <3>2. \A i \in 1..Count + 1 : Queue'[i] = ZeroData <=> i > (Count + 1) - (n + 1)
      <4>. SUFFICES ASSUME NEW i \in 1..Count + 1 PROVE Queue'[i] = ZeroData <=> i > Count - n
        BY <1>0, <1>1
      <4>1. CASE i \in 1..Count
        BY <1>1, <2>4, <4>1
      <4>2. CASE i = Count + 1
        BY <1>0, <1>1, <2>4, <3>1, <4>2
      <4>. QED  BY <1>0, <4>1, <4>2
    <3>3. n' = n + 1
      BY <1>0, <1>2, <2>3, <3>1
    <3>. QED  BY <1>0, <1>1, <2>1, <2>3, <3>2, <3>3 DEF ZerosLast
  <2>6. CASE s # Main
    <3>1. s \in Producers /\ pc[s] = "copy2" /\ ~Store2(Main)
      <4>1. s \in Producers /\ pc[s] = "copy2" /\ pc'[Main] = pc[Main]
        BY <1>0, <1>3, <2>6 DEF Store2, Goto, Senders
      <4>2. Store2(Main) => pc'[Main] = "unlock" /\ pc[Main] = "copy2"
        BY <1>0 DEF Store2, Goto
      <4>. QED  BY <4>1, <4>2
    <3>2. ZerosSent' = ZerosSent /\ thedata[s] # ZeroData
      BY <3>1, SentSteps DEF Ending, SendersItems, InCall
    <3>3. pc[Main] = "join"
      BY <3>1 DEF Ending, ProducersJoined, DoneProducers, At
    <3>4. ZerosSent = 0
      BY <3>3 DEF ZerosSent
    <3>5. n = 0 /\ Cardinality(Stopping) = 0 /\ n' = 0
      BY <1>0, <1>1, <2>3, <3>2, <3>4
    <3>6. Stopping = {}
      BY <3>5, StoppingParts DEF Control
    <3>7. \A i \in 1..Count + 1 : Queue'[i] # ZeroData
      <4>. SUFFICES ASSUME NEW i \in 1..Count + 1 PROVE Queue'[i] # ZeroData
        OBVIOUS
      <4>1. CASE i \in 1..Count
        BY <1>0, <1>1, <2>4, <3>5, <4>1
      <4>2. CASE i = Count + 1
        BY <2>4, <3>2, <4>2
      <4>. QED  BY <1>0, <4>1, <4>2
    <3>. QED  BY <1>0, <2>1, <2>3, <3>5, <3>6, <3>7 DEF ZerosLast
  <2>. QED  BY <2>5, <2>6
<1>4. ASSUME NEW c \in Consumers, Load2(c) PROVE ZerosLast'
  <2>1. Count' = Count - 1 /\ Queue # <<>> /\ Queue' = Tail(Queue) /\ thedata'[c] = Head(Queue)
    BY <1>4, Load2Counts, Load2Takes
  <2>0. Count' = Count - 1
    BY <2>1
  <2>2. /\ Count \in Nat \ {0} /\ Head(Queue) = Queue[1]
        /\ \A i \in 1..Count - 1 : Queue'[i] = Queue[i + 1]
    BY <1>0, <2>1
  <2>3. ZerosSent' = ZerosSent
    <3>1. pc'[Main] = pc[Main] /\ (Store2(Main) => pc'[Main] = "unlock" /\ pc[Main] = "copy2")
      BY <1>0, <1>4 DEF Load2, Store2, Goto
    <3>. QED  BY <3>1, SentSteps
  <2>4. pc[c] = "copy2" /\ pc'[c] = "unlock" /\ \A u \in Consumers \ {c} : pc'[u] = pc[u] /\ thedata'[u] = thedata[u]
    BY <1>0, <1>4 DEF Load2, Goto
  <2>5. c \notin Stopping
    BY <2>4, StoppingParts DEF Control, Handed
  <2>6. Stopping' = {u \in Consumers : pc'[u] \in Handed /\ thedata'[u] = ZeroData}
    BY ZeroIsData, NobodyAssumption DEF NobodyAssumption, Stopping, HandedOut, Handed
  <2>7. CASE Queue[1] = ZeroData
    <3>1. Stopping' = Stopping \cup {c}
      BY <2>1, <2>2, <2>4, <2>6, <2>7, StoppingParts DEF Control, Handed
    <3>2. Cardinality(Stopping') = Cardinality(Stopping) + 1
      BY <1>0, <2>5, <3>1, FS_AddElement
    <3>3. n = Count /\ n' = n - 1
      BY <1>0, <1>1, <1>2, <2>2, <2>3, <2>7, <3>2
    <3>4. \A i \in 1..Count - 1 : Queue'[i] = ZeroData
      BY <1>1, <2>2, <3>3
    <3>5. /\ Count' \in Nat /\ ZerosSent' - Cardinality(Stopping') = Count'
          /\ \A i \in 1..Count' : Queue'[i] = ZeroData
      <4>1. Count' \in Nat /\ n' = Count'
        BY <2>0, <2>2, <3>3
      <4>. QED  BY <2>0, <3>4, <4>1
    <3>. QED  BY <3>5 DEF ZerosLast
  <2>8. CASE Queue[1] # ZeroData
    <3>1. Stopping' = Stopping
      BY <2>1, <2>2, <2>4, <2>6, <2>8, StoppingParts DEF Control, Handed
    <3>2. n' = n /\ n < Count /\ Stopping = {}
      BY <1>0, <1>1, <1>2, <2>2, <2>3, <2>8, <3>1
    <3>3. \A i \in 1..Count - 1 : Queue'[i] = ZeroData <=> i > (Count - 1) - n
      BY <1>1, <2>2, <3>2
    <3>4. /\ Count' \in Nat /\ n' \in 0..Count' /\ Stopping' = {}
          /\ \A i \in 1..Count' : Queue'[i] = ZeroData <=> i > Count' - n'
      <4>1. Count' \in Nat /\ n' \in 0..Count'
        BY <1>1, <2>0, <2>2, <3>2
      <4>2. Stopping' = {}
        BY <3>1, <3>2
      <4>. QED  BY <2>0, <3>2, <3>3, <4>1, <4>2
    <3>. QED  BY <3>4 DEF ZerosLast
  <2>. QED  BY <2>7, <2>8
<1>5. ASSUME \A s \in Senders : ~Store2(s), \A c \in Consumers : ~Load2(c)
      PROVE  ZerosLast'
  <2>1. Count' = Count /\ lo' = lo /\ (buffer' = buffer \/ (\E s \in Senders : Store1(s)))
    BY <1>5, CountSteps
  <2>2. Queue' = Queue
    <3>1. CASE buffer' = buffer
      BY <2>1, <3>1 DEF Queue
    <3>. QED  BY <2>1, <3>1, Store1Hides
  <2>3. ZerosSent' = ZerosSent
    BY <1>5, SentSteps
  <2>4. Stopping' = Stopping
    <3>1. CASE HandedOut' = HandedOut
      BY <3>1 DEF Stopping
    <3>2. ASSUME NEW c \in Consumers, ReceiveV(c), Goto(c, "P") PROVE Stopping' = Stopping
      <4>1. /\ pc[c] = "V" /\ pc'[c] = "P" /\ thedata' = thedata
            /\ \A u \in Consumers \ {c} : pc'[u] = pc[u]
            /\ thedata[c] # ZeroData
        BY <1>0, <3>2 DEF ReceiveV, Goto, ZeroData, Whole
      <4>2. Stopping' = {u \in Consumers : pc'[u] \in Handed /\ thedata'[u] = ZeroData}
        BY ZeroIsData, NobodyAssumption DEF NobodyAssumption, Stopping, HandedOut, Handed
      <4>. QED  BY <4>1, <4>2, StoppingParts DEF Control, Handed
    <3>. QED  BY <1>5, <3>1, <3>2, HandedSteps
  <2>. QED  BY <1>1, <2>1, <2>2, <2>3, <2>4 DEF ZerosLast
<1>. QED  BY <1>3, <1>4, <1>5

\* The invariant of the stop protocol holds of every reachable state.
LEMMA EndingInvariant == Spec => [](Control /\ Ending)
<1>1. Init => Ending
  <2>. SUFFICES ASSUME Init PROVE Ending
    OBVIOUS
  <2>1. Control
    BY ControlInit
  <2>. USE Threads
  <2>2. /\ pc[Main] = "join" /\ left[Main] = Cardinality(Producers)
        /\ producer_finished = 0 /\ consumer_finished = 0
        /\ \A p \in Producers : pc[p] = "start"
        /\ \A c \in Consumers : pc[c] = "P"
        /\ thedata[Main] = ZeroData
    BY DEF Init, ZeroData, Whole
  <2>3. SendersItems
    BY <2>2 DEF SendersItems, InCall
  <2>4. DoneProducers = {} /\ DoneConsumers = {} /\ Stopping = {}
    <3>1. Stopping = {}
      BY <2>1, <2>2, StoppingParts DEF Control, Handed
    <3>. QED  BY <2>2, <3>1 DEF DoneProducers, DoneConsumers, At
  <2>5. /\ Cardinality(DoneProducers) = 0 /\ Cardinality(DoneConsumers) = 0
        /\ Cardinality(Stopping) = 0 /\ Cardinality(Producers) \in Nat
    BY <2>1, <2>4, FS_EmptySet, DoneCounts DEF Control
  <2>6. ProducersJoined
    BY <2>2, <2>5 DEF ProducersJoined
  <2>7. ConsumersReaped
    BY <2>2, <2>5 DEF ConsumersReaped
  <2>8. Count = 0
    <3>1. Reserving = {} /\ Stored = {} /\ Claiming = {} /\ Freeing = {}
      BY <2>2 DEF Init, Reserving, Stored, Claiming, Freeing, At, Senders
    <3>. QED  BY <3>1, FS_EmptySet DEF Init, Count
  <2>9. ZerosSent = 0
    BY <2>2 DEF ZerosSent
  <2>10. ZerosLast
    BY <2>4, <2>5, <2>8, <2>9 DEF ZerosLast
  <2>. QED  BY <2>3, <2>6, <2>7, <2>10 DEF Ending
<1>2. Control /\ Control' /\ InStep /\ Ending /\ [Next]_vars => Ending'
  <2>. SUFFICES ASSUME Control, Control', InStep, Ending, [Next]_vars PROVE Ending'
    OBVIOUS
  <2>1. SendersItems'
    BY SendersItemsKept DEF Ending
  <2>2. ProducersJoined'
    BY ProducersJoinedKept DEF Ending
  <2>3. ConsumersReaped'
    BY ConsumersReapedKept DEF Ending
  <2>4. ZerosLast'
    BY ZerosLastKept
  <2>. QED  BY <2>1, <2>2, <2>3, <2>4 DEF Ending
<1>. QED  BY <1>1, <1>2, InStepInvariant, PTL DEF Spec

\* Consumers stop only after the last item of the last producer was taken out
\* of the ring, and the lock and the semaphores are destroyed when nobody holds
\* or will use them and the ring is empty.
THEOREM StopsClean == Spec => []CleanStop
<1>1. Control /\ Ending => CleanStop
  <2>. SUFFICES ASSUME Control, Ending PROVE CleanStop
    OBVIOUS
  <2>. USE Threads DEF Control
  <2>0. /\ Count \in Nat /\ Cardinality(Consumers) \in Nat
        /\ Cardinality(Stopping) \in Nat
    BY QueueParts, DoneCounts, StoppingParts
  <2>1. ASSUME NEW c \in Consumers, pc[c] \in {"finish", "done"}
        PROVE  /\ DoneProducers = Producers
               /\ \A i \in 1..Count : Queue[i] = ZeroData
               /\ c \in Stopping
    <3>1. c \in Stopping
      BY <2>1, StoppingParts DEF Ending, SendersItems, Handed
    <3>2. /\ ZerosSent - Cardinality(Stopping) = Count
          /\ \A i \in 1..Count : Queue[i] = ZeroData <=> i > Count - (ZerosSent - Cardinality(Stopping))
      BY <3>1 DEF Ending, ZerosLast
    <3>3. \A i \in 1..Count : Queue[i] = ZeroData
      BY <2>0, <3>2
    <3>4. pc[Main] # "join"
      <4>1. Cardinality(Stopping) # 0
        BY <3>1, StoppingParts
      <4>2. ZerosSent # 0
        BY <2>0, <3>2, <4>1
      <4>. QED  BY <4>2 DEF ZerosSent
    <3>. QED  BY <3>1, <3>3, <3>4 DEF Ending, ProducersJoined
  <2>2. NothingLeftBehind
    BY <2>1 DEF NothingLeftBehind, DoneProducers, At, ZeroData
  <2>3. ASSUME pc[Main] \in {"shutdown", "done"}
        PROVE  /\ \A t \in Thread \ {Main} : pc[t] = "done"
               /\ pc_lock = Nobody /\ Count = 0 /\ full_sem = BufferSize
               /\ producer_finished = 0 /\ consumer_finished = 0
    <3>1. DoneConsumers = Consumers /\ consumer_finished = 0
      BY <2>3 DEF Ending, ConsumersReaped
    <3>2. DoneProducers = Producers /\ producer_finished = 0
      BY <2>3 DEF Ending, ProducersJoined
    <3>3. \A t \in Thread \ {Main} : pc[t] = "done"
      BY <3>1, <3>2 DEF DoneConsumers, DoneProducers, At, Thread, Senders
    <3>4. pc_lock = Nobody
      BY <2>3, <3>3 DEF TypeOK, OneInside
    <3>5. Stopping = Consumers
      <4>1. Consumers \subseteq Stopping
        BY <2>1, <3>3
      <4>. QED  BY <4>1 DEF Stopping
    <3>6. ZerosSent = Cardinality(Consumers)
      BY <2>3 DEF ZerosSent
    <3>7. Count = 0
      BY <2>0, <3>5, <3>6, ConsumersAssumption DEF ConsumersAssumption, Ending, ZerosLast
    <3>8. full_sem = BufferSize
      <4>1. Reserving = {} /\ Freeing = {}
        BY <2>3, <3>3 DEF Reserving, Freeing, At
      <4>2. Count + full_sem + Cardinality(Reserving) + Cardinality(Freeing) = BufferSize
        BY DEF SlotsConserved
      <4>. QED  BY <3>7, <4>1, <4>2, FS_EmptySet DEF TypeOK
    <3>. QED  BY <3>1, <3>2, <3>3, <3>4, <3>7, <3>8
  <2>. QED  BY <2>2, <2>3 DEF CleanStop, SafeShutdown
<1>. QED  BY <1>1, EndingInvariant, PTL
=============================================================================
