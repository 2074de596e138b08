-------------------------- MODULE WaitChannelFacts --------------------------
(***************************************************************************)
(* What going to sleep on a channel and waking up from it do to the set of *)
(* threads the channel lists.                                              *)
(***************************************************************************)
EXTENDS WaitChannel, TLAPS

\* A new channel lists nobody (wchan_create).
LEMMA EmptyChannel == Lists(<<>>, {}) /\ \A S : <<>> \in Seq(S)
BY DEF Lists, On

\* Going to sleep adds the thread, once (wchan_sleep).
LEMMA SleepLists ==
  ASSUME NEW S, NEW chan \in Seq(S), NEW A, NEW t \in S, Lists(chan, A), t \notin A
  PROVE  Asleep(chan, t) \in Seq(S) /\ Lists(Asleep(chan, t), A \cup {t})
<1>. DEFINE new == Append(chan, t)
<1>1. /\ new \in Seq(S) /\ Len(new) = Len(chan) + 1 /\ Len(chan) \in Nat
      /\ \A i \in 1..Len(chan) : new[i] = chan[i]
      /\ new[Len(chan) + 1] = t
  OBVIOUS
<1>. HIDE DEF new
<1>2. \A i \in 1..Len(chan) : chan[i] # t
  BY DEF Lists, On
<1>3. On(new) = A \cup {t}
  <2>1. ASSUME NEW x \in On(new) PROVE x \in A \cup {t}
    BY <1>1, <2>1 DEF On, Lists
  <2>2. ASSUME NEW x \in A PROVE x \in On(new)
    <3>1. PICK i \in 1..Len(chan) : chan[i] = x
      BY <2>2 DEF On, Lists
    <3>2. i \in 1..Len(new) /\ new[i] = x
      BY <1>1, <3>1
    <3>. QED  BY <3>2 DEF On
  <2>3. t \in On(new)
    <3>1. Len(chan) + 1 \in 1..Len(new)
      BY <1>1
    <3>. QED  BY <1>1, <3>1 DEF On
  <2>. QED  BY <2>1, <2>2, <2>3
<1>4. \A i, j \in 1..Len(new) : new[i] = new[j] => i = j
  BY <1>1, <1>2 DEF Lists
<1>. QED  BY <1>1, <1>3, <1>4 DEF Asleep, Lists, new

\* Waking one thread removes exactly the head (wchan_wakeone).
LEMMA WakeLists ==
  ASSUME NEW S, NEW chan \in Seq(S), NEW A, Lists(chan, A), chan # <<>>
  PROVE  /\ Woke(chan) \in S /\ Woke(chan) \in A
         /\ AfterWakeOne(chan) \in Seq(S)
         /\ Lists(AfterWakeOne(chan), A \ {Woke(chan)})
<1>. DEFINE h == Head(chan)
            new == Tail(chan)
<1>1. /\ h = chan[1] /\ h \in S /\ 1 \in 1..Len(chan)
      /\ new \in Seq(S) /\ Len(new) = Len(chan) - 1 /\ Len(chan) \in Nat /\ Len(chan) > 0
      /\ \A i \in 1..Len(new) : new[i] = chan[i + 1]
  OBVIOUS
<1>. HIDE DEF h, new
<1>2. h \in A
  BY <1>1 DEF Lists, On
<1>3. On(new) = A \ {h}
  <2>1. ASSUME NEW x \in On(new) PROVE x \in A \ {h}
    <3>1. PICK i \in 1..Len(new) : new[i] = x
      BY <2>1 DEF On
    <3>2. i + 1 \in 1..Len(chan) /\ chan[i + 1] = x /\ i + 1 # 1
      BY <1>1, <3>1
    <3>. QED  BY <1>1, <3>2 DEF Lists, On
  <2>2. ASSUME NEW x \in A \ {h} PROVE x \in On(new)
    <3>1. PICK i \in 1..Len(chan) : chan[i] = x
      BY <2>2 DEF On, Lists
    <3>2. i - 1 \in 1..Len(new) /\ new[i - 1] = x
      BY <1>1, <2>2, <3>1
    <3>. QED  BY <3>2 DEF On
  <2>. QED  BY <2>1, <2>2
<1>4. \A i, j \in 1..Len(new) : new[i] = new[j] => i = j
  BY <1>1 DEF Lists
<1>. QED  BY <1>1, <1>2, <1>3, <1>4 DEF Woke, AfterWakeOne, Lists, h, new

\* A channel that lists somebody is not empty, and the other way round.
LEMMA ListsNonEmpty ==
  ASSUME NEW S, NEW chan \in Seq(S), NEW A, Lists(chan, A)
  PROVE  chan = <<>> <=> A = {}
<1>1. CASE chan = <<>>
  <2>1. 1..Len(chan) = {}
    BY <1>1
  <2>. QED  BY <1>1, <2>1 DEF Lists, On
<1>2. CASE chan # <<>>
  <2>1. 1 \in 1..Len(chan)
    BY <1>2
  <2>. QED  BY <1>2, <2>1 DEF Lists, On
<1>. QED  BY <1>1, <1>2
=============================================================================
