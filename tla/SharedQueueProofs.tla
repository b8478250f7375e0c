------------------------- MODULE SharedQueueProofs -------------------------
(* The safety of SharedQueue for any number of producers, consumers, sizes  *)
(* and pushes: its types, the wakeups, and what a reference returned by     *)
(* front() still refers to.                                                 *)
EXTENDS SharedQueue, SequenceTheorems, FiniteSetTheorems, TLAPS

\* Appending adds one element behind the others.
LEMMA AppendFacts ==
  ASSUME NEW S, NEW q \in Seq(S), NEW x \in S
  PROVE  /\ Append(q, x) \in Seq(S)
         /\ Len(Append(q, x)) = Len(q) + 1
         /\ \A i \in 1..Len(q) : Append(q, x)[i] = q[i]
         /\ Append(q, x)[Len(q) + 1] = x
BY AppendProperties

\* Dropping n elements leaves the others in their order.
LEMMA DroppedFacts ==
  ASSUME NEW S, NEW q \in Seq(S), NEW n \in 0..Len(q)
  PROVE  /\ Dropped(q, n) \in Seq(S)
         /\ Len(Dropped(q, n)) = Len(q) - n
         /\ \A i \in 1..(Len(q) - n) : Dropped(q, n)[i] = q[n + i]
<1>1. n + 1 \in Int /\ Len(q) \in Nat /\ Len(q) \in Int /\ n \in Nat /\ n <= Len(q)
  BY LenProperties
<1>2. \A i \in (n + 1)..Len(q) : q[i] \in S
  BY <1>1, ElementOfSeq
<1>3. /\ SubSeq(q, n + 1, Len(q)) \in Seq(S)
      /\ Len(SubSeq(q, n + 1, Len(q))) =
           IF n + 1 <= Len(q) THEN Len(q) - (n + 1) + 1 ELSE 0
      /\ \A i \in 1..(Len(q) - (n + 1) + 1) :
           SubSeq(q, n + 1, Len(q))[i] = q[n + 1 + i - 1]
  BY <1>1, <1>2, SubSeqProperties
<1>4. Len(q) - (n + 1) + 1 = Len(q) - n
  BY <1>1
<1>5. \A i \in 1..(Len(q) - n) : n + 1 + i - 1 = n + i
  BY <1>1
<1>6. \A i \in 1..(Len(q) - n) : SubSeq(q, n + 1, Len(q))[i] = q[n + i]
  BY <1>3, <1>4, <1>5
<1>7. Len(SubSeq(q, n + 1, Len(q))) = Len(q) - n
  BY <1>1, <1>3
<1> QED BY <1>3, <1>6, <1>7 DEF Dropped

\* pop_front() drops one element.
LEMMA TailFacts ==
  ASSUME NEW S, NEW q \in Seq(S), q # <<>>
  PROVE  /\ Tail(q) \in Seq(S)
         /\ Len(Tail(q)) = Len(q) - 1
         /\ \A i \in 1..(Len(q) - 1) : Tail(q)[i] = q[1 + i]
         /\ Head(q) = q[1] /\ q[1] \in S /\ Len(q) \in Nat \ {0}
BY HeadTailProperties, LenProperties, ElementOfSeq

\* A full queue is cut from its head, or not at all.
LEMMA WhenFullFacts ==
  ASSUME NEW S, NEW q \in Seq(S), NEW mode, maxSize \in Nat \ {0}
  PROVE  \E n \in 0..Len(q) : WhenFull(q, mode) = Dropped(q, n)
<1>1. Len(q) \in Nat
  BY LenProperties
<1>2. CASE mode = "PopOld" /\ Len(q) >= maxSize
  <2>1. Len(q) - maxSize + 1 \in 0..Len(q)
    BY <1>1, <1>2
  <2> QED BY <1>2, <2>1 DEF WhenFull
<1>3. CASE ~(mode = "PopOld" /\ Len(q) >= maxSize)
  <2>1. Dropped(q, 0) = q
    BY <1>1, SubSeqFull DEF Dropped
  <2> QED BY <1>1, <1>3, <2>1 DEF WhenFull
<1> QED BY <1>2, <1>3

\* What a push makes of the queue: a suffix of it, with the new item behind or
\* without; only in the first case the producer goes on to notify.
LEMMA PushFacts ==
  ASSUME TypeOK, NEW t \in Producers, PushCopy(t) \/ PushMove(t)
  PROVE  /\ pushes + 1 \in 1..MaxItems /\ pc[t] = "idle"
         /\ pushes' = pushes + 1 /\ modeFull' \in Modes
         /\ UNCHANGED <<maxSize, sleeping, ref, missed, spurious>>
         /\ \E n \in 0..Len(queue) :
              \/ /\ queue' = Append(Dropped(queue, n), pushes + 1)
                 /\ pc' = [pc EXCEPT ![t] = "notify"]
              \/ queue' = Dropped(queue, n) /\ pc' = pc
<1>1. PICK full \in BOOLEAN, mode \in Modes :
        Push(t, full, mode) /\ (full => maxSize > 0)
  BY DEF PushCopy, PushMove, FullForCopy, FullForMove
<1>2. /\ queue \in Seq(1..MaxItems) /\ Len(queue) \in Nat
      /\ maxSize \in Nat /\ pushes \in 0..MaxItems /\ MaxItems \in Nat
  BY OptionsAssumption, LenProperties DEF TypeOK
<1>3. Dropped(queue, 0) = queue
  BY <1>2, SubSeqFull DEF Dropped
<1>4. full => \E n \in 0..Len(queue) : WhenFull(queue, modeFull) = Dropped(queue, n)
  BY <1>1, <1>2, WhenFullFacts
<1>5. \E n \in 0..Len(queue) :
        \/ /\ queue' = Append(Dropped(queue, n), pushes + 1)
           /\ pc' = [pc EXCEPT ![t] = "notify"]
        \/ queue' = Dropped(queue, n) /\ pc' = pc
  BY <1>1, <1>2, <1>3, <1>4 DEF Push
<1> QED BY <1>1, <1>2, <1>5 DEF Push
-----------------------------------------------------------------------------
(* Type correctness *)

\* Every step keeps the types.
LEMMA TypeStep == TypeOK /\ [Next]_vars => TypeOK'
<1> SUFFICES ASSUME TypeOK, [Next]_vars PROVE TypeOK'
  OBVIOUS
<1> USE ThreadsAssumption, OptionsAssumption DEF TypeOK, Threads
<1>1. ASSUME NEW p \in Producers, PushCopy(p) \/ PushMove(p) PROVE TypeOK'
  <2>1. PICK n \in 0..Len(queue) :
          \/ /\ queue' = Append(Dropped(queue, n), pushes + 1)
             /\ pc' = [pc EXCEPT ![p] = "notify"]
          \/ queue' = Dropped(queue, n) /\ pc' = pc
    BY <1>1, PushFacts
  <2>2. Dropped(queue, n) \in Seq(1..MaxItems) /\ pushes + 1 \in 1..MaxItems
    BY <1>1, DroppedFacts, PushFacts
  <2>3. Append(Dropped(queue, n), pushes + 1) \in Seq(1..MaxItems)
    BY <2>2, AppendFacts
  <2>4. queue' \in Seq(1..MaxItems)
    BY <2>1, <2>2, <2>3
  <2>5. /\ pushes' \in 0..MaxItems /\ modeFull' \in Modes
        /\ UNCHANGED <<maxSize, sleeping, ref, missed, spurious>>
    BY <1>1, <2>2, PushFacts
  <2>6. pc' \in [Threads -> {"idle", "notify", "front", "frontTimed", "holding", "pop"}]
    BY <2>1
  <2> QED BY <2>4, <2>5, <2>6
<1>2. ASSUME NEW p \in Producers, NotifyOne(p) PROVE TypeOK'
  BY <1>2 DEF NotifyOne
<1>3. ASSUME NEW c \in Consumers, Consume(c) PROVE TypeOK'
  <2>1. queue # <<>> => Head(queue) \in 1..MaxItems /\ Tail(queue) \in Seq(1..MaxItems)
    BY TailFacts
  <2>2. CASE Front(c)
    BY <2>1, <2>2 DEF Front
  <2>3. CASE FrontTimed(c)
    BY <2>1, <2>3 DEF FrontTimed
  <2>4. CASE FrontTimedWoken(c) \/ FrontTimedOut(c)
    <3>1. Len(queue) \in Nat
      BY LenProperties
    <3> QED BY <2>1, <2>4, <3>1 DEF FrontTimedWoken, FrontTimedOut, NoItem
  <2>5. CASE PopFront(c)
    <3>1. queue' \in Seq(1..MaxItems)
      BY <2>1, <2>5 DEF PopFront
    <3> QED BY <2>5, <3>1 DEF PopFront, NoItem
  <2> QED BY <1>3, <2>2, <2>3, <2>4, <2>5 DEF Consume
<1>4. ASSUME NEW c \in Consumers, SpuriousWake(c) PROVE TypeOK'
  BY <1>4 DEF SpuriousWake
<1>5. ASSUME NEW n \in Sizes, SetMaxSize(n) PROVE TypeOK'
  BY <1>5 DEF SetMaxSize
<1>6. ASSUME NEW mode \in Modes, SetModeFull(mode) PROVE TypeOK'
  BY <1>6 DEF SetModeFull
<1>7. CASE Clear
  BY <1>7, EmptySeq DEF Clear
<1>8. CASE UNCHANGED vars
  BY <1>8 DEF vars
<1> QED
  BY <1>1, <1>2, <1>3, <1>4, <1>5, <1>6, <1>7, <1>8 DEF Next, Produce

\* The queue is empty at first.
LEMMA TypeInit == Init => TypeOK
BY ThreadsAssumption, OptionsAssumption, EmptySeq DEF Init, TypeOK, NoItem, Threads

\* Every state of the queue is well typed.
THEOREM TypeCorrect == Spec => []TypeOK
BY TypeInit, TypeStep, PTL DEF Spec
-----------------------------------------------------------------------------
(* Wakeups *)

\* Whoever sleeps does so in one of the three calls that wait, and has not woken.
SleepersWait ==
  /\ \A c \in sleeping : pc[c] \in {"front", "frontTimed", "pop"}
  /\ sleeping \cap spurious = {}

WakeInv == SleepersWait /\ NoLostWakeup

\* The threads that are awake in a call are finitely many.
LEMMA AwakeFinite == IsFiniteSet(Awake) /\ Cardinality(Awake) \in Nat
<1>1. IsFiniteSet(Threads)
  BY ThreadsAssumption, FS_Union DEF Threads
<1>2. Awake \subseteq Threads
  BY DEF Awake
<1> QED BY <1>1, <1>2, FS_Subset, FS_CardinalityType

\* A step that takes nobody out of Awake and adds nothing to the queue is safe.
LEMMA WakeMonotone ==
  ASSUME TypeOK, WakeInv, SleepersWait', Awake \subseteq Awake',
         sleeping' \subseteq sleeping, Len(queue') <= Len(queue),
         Len(queue') \in Nat, IsFiniteSet(Awake'), missed' = missed
  PROVE  WakeInv'
<1>1. Cardinality(Awake) <= Cardinality(Awake') /\ Cardinality(Awake') \in Nat
  BY FS_Subset, FS_CardinalityType
<1>2. Cardinality(Awake) \in Nat /\ Len(queue) \in Nat
  BY AwakeFinite, LenProperties DEF TypeOK
<1>3. missed \in Nat
  BY DEF TypeOK
<1> QED BY <1>1, <1>2, <1>3 DEF WakeInv, NoLostWakeup

\* The wakeups stay accounted for: a reader that gives up with a notification in
\* its hands leaves one item more behind.
LEMMA WakeStep ==
  ASSUME TypeOK, TypeOK', WakeInv, [Next]_vars
  PROVE  WakeInv'
<1>0. /\ pc \in [Threads -> {"idle", "notify", "front", "frontTimed", "holding", "pop"}]
      /\ sleeping \subseteq Consumers /\ spurious \subseteq Consumers
      /\ Consumers \subseteq Threads
      /\ Producers \subseteq Threads /\ Producers \cap Consumers = {}
      /\ SleepersWait
      /\ Len(queue) \in Nat /\ Len(queue') \in Nat /\ missed \in Nat
  BY ThreadsAssumption, LenProperties DEF TypeOK, Threads, WakeInv
<1>01. IsFiniteSet(Awake) /\ Cardinality(Awake) \in Nat
  BY AwakeFinite
<1>02. IsFiniteSet(Awake')
  <2>1. IsFiniteSet(Threads)
    BY ThreadsAssumption, FS_Union DEF Threads
  <2>2. Awake' \subseteq Threads
    BY DEF Awake
  <2> QED BY <2>1, <2>2, FS_Subset
<1>1. ASSUME NEW p \in Producers, PushCopy(p) \/ PushMove(p) PROVE WakeInv'
  <2>1. PICK n \in 0..Len(queue) :
          \/ /\ queue' = Append(Dropped(queue, n), pushes + 1)
             /\ pc' = [pc EXCEPT ![p] = "notify"]
          \/ queue' = Dropped(queue, n) /\ pc' = pc
    BY <1>1, PushFacts
  <2>2. /\ pc[p] = "idle" /\ UNCHANGED <<sleeping, spurious, missed>>
        /\ pushes + 1 \in 1..MaxItems
    BY <1>1, PushFacts
  <2>3. /\ Dropped(queue, n) \in Seq(1..MaxItems)
        /\ Len(Dropped(queue, n)) = Len(queue) - n
    BY DroppedFacts DEF TypeOK
  <2>4. CASE queue' = Dropped(queue, n) /\ pc' = pc
    <3>1. Awake' = Awake /\ SleepersWait'
      BY <1>0, <2>2, <2>4 DEF Awake, SleepersWait
    <3> QED BY <1>0, <1>02, <2>2, <2>3, <2>4, <3>1, WakeMonotone
  <2>5. CASE /\ queue' = Append(Dropped(queue, n), pushes + 1)
             /\ pc' = [pc EXCEPT ![p] = "notify"]
    <3>1. Len(queue') = Len(queue) - n + 1
      BY <2>2, <2>3, <2>5, AppendFacts
    <3>2. Awake' = Awake \cup {p} /\ p \notin Awake
      BY <1>0, <2>2, <2>5 DEF Awake, SleepersWait
    <3>3. Cardinality(Awake') = Cardinality(Awake) + 1
      BY <1>01, <3>2, FS_AddElement
    <3>4. SleepersWait'
      BY <1>0, <2>2, <2>5 DEF SleepersWait
    <3> QED BY <1>0, <1>01, <2>2, <3>1, <3>3, <3>4 DEF WakeInv, NoLostWakeup
  <2> QED BY <2>1, <2>4, <2>5
<1>2. ASSUME NEW p \in Producers, NotifyOne(p) PROVE WakeInv'
  <2>1. SleepersWait'
    BY <1>0, <1>2 DEF NotifyOne, SleepersWait
  <2>2. CASE sleeping = {}
    BY <1>2, <2>1, <2>2 DEF NotifyOne, WakeInv, NoLostWakeup
  <2>3. ASSUME NEW s \in sleeping, sleeping' = sleeping \ {s} PROVE WakeInv'
    <3>1. p \in Awake /\ s \notin Awake \ {p}
      BY <1>0, <1>2, <2>3 DEF NotifyOne, Awake
    <3>2. Awake' = (Awake \ {p}) \cup {s}
      BY <1>0, <1>2, <2>3 DEF NotifyOne, Awake, SleepersWait
    <3>3. IsFiniteSet(Awake \ {p}) /\ Cardinality(Awake \ {p}) = Cardinality(Awake) - 1
      BY <1>01, <3>1, FS_RemoveElement
    <3>4. Cardinality(Awake') = Cardinality(Awake \ {p}) + 1
      BY <3>1, <3>2, <3>3, FS_AddElement
    <3>5. Cardinality(Awake') = Cardinality(Awake)
      BY <1>01, <3>3, <3>4
    <3> QED BY <1>2, <2>1, <2>3, <3>5 DEF NotifyOne, WakeInv, NoLostWakeup
  <2> QED BY <1>2, <2>2, <2>3 DEF NotifyOne
<1>3. ASSUME NEW c \in Consumers, Consume(c) PROVE WakeInv'
  <2>1. CASE (Front(c) \/ FrontTimed(c) \/ FrontTimedWoken(c)) /\ queue' # <<>>
    <3>1. Awake \subseteq Awake' /\ SleepersWait'
      BY <1>0, <2>1 DEF Front, FrontTimed, FrontTimedWoken, Awake, SleepersWait
    <3> QED
      BY <1>0, <1>02, <2>1, <3>1, WakeMonotone DEF Front, FrontTimed, FrontTimedWoken
  <2>2. CASE /\ Front(c) \/ FrontTimed(c) \/ FrontTimedWoken(c) \/ PopFront(c)
             /\ queue' = <<>>
    <3>1. SleepersWait' /\ missed' = missed
      BY <1>0, <2>2 DEF Front, FrontTimed, FrontTimedWoken, PopFront, SleepersWait
    <3>2. Len(queue') = 0 /\ Cardinality(Awake') \in Nat
      BY <1>02, <2>2, FS_CardinalityType, EmptySeq
    <3> QED BY <1>0, <3>1, <3>2 DEF WakeInv, NoLostWakeup
  <2>3. CASE PopFront(c) /\ queue' # <<>>
    <3>1. queue # <<>> /\ missed' = missed /\ sleeping' = sleeping
      BY <2>3 DEF PopFront
    <3>2. Len(queue') = Len(queue) - 1
      BY <2>3, <3>1, TailFacts DEF PopFront, TypeOK
    <3>3. Awake' = Awake \ {c} /\ SleepersWait'
      BY <1>0, <2>3, <3>1 DEF PopFront, Awake, SleepersWait
    <3>4. Cardinality(Awake') >= Cardinality(Awake) - 1 /\ Cardinality(Awake') \in Nat
      <4>1. CASE c \in Awake
        <5>1. Cardinality(Awake') = Cardinality(Awake) - 1
          BY <1>01, <3>3, <4>1, FS_RemoveElement
        <5>2. Cardinality(Awake') \in Nat
          BY <1>02, FS_CardinalityType
        <5> QED BY <1>01, <5>1, <5>2
      <4>2. CASE c \notin Awake
        <5>1. Awake' = Awake
          BY <3>3, <4>2
        <5> QED BY <1>01, <5>1
      <4> QED BY <4>1, <4>2
    <3> QED BY <1>0, <1>01, <3>1, <3>2, <3>3, <3>4 DEF WakeInv, NoLostWakeup
  <2>4. CASE FrontTimedOut(c) /\ c \in sleeping \cup spurious
    <3>1. /\ Awake' = Awake /\ SleepersWait' /\ sleeping' \subseteq sleeping
          /\ missed' = missed /\ queue' = queue
      BY <1>0, <2>4 DEF FrontTimedOut, Awake, SleepersWait
    <3> QED BY <1>0, <1>02, <3>1, WakeMonotone
  <2>5. CASE FrontTimedOut(c) /\ c \notin sleeping \cup spurious
    <3>1. c \in Awake /\ Awake' = Awake \ {c} /\ SleepersWait'
      BY <1>0, <2>5 DEF FrontTimedOut, Awake, SleepersWait
    <3>2. Cardinality(Awake') = Cardinality(Awake) - 1
      BY <1>01, <3>1, FS_RemoveElement
    <3>3. Cardinality(Awake') \in Nat
      BY <1>02, FS_CardinalityType
    <3>4. /\ queue' = queue /\ sleeping' = sleeping
          /\ (Len(queue) <= missed /\ missed' = missed) \/ missed' = missed + 1
      BY <2>5 DEF FrontTimedOut
    <3> QED BY <1>0, <1>01, <3>1, <3>2, <3>3, <3>4 DEF WakeInv, NoLostWakeup
  <2> QED BY <1>3, <2>1, <2>2, <2>3, <2>4, <2>5 DEF Consume
<1>4. ASSUME NEW c \in Consumers, SpuriousWake(c) PROVE WakeInv'
  <2>1. Awake' = Awake /\ SleepersWait'
    BY <1>0, <1>4 DEF SpuriousWake, Awake, SleepersWait
  <2> QED BY <1>0, <1>02, <1>4, <2>1, WakeMonotone DEF SpuriousWake
<1>5. ASSUME UNCHANGED <<pc, sleeping, spurious, missed>>, Len(queue') <= Len(queue) PROVE WakeInv'
  <2>1. Awake' = Awake /\ SleepersWait'
    BY <1>0, <1>5 DEF Awake, SleepersWait
  <2> QED BY <1>0, <1>02, <1>5, <2>1, WakeMonotone
<1>6. ASSUME NEW n \in Sizes, SetMaxSize(n) PROVE WakeInv'
  BY <1>0, <1>5, <1>6 DEF SetMaxSize
<1>7. ASSUME NEW mode \in Modes, SetModeFull(mode) PROVE WakeInv'
  BY <1>0, <1>5, <1>7 DEF SetModeFull
<1>8. CASE Clear
  <2>1. Len(queue') = 0
    BY <1>8, EmptySeq DEF Clear
  <2> QED BY <1>0, <1>5, <1>8, <2>1 DEF Clear
<1>9. CASE UNCHANGED vars
  BY <1>0, <1>5, <1>9 DEF vars
<1> QED
  BY <1>1, <1>2, <1>3, <1>4, <1>6, <1>7, <1>8, <1>9 DEF Next, Produce

\* No wakeup is lost, for any number of producers and of consumers, with a
\* timeout or without, although notify_one() follows the unlock and wakes anyone.
THEOREM WakeupsKept == Spec => []NoLostWakeup
<1>1. Init => WakeInv
  BY ThreadsAssumption DEF Init, WakeInv, SleepersWait, NoLostWakeup, Threads
<1>2. TypeOK /\ TypeOK' /\ WakeInv /\ [Next]_vars => WakeInv'
  BY WakeStep
<1>3. WakeInv => NoLostWakeup
  BY DEF WakeInv
<1> QED BY <1>1, <1>2, <1>3, TypeCorrect, PTL DEF Spec
-----------------------------------------------------------------------------
(* What a reference refers to *)

\* Items are queued in the order of the pushes, and a consumer never holds one
\* that is newer than any in the queue.
OrderInv ==
  /\ \A i, j \in 1..Len(queue) : i < j => queue[i] < queue[j]
  /\ \A i \in 1..Len(queue) : queue[i] <= pushes
  /\ \A c \in Consumers : ref[c] <= pushes
  /\ \A c \in Consumers, i \in 1..Len(queue) : ref[c] <= queue[i]

\* The order survives when the queue loses its head, and the references are
\* kept or dropped.
LEMMA OrderOfSuffix ==
  ASSUME TypeOK, OrderInv, NEW n \in 0..Len(queue),
         Len(queue') = Len(queue) - n,
         \A i \in 1..(Len(queue) - n) : queue'[i] = queue[n + i],
         pushes' \in Nat, pushes <= pushes',
         \A c \in Consumers : ref'[c] = ref[c] \/ ref'[c] = NoItem
  PROVE  OrderInv'
<1>1. /\ Len(queue) \in Nat /\ pushes \in Nat
      /\ \A i \in 1..Len(queue) : queue[i] \in 1..MaxItems
      /\ \A c \in Consumers : ref[c] \in 0..MaxItems
  BY OptionsAssumption, LenProperties, ElementOfSeq DEF TypeOK
<1>2. \A i \in 1..Len(queue') : n + i \in 1..Len(queue) /\ queue'[i] = queue[n + i]
  BY <1>1
<1>3. \A i, j \in 1..Len(queue') : i < j => queue'[i] < queue'[j]
  <2> SUFFICES ASSUME NEW i \in 1..Len(queue'), NEW j \in 1..Len(queue'), i < j
               PROVE  queue'[i] < queue'[j]
    OBVIOUS
  <2>1. n + i \in 1..Len(queue) /\ n + j \in 1..Len(queue) /\ n + i < n + j
    BY <1>1, <1>2
  <2>2. queue[n + i] < queue[n + j]
    BY <2>1 DEF OrderInv
  <2> QED BY <1>2, <2>2
<1>4. \A i \in 1..Len(queue') : queue'[i] <= pushes'
  <2> SUFFICES ASSUME NEW i \in 1..Len(queue') PROVE queue'[i] <= pushes'
    OBVIOUS
  <2>1. queue[n + i] <= pushes /\ queue[n + i] \in 1..MaxItems
    BY <1>1, <1>2 DEF OrderInv
  <2> QED BY <1>1, <1>2, <2>1, OptionsAssumption
<1>5. \A c \in Consumers : ref'[c] <= pushes'
  <2> SUFFICES ASSUME NEW c \in Consumers PROVE ref'[c] <= pushes'
    OBVIOUS
  <2>1. ref[c] <= pushes /\ ref[c] \in 0..MaxItems
    BY <1>1 DEF OrderInv
  <2> QED BY <1>1, <2>1, OptionsAssumption DEF NoItem
<1>6. \A c \in Consumers, i \in 1..Len(queue') : ref'[c] <= queue'[i]
  <2> SUFFICES ASSUME NEW c \in Consumers, NEW i \in 1..Len(queue')
               PROVE  ref'[c] <= queue'[i]
    OBVIOUS
  <2>1. n + i \in 1..Len(queue) /\ queue'[i] = queue[n + i]
    BY <1>2
  <2>2. ref[c] <= queue[n + i] /\ queue[n + i] \in 1..MaxItems
    BY <1>1, <2>1 DEF OrderInv
  <2> QED BY <2>1, <2>2, OptionsAssumption DEF NoItem
<1> QED BY <1>3, <1>4, <1>5, <1>6 DEF OrderInv

\* Every step keeps the order.
LEMMA OrderStep == TypeOK /\ OrderInv /\ [Next]_vars => OrderInv'
<1> SUFFICES ASSUME TypeOK, OrderInv, [Next]_vars PROVE OrderInv'
  OBVIOUS
<1>0. /\ queue \in Seq(1..MaxItems) /\ Len(queue) \in Nat /\ MaxItems \in Nat
      /\ pushes \in Nat /\ ref \in [Consumers -> 0..MaxItems]
      /\ \A i \in 1..Len(queue) : queue[i] \in 1..MaxItems
  BY OptionsAssumption, LenProperties, ElementOfSeq DEF TypeOK
<1>1. ASSUME NEW p \in Producers, PushCopy(p) \/ PushMove(p) PROVE OrderInv'
  <2>1. PICK n \in 0..Len(queue) :
          \/ queue' = Append(Dropped(queue, n), pushes + 1)
          \/ queue' = Dropped(queue, n)
    BY <1>1, PushFacts
  <2>2. pushes' = pushes + 1 /\ ref' = ref /\ pushes + 1 \in 1..MaxItems
    BY <1>1, PushFacts
  <2>3. /\ Dropped(queue, n) \in Seq(1..MaxItems)
        /\ Len(Dropped(queue, n)) = Len(queue) - n
        /\ \A i \in 1..(Len(queue) - n) : Dropped(queue, n)[i] = queue[n + i]
    BY <1>0, DroppedFacts
  <2>4. CASE queue' = Dropped(queue, n)
    BY <1>0, <2>2, <2>3, <2>4, OrderOfSuffix
  <2>5. CASE queue' = Append(Dropped(queue, n), pushes + 1)
    <3>1. /\ Len(queue') = Len(queue) - n + 1
          /\ \A i \in 1..(Len(queue) - n) : queue'[i] = queue[n + i]
          /\ queue'[Len(queue) - n + 1] = pushes + 1
      BY <1>0, <2>2, <2>3, <2>5, AppendFacts
    <3>2. \A i \in 1..(Len(queue) - n) :
            /\ n + i \in 1..Len(queue) /\ queue'[i] = queue[n + i]
            /\ queue'[i] \in Nat /\ queue'[i] <= pushes
      <4> SUFFICES ASSUME NEW i \in 1..(Len(queue) - n)
                   PROVE  /\ n + i \in 1..Len(queue) /\ queue'[i] = queue[n + i]
                          /\ queue'[i] \in Nat /\ queue'[i] <= pushes
        OBVIOUS
      <4>1. n + i \in 1..Len(queue) /\ queue'[i] = queue[n + i]
        BY <1>0, <3>1
      <4>2. queue[n + i] \in 1..MaxItems /\ queue[n + i] <= pushes
        BY <1>0, <4>1 DEF OrderInv
      <4> QED BY <4>1, <4>2
    <3>3. \A i \in 1..Len(queue') :
            i \in 1..(Len(queue) - n) \/ i = Len(queue) - n + 1
      BY <1>0, <3>1
    <3>4. \A i, j \in 1..Len(queue') : i < j => queue'[i] < queue'[j]
      <4> SUFFICES ASSUME NEW i \in 1..Len(queue'), NEW j \in 1..Len(queue'), i < j
                   PROVE  queue'[i] < queue'[j]
        OBVIOUS
      <4>1. i \in 1..(Len(queue) - n)
        BY <1>0, <3>1
      <4>2. CASE j \in 1..(Len(queue) - n)
        <5>1. /\ n + i \in 1..Len(queue) /\ n + j \in 1..Len(queue)
              /\ queue'[i] = queue[n + i] /\ queue'[j] = queue[n + j]
          BY <3>2, <4>1, <4>2
        <5>2. n + i < n + j
          BY <1>0
        <5> QED BY <5>1, <5>2 DEF OrderInv
      <4>3. CASE j = Len(queue) - n + 1
        <5>1. queue'[i] \in Nat /\ queue'[i] <= pushes
          BY <3>2, <4>1
        <5> QED BY <1>0, <3>1, <4>3, <5>1
      <4> QED BY <3>3, <4>2, <4>3
    <3>5. \A i \in 1..Len(queue') : queue'[i] <= pushes'
      <4> SUFFICES ASSUME NEW i \in 1..Len(queue') PROVE queue'[i] <= pushes'
        OBVIOUS
      <4>1. CASE i \in 1..(Len(queue) - n)
        <5>1. queue'[i] \in Nat /\ queue'[i] <= pushes
          BY <3>2, <4>1
        <5> QED BY <1>0, <2>2, <5>1
      <4>2. CASE i = Len(queue) - n + 1
        BY <1>0, <2>2, <3>1, <4>2
      <4> QED BY <3>3, <4>1, <4>2
    <3>6. \A c \in Consumers : ref'[c] \in Nat /\ ref'[c] <= pushes
      BY <1>0, <2>2 DEF OrderInv
    <3>7. \A c \in Consumers, i \in 1..Len(queue') : ref'[c] <= queue'[i]
      <4> SUFFICES ASSUME NEW c \in Consumers, NEW i \in 1..Len(queue')
                   PROVE  ref'[c] <= queue'[i]
        OBVIOUS
      <4>1. CASE i \in 1..(Len(queue) - n)
        <5>1. n + i \in 1..Len(queue) /\ queue'[i] = queue[n + i]
          BY <3>2, <4>1
        <5> QED BY <2>2, <5>1 DEF OrderInv
      <4>2. CASE i = Len(queue) - n + 1
        <5>1. ref'[c] \in Nat /\ ref'[c] <= pushes
          BY <3>6
        <5> QED BY <1>0, <3>1, <4>2, <5>1
      <4> QED BY <3>3, <4>1, <4>2
    <3> QED BY <1>0, <2>2, <3>4, <3>5, <3>6, <3>7 DEF OrderInv
  <2> QED BY <2>1, <2>4, <2>5
<1>2. ASSUME NEW p \in Producers, NotifyOne(p) PROVE OrderInv'
  BY <1>2 DEF NotifyOne, OrderInv
<1>3. ASSUME NEW c \in Consumers, Consume(c) PROVE OrderInv'
  <2>1. ASSUME queue # <<>>
        PROVE  /\ Head(queue) = queue[1] /\ Len(queue) \in Nat \ {0}
               /\ Tail(queue) \in Seq(1..MaxItems) /\ Len(Tail(queue)) = Len(queue) - 1
               /\ \A i \in 1..(Len(queue) - 1) : Tail(queue)[i] = queue[1 + i]
    BY <1>0, <2>1, TailFacts
  <2>2. ASSUME queue # <<>>, ref' = [ref EXCEPT ![c] = Head(queue)],
               queue' = queue, pushes' = pushes
        PROVE  OrderInv'
    <3>1. \A i \in 1..Len(queue) : queue[1] <= queue[i]
      BY <1>0, <2>1, <2>2 DEF OrderInv
    <3> QED BY <1>0, <2>1, <2>2, <3>1 DEF OrderInv
  <2>3. ASSUME queue' = queue, pushes' = pushes,
               ref' = ref \/ ref' = [ref EXCEPT ![c] = NoItem]
        PROVE  OrderInv'
    BY <1>0, <2>3 DEF OrderInv, NoItem
  <2>4. CASE Front(c) \/ FrontTimed(c)
    BY <2>2, <2>3, <2>4 DEF Front, FrontTimed
  <2>5. CASE FrontTimedWoken(c) \/ FrontTimedOut(c)
    BY <2>2, <2>3, <2>5 DEF FrontTimedWoken, FrontTimedOut
  <2>6. CASE PopFront(c) /\ queue = <<>>
    BY <2>3, <2>6 DEF PopFront
  <2>7. CASE PopFront(c) /\ queue # <<>>
    <3>1. /\ 1 \in 0..Len(queue) /\ pushes' = pushes
          /\ queue' = Tail(queue)
          /\ \A d \in Consumers : ref'[d] = ref[d] \/ ref'[d] = NoItem
      BY <1>0, <2>1, <2>7 DEF PopFront
    <3> QED BY <1>0, <2>1, <2>7, <3>1, OrderOfSuffix
  <2> QED BY <1>3, <2>4, <2>5, <2>6, <2>7 DEF Consume
<1>4. ASSUME NEW c \in Consumers, SpuriousWake(c) PROVE OrderInv'
  BY <1>4 DEF SpuriousWake, OrderInv
<1>5. ASSUME NEW n \in Sizes, SetMaxSize(n) PROVE OrderInv'
  BY <1>5 DEF SetMaxSize, OrderInv
<1>6. ASSUME NEW mode \in Modes, SetModeFull(mode) PROVE OrderInv'
  BY <1>6 DEF SetModeFull, OrderInv
<1>7. CASE Clear
  <2>1. Len(queue') = 0 /\ ref' = ref /\ pushes' = pushes
    BY <1>7, EmptySeq DEF Clear
  <2> QED BY <2>1 DEF OrderInv
<1>8. CASE UNCHANGED vars
  BY <1>8 DEF vars, OrderInv
<1> QED
  BY <1>1, <1>2, <1>3, <1>4, <1>5, <1>6, <1>7, <1>8 DEF Next, Produce

\* A reference returned by front() refers to the first item or to one that is
\* gone, however many consumers and modes there are.
THEOREM ReferencesAgree == Spec => []HeldIsHeadOrGone
<1>1. Init => OrderInv
  BY EmptySeq DEF Init, OrderInv, NoItem
<1>2. TypeOK /\ OrderInv => HeldIsHeadOrGone
  <2> SUFFICES ASSUME TypeOK, OrderInv, NEW c \in Consumers, ref[c] \in Items(queue)
               PROVE  ref[c] = Head(queue)
    BY DEF HeldIsHeadOrGone
  <2>1. /\ queue \in Seq(1..MaxItems) /\ Len(queue) \in Nat /\ MaxItems \in Nat
        /\ DOMAIN queue = 1..Len(queue)
        /\ \A i \in 1..Len(queue) : queue[i] \in 1..MaxItems
    BY OptionsAssumption, LenProperties, ElementOfSeq DEF TypeOK
  <2>2. PICK i \in 1..Len(queue) : ref[c] = queue[i]
    BY <2>1 DEF Items
  <2>3. queue # <<>>
    BY <2>1, <2>2, EmptySeq
  <2>4. Head(queue) = queue[1]
    BY <2>1, <2>3, TailFacts
  <2>5. i = 1
    BY <2>1, <2>2 DEF OrderInv
  <2> QED BY <2>2, <2>4, <2>5
<1> QED BY <1>1, <1>2, TypeCorrect, OrderStep, PTL DEF Spec
-----------------------------------------------------------------------------
(* The single reader of a futures queue *)

\* With one consumer, without a timeout, and a queue that drops what does not
\* fit, the item that was read is the item that is popped.
THEOREM ReaderPopsWhatItRead ==
  ASSUME NEW c \in Consumers, Consumers = {c}, TimedConsumers = {},
         Modes = {"Nothing"}, ~Clears
  PROVE  Spec => []HeldIsHead
<1> DEFINE Inv == HeldIsHead /\ pc[c] # "frontTimed"
<1>1. Init => Inv
  BY DEF Init, HeldIsHead, Threads
<1>2. TypeOK /\ Inv /\ [Next]_vars => Inv'
  <2> SUFFICES ASSUME TypeOK, Inv, [Next]_vars PROVE Inv'
    OBVIOUS
  <2>1. /\ pc \in [Threads -> {"idle", "notify", "front", "frontTimed", "holding", "pop"}]
        /\ ref \in [Consumers -> 0..MaxItems] /\ c \in Threads /\ c \notin Producers
        /\ Producers \subseteq Threads
        /\ queue \in Seq(1..MaxItems) /\ Len(queue) \in Nat
    BY ThreadsAssumption, LenProperties DEF TypeOK, Threads
  <2>2. ASSUME NEW p \in Producers, PushCopy(p) \/ PushMove(p) PROVE Inv'
    <3>1. /\ ref' = ref /\ pc'[c] = pc[c] /\ pushes + 1 \in 1..MaxItems
      BY <2>1, <2>2, PushFacts
    <3>2. queue' = queue \/ queue' = Append(queue, pushes + 1)
      BY <2>2 DEF TypeOK, PushCopy, PushMove, Push, WhenFull
    <3>3. queue # <<>> => queue' # <<>> /\ Head(queue') = Head(queue)
      <4>1. CASE queue # <<>> /\ queue' = Append(queue, pushes + 1)
        <5>1. /\ queue' \in Seq(1..MaxItems) /\ Len(queue') = Len(queue) + 1
              /\ Len(queue) \in Nat \ {0} /\ queue'[1] = queue[1]
          BY <2>1, <3>1, <4>1, AppendFacts, TailFacts
        <5>2. queue' # <<>>
          BY <5>1, EmptySeq
        <5> QED BY <2>1, <4>1, <5>1, <5>2, TailFacts
      <4> QED BY <3>2, <4>1
    <3> QED BY <3>1, <3>3 DEF HeldIsHead
  <2>3. ASSUME NEW p \in Producers, NotifyOne(p) PROVE Inv'
    BY <2>1, <2>3 DEF NotifyOne, HeldIsHead
  <2>4. CASE Consume(c)
    BY <2>1, <2>4
       DEF Consume, Front, FrontTimed, FrontTimedWoken, FrontTimedOut, PopFront, HeldIsHead
  <2>5. CASE SpuriousWake(c)
    BY <2>5 DEF SpuriousWake, HeldIsHead
  <2>6. CASE \E n \in Sizes : SetMaxSize(n)
    BY <2>6 DEF SetMaxSize, HeldIsHead
  <2>7. CASE \E mode \in Modes : SetModeFull(mode)
    BY <2>7 DEF SetModeFull, HeldIsHead
  <2>8. CASE UNCHANGED vars
    BY <2>8 DEF vars, HeldIsHead
  <2> QED BY <2>2, <2>3, <2>4, <2>5, <2>6, <2>7, <2>8 DEF Next, Produce, Clear
<1> QED BY <1>1, <1>2, TypeCorrect, PTL DEF Spec
-----------------------------------------------------------------------------
(* The limit *)

\* A push leaves at most one item more than a limit that is in force.
LEMMA PushWithinMax ==
  ASSUME TypeOK, NEW t \in Producers, PushCopy(t) \/ PushMove(t),
         Len(queue') > Len(queue), maxSize > 0, modeFull' = modeFull
  PROVE  Len(queue') <= maxSize + 1
<1>1. PICK full \in BOOLEAN, mode \in Modes :
        /\ Push(t, full, mode)
        /\ full => maxSize <= Len(queue)
        /\ ~full => Len(queue) <= maxSize
  <2>1. maxSize \in Nat /\ Len(queue) \in Nat
    BY OptionsAssumption, LenProperties DEF TypeOK
  <2>2. /\ FullForCopy => maxSize <= Len(queue)
        /\ FullForMove => maxSize <= Len(queue)
        /\ ~FullForCopy => Len(queue) <= maxSize
        /\ ~FullForMove => Len(queue) <= maxSize
    BY <2>1 DEF FullForCopy, FullForMove
  <2>3. FullForCopy \in BOOLEAN /\ FullForMove \in BOOLEAN
    BY DEF FullForCopy, FullForMove
  <2> QED BY <2>2, <2>3 DEF PushCopy, PushMove
<1>2. /\ queue \in Seq(1..MaxItems) /\ Len(queue) \in Nat /\ maxSize \in Nat
      /\ pushes + 1 \in 1..MaxItems /\ mode = modeFull /\ mode \in {"Nothing", "PopOld"}
  BY <1>1, OptionsAssumption, LenProperties DEF Push, TypeOK
<1>3. CASE full /\ mode = "Nothing"
  <2>1. queue' = queue
    BY <1>1, <1>2, <1>3 DEF Push, WhenFull
  <2> QED BY <1>2, <2>1
<1>4. CASE full /\ mode = "PopOld"
  <2>1. Len(queue) - maxSize + 1 \in 0..Len(queue)
    BY <1>1, <1>2, <1>4
  <2>2. queue' = Append(Dropped(queue, Len(queue) - maxSize + 1), pushes + 1)
    BY <1>1, <1>2, <1>4 DEF Push, WhenFull
  <2>3. /\ Dropped(queue, Len(queue) - maxSize + 1) \in Seq(1..MaxItems)
        /\ Len(Dropped(queue, Len(queue) - maxSize + 1)) =
             Len(queue) - (Len(queue) - maxSize + 1)
    BY <1>2, <2>1, DroppedFacts
  <2>4. Len(queue') = Len(queue) - (Len(queue) - maxSize + 1) + 1
    BY <1>2, <2>2, <2>3, AppendFacts
  <2> QED BY <1>2, <2>4
<1>5. CASE ~full
  <2>1. queue' = Append(queue, pushes + 1)
    BY <1>1, <1>5 DEF Push
  <2>2. Len(queue') = Len(queue) + 1
    BY <1>2, <2>1, AppendFacts
  <2> QED BY <1>1, <1>2, <1>5, <2>2
<1> QED BY <1>2, <1>3, <1>4, <1>5

\* The deque never grows beyond one item more than a limit that is in force,
\* whichever pushes are mixed and however the limit changes.
THEOREM LimitHolds == Spec => GrowsWithinMax
<1>1. ASSUME TypeOK, [Next]_vars
      PROVE  [Len(queue') > Len(queue) /\ maxSize > 0 /\ modeFull' = modeFull
                => Len(queue') <= maxSize + 1]_vars
  <2> SUFFICES ASSUME Next, Len(queue') > Len(queue), maxSize > 0, modeFull' = modeFull
               PROVE  Len(queue') <= maxSize + 1
    BY <1>1
  <2>1. queue \in Seq(1..MaxItems) /\ Len(queue) \in Nat
    BY <1>1, LenProperties DEF TypeOK
  <2>2. queue' # queue
    BY <2>1
  <2>3. ~Clear
    <3>1. Len(<< >>) = 0
      BY EmptySeq
    <3> QED BY <2>1, <3>1 DEF Clear
  <2>4. ASSUME NEW c \in Consumers, Consume(c) \/ SpuriousWake(c) PROVE FALSE
    <3>1. CASE PopFront(c)
      <4>1. queue # << >> /\ queue' = Tail(queue)
        BY <2>2, <3>1 DEF PopFront
      <4>2. Len(queue') = Len(queue) - 1
        BY <2>1, <4>1, TailFacts
      <4> QED BY <2>1, <4>2
    <3> QED BY <2>2, <2>4, <3>1
            DEF Consume, SpuriousWake, Front, FrontTimed, FrontTimedWoken, FrontTimedOut
  <2>5. PICK p \in Producers : PushCopy(p) \/ PushMove(p)
    BY <2>2, <2>3, <2>4 DEF Next, Produce, NotifyOne, SetMaxSize, SetModeFull
  <2> QED BY <1>1, <2>5, PushWithinMax
<1>2. TypeOK /\ [Next]_vars
        => [Len(queue') > Len(queue) /\ maxSize > 0 /\ modeFull' = modeFull
              => Len(queue') <= maxSize + 1]_vars
  BY <1>1
<1> QED BY <1>2, TypeInit, TypeStep, PTL DEF Spec, GrowsWithinMax
=============================================================================
