---------------------------- MODULE SharedQueue ----------------------------
(* rf::SharedQueue<T> (Core/SharedQueue.h): a deque guarded by one mutex,   *)
(* with one condition variable on which readers wait while it is empty.     *)
(*                                                                          *)
(* A critical section is one action.  A thread that waits on the condition  *)
(* is in sleeping; a thread that was woken has left sleeping and has its    *)
(* next look at the deque ahead of it.  push_back notifies after it         *)
(* unlocked, so the notification is a step of its own.                      *)
EXTENDS Integers, Sequences, FiniteSets

CONSTANTS
  Producers,       \* threads that push
  Consumers,       \* threads that loop over front() and pop_front()
  TimedConsumers,  \* the consumers that call front(timeout) instead of front()
  Sizes,           \* the values setMaxSize is called with; 0 is "unlimited"
  Modes,           \* the values setModeFull is called with
  Clears,          \* whether anyone calls clear()
  MaxItems         \* bound: number of pushes explored

Threads == Producers \cup Consumers

ASSUME ThreadsAssumption ==
  /\ IsFiniteSet(Producers) /\ IsFiniteSet(Consumers)
  /\ Producers \cap Consumers = {}
  /\ TimedConsumers \subseteq Consumers

ASSUME OptionsAssumption ==
  /\ Sizes \subseteq Nat /\ Modes \subseteq {"Nothing", "PopOld"}
  /\ Clears \in BOOLEAN /\ MaxItems \in Nat

NoItem == 0

VARIABLES
  queue,     \* queue_: the items held, an item is the number of its push
  maxSize,
  modeFull,
  pc,        \* what each thread does: a call it is in, or "idle"
  sleeping,  \* threads blocked in cond_.wait / cond_.wait_for
  ref,       \* the item to which a consumer holds the reference front() returned
  pushes,    \* pushes made so far: the next item is pushes + 1
  missed,    \* ghost: items left by readers that were notified and timed out
  spurious   \* ghost: consumers that woke, and were not notified

vars == <<queue, maxSize, modeFull, pc, sleeping, ref, pushes, missed, spurious>>

Init ==
  /\ queue = <<>>
  /\ maxSize \in Sizes
  /\ modeFull \in Modes
  /\ pc = [t \in Threads |-> "idle"]
  /\ sleeping = {}
  /\ ref = [c \in Consumers |-> NoItem]
  /\ pushes = 0 /\ missed = 0 /\ spurious = {}

Items(q) == {q[i] : i \in DOMAIN q}

\* The suffix of q after n pops.
Dropped(q, n) == SubSeq(q, n + 1, Len(q))

\* WhenFull: PopOld pops until the deque is shorter than maxSize.
WhenFull(q, mode) ==
  IF mode = "PopOld" /\ Len(q) >= maxSize
  THEN Dropped(q, Len(q) - maxSize + 1)
  ELSE q

\* Mutant: notifies only when the deque was empty.
PushNotifiesFirst(t, full, mode) ==
  /\ pc[t] = "idle" /\ pushes < MaxItems
  /\ pushes' = pushes + 1
  /\ ~full /\ mode = modeFull
  /\ queue' = Append(queue, pushes + 1)
  /\ pc' = IF queue = <<>> THEN [pc EXCEPT ![t] = "notify"] ELSE pc
  /\ UNCHANGED <<maxSize, modeFull, sleeping, ref, missed, spurious>>

\* The body of the three push operations; they differ in the test for "full".
\* The mode is read twice, in WhenFull and after it, and setModeFull takes no
\* lock: mode is the one found by the second read.
Push(t, full, mode) ==
  /\ pc[t] = "idle" /\ pushes < MaxItems
  /\ pushes' = pushes + 1
  /\ modeFull' = mode
  /\ \/ /\ full /\ mode = "Nothing"
        /\ queue' = WhenFull(queue, modeFull)
        /\ UNCHANGED pc
     \/ /\ full /\ mode # "Nothing"
        /\ queue' = Append(WhenFull(queue, modeFull), pushes + 1)
        /\ pc' = [pc EXCEPT ![t] = "notify"]
     \/ /\ ~full /\ mode = modeFull
        /\ queue' = Append(queue, pushes + 1)
        /\ pc' = [pc EXCEPT ![t] = "notify"]
  /\ UNCHANGED <<maxSize, sleeping, ref, missed, spurious>>

FullForCopy == maxSize > 0 /\ maxSize <= Len(queue)

\* Mutant: one more than the code's one too many.
FullForMoveLate == maxSize > 0 /\ maxSize + 1 < Len(queue)

FullForMove == maxSize > 0 /\ maxSize < Len(queue)

PushCopy(t) == \E mode \in Modes : Push(t, FullForCopy, mode)

\* Mutant: emplace_front in place of emplace_back.
PushMoveInFront(t) ==
  /\ pc[t] = "idle" /\ pushes < MaxItems /\ ~FullForMove
  /\ pushes' = pushes + 1
  /\ queue' = <<pushes + 1>> \o queue
  /\ pc' = [pc EXCEPT ![t] = "notify"]
  /\ UNCHANGED <<maxSize, modeFull, sleeping, ref, missed, spurious>>

\* push_back(T&&) and emplace_back(T&&)
PushMove(t) == \E mode \in Modes : Push(t, FullForMove, mode)

\* Mutant: the notification is forgotten.
NotifyNobody(t) ==
  /\ pc[t] = "notify"
  /\ pc' = [pc EXCEPT ![t] = "idle"]
  /\ UNCHANGED <<queue, maxSize, modeFull, sleeping, ref, pushes, missed, spurious>>

\* cond_.notify_one() after the unlock: one sleeper, if any, is woken.
NotifyOne(t) ==
  /\ pc[t] = "notify"
  /\ pc' = [pc EXCEPT ![t] = "idle"]
  /\ \/ \E s \in sleeping : sleeping' = sleeping \ {s}
     \/ sleeping = {} /\ UNCHANGED sleeping
  /\ UNCHANGED <<queue, maxSize, modeFull, ref, pushes, missed, spurious>>

\* front(): looks at the deque, sleeps while it is empty, and returns a
\* reference that outlives the lock.
Front(c) ==
  /\ c \notin TimedConsumers
  /\ pc[c] \in {"idle", "front"} /\ c \notin sleeping
  /\ \/ /\ queue = <<>>
        /\ sleeping' = sleeping \cup {c}
        /\ pc' = [pc EXCEPT ![c] = "front"]
        /\ UNCHANGED ref
     \/ /\ queue # <<>>
        /\ ref' = [ref EXCEPT ![c] = Head(queue)]
        /\ pc' = [pc EXCEPT ![c] = "holding"]
        /\ UNCHANGED sleeping
  /\ spurious' = spurious \ {c}
  /\ UNCHANGED <<queue, maxSize, modeFull, pushes, missed>>

\* front(timeout), the call: one look, then at most one wait.
FrontTimed(c) ==
  /\ c \in TimedConsumers
  /\ pc[c] = "idle"
  /\ \/ /\ queue = <<>>
        /\ sleeping' = sleeping \cup {c}
        /\ pc' = [pc EXCEPT ![c] = "frontTimed"]
        /\ UNCHANGED ref
     \/ /\ queue # <<>>
        /\ ref' = [ref EXCEPT ![c] = Head(queue)]
        /\ pc' = [pc EXCEPT ![c] = "holding"]
        /\ UNCHANGED sleeping
  /\ spurious' = spurious \ {c}
  /\ UNCHANGED <<queue, maxSize, modeFull, pushes, missed>>

\* front(timeout), the wait ended without a timeout: the deque is read with no
\* second look at empty(), so the reference may be to nothing.
FrontTimedWoken(c) ==
  /\ pc[c] = "frontTimed" /\ c \notin sleeping
  /\ ref' = [ref EXCEPT ![c] = IF queue = <<>> THEN NoItem ELSE Head(queue)]
  /\ pc' = [pc EXCEPT ![c] = "holding"]
  /\ spurious' = spurious \ {c}
  /\ UNCHANGED <<queue, maxSize, modeFull, sleeping, pushes, missed>>

\* front(timeout), wait_for reported a timeout and the call threw.  wait_for
\* compares the clock with the deadline when it is back, so a thread that was
\* notified may report one as well.
FrontTimedOut(c) ==
  /\ pc[c] = "frontTimed"
  /\ sleeping' = sleeping \ {c}
  /\ pc' = [pc EXCEPT ![c] = "idle"]
  /\ missed' = IF c \in sleeping \cup spurious \/ Len(queue) <= missed
               THEN missed ELSE missed + 1
  /\ spurious' = spurious \ {c}
  /\ UNCHANGED <<queue, maxSize, modeFull, ref, pushes>>

\* pop_front(): by a consumer that is done with the item it read.
PopFront(c) ==
  /\ pc[c] \in {"holding", "pop"} /\ c \notin sleeping
  /\ \/ /\ queue = <<>>
        /\ sleeping' = sleeping \cup {c}
        /\ pc' = [pc EXCEPT ![c] = "pop"]
        /\ UNCHANGED queue
     \/ /\ queue # <<>>
        /\ queue' = Tail(queue)
        /\ pc' = [pc EXCEPT ![c] = "idle"]
        /\ UNCHANGED sleeping
  /\ ref' = [ref EXCEPT ![c] = NoItem]
  /\ spurious' = spurious \ {c}
  /\ UNCHANGED <<maxSize, modeFull, pushes, missed>>

\* A condition variable may wake a waiter nobody notified.
SpuriousWake(c) ==
  /\ c \in sleeping
  /\ sleeping' = sleeping \ {c}
  /\ spurious' = spurious \cup {c}
  /\ UNCHANGED <<queue, maxSize, modeFull, pc, ref, pushes, missed>>

\* Mutant: the limit is stored less one, and 0 wraps.
SetMaxSizeLessOne(n) ==
  /\ maxSize' = n - 1
  /\ UNCHANGED <<queue, modeFull, pc, sleeping, ref, pushes, missed, spurious>>

SetMaxSize(n) ==
  /\ maxSize' = n
  /\ UNCHANGED <<queue, modeFull, pc, sleeping, ref, pushes, missed, spurious>>

SetModeFull(mode) ==
  /\ modeFull' = mode
  /\ UNCHANGED <<queue, maxSize, pc, sleeping, ref, pushes, missed, spurious>>

Clear ==
  /\ Clears
  /\ queue' = <<>>
  /\ UNCHANGED <<maxSize, modeFull, pc, sleeping, ref, pushes, missed, spurious>>

Produce(p) == PushCopy(p) \/ PushMove(p) \/ NotifyOne(p)

Consume(c) ==
  \/ Front(c) \/ FrontTimed(c) \/ FrontTimedWoken(c) \/ FrontTimedOut(c)
  \/ PopFront(c)

Next ==
  \/ \E p \in Producers : Produce(p)
  \/ \E c \in Consumers : Consume(c) \/ SpuriousWake(c)
  \/ \E n \in Sizes : SetMaxSize(n)
  \/ \E mode \in Modes : SetModeFull(mode)
  \/ Clear

Spec == Init /\ [][Next]_vars

\* A push that has begun ends, a consumer that can run does, and wait_for comes
\* back.  No fairness on pushing, spurious wakeups or the setters.
Fairness ==
  /\ \A p \in Producers : WF_vars(NotifyOne(p))
  /\ \A c \in Consumers :
       /\ WF_vars(Front(c)) /\ WF_vars(PopFront(c))
       /\ WF_vars(FrontTimedWoken(c) \/ FrontTimedOut(c))

FairSpec == Spec /\ Fairness
-----------------------------------------------------------------------------
\* The values the variables range over.
TypeOK ==
  /\ queue \in Seq(1..MaxItems)
  /\ maxSize \in Sizes
  /\ modeFull \in Modes
  /\ pc \in [Threads -> {"idle", "notify", "front", "frontTimed", "holding", "pop"}]
  /\ sleeping \subseteq Consumers
  /\ ref \in [Consumers -> 0..MaxItems]
  /\ pushes \in 0..MaxItems /\ missed \in Nat /\ spurious \subseteq Consumers

\* Threads in the middle of a call that are not asleep, and are there because of
\* an item.
Awake == {t \in Threads \ (sleeping \cup spurious) : pc[t] # "idle"}

\* No wakeup is lost although notify_one comes after the unlock and wakes any
\* one waiter: while somebody sleeps, every item in the deque has a thread of
\* its own that is about to notify or to take one, or was left by a reader that
\* was notified and reported a timeout all the same.
NoLostWakeup == sleeping # {} => Len(queue) <= Cardinality(Awake) + missed

\* The reference front() returned outlives the lock, but what it refers to is
\* never an item further down: it is still the first, or it is gone.
HeldIsHeadOrGone ==
  \A c \in Consumers : ref[c] \in Items(queue) => ref[c] = Head(queue)

\* A single reader of a queue that drops what does not fit (the futures queues
\* of the publisher and of the actors): the item it holds is the one its
\* pop_front() removes.
HeldIsHead ==
  \A c \in Consumers :
    pc[c] = "holding" => queue # <<>> /\ ref[c] = Head(queue)

\* front(timeout) never returns a reference into an empty deque.
TimedFrontHasItem ==
  [][\A c \in Consumers : FrontTimedWoken(c) => ref'[c] # NoItem]_vars

\* A push leaves at most maxSize items, one more for the moving overloads,
\* whatever setMaxSize did before, unless the deque shrinks or stays, or the
\* mode changes between the two reads of it.
GrowsWithinMax ==
  [][/\ Len(queue') > Len(queue) /\ maxSize > 0 /\ modeFull' = modeFull
     => Len(queue') <= maxSize + 1]_vars

\* Every item that was pushed leaves the queue; only a reader that times out
\* with the notification in its hands can leave one behind.
ItemsConsumed ==
  \A i \in 1..MaxItems : (i \in Items(queue)) ~> (i \notin Items(queue) \/ missed > 0)
=============================================================================
