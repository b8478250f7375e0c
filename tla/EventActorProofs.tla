-------------------------- MODULE EventActorProofs --------------------------
(* The safety of EventActor for any number of senders, messages and queue   *)
(* sizes: every unfinished task has its future where WaitForTasks() will    *)
(* wait for it, so that a destroyed actor has none.                         *)
EXTENDS EventActor, QueueLemmas

\* What is left of the queue when the futures at its head were popped.
LEMMA ItemsOfDropped ==
  ASSUME NEW S, NEW q \in Seq(S), NEW n \in 0..Len(q)
  PROVE  /\ Dropped(q, n) \in Seq(S) /\ Len(Dropped(q, n)) = Len(q) - n
         /\ Items(q) = {q[i] : i \in 1..n} \cup Items(Dropped(q, n))
<1>1. Dropped(q, n) = Suffix(q, n)
  BY DEF Dropped, Suffix
<1>2. Items(q) = Elements(q) /\ Items(Suffix(q, n)) = Elements(Suffix(q, n))
  BY DEF Items, Elements
<1> QED BY <1>1, <1>2, RangeOfSuffix

\* What the queue holds when a future was appended.
LEMMA ItemsOfAppend ==
  ASSUME NEW S, NEW q \in Seq(S), NEW x \in S
  PROVE  /\ Append(q, x) \in Seq(S) /\ Len(Append(q, x)) = Len(q) + 1
         /\ Items(Append(q, x)) = Items(q) \cup {x}
BY RangeOfAppend DEF Items, Elements
-----------------------------------------------------------------------------
(* Type correctness *)

\* A thread holds a future between starting the task and handing it over.
HeldByReceiver ==
  \A t \in Threads : pc[t] \in {"emplace", "destroyFuture"} <=> held[t] \in Tasks

TypeInv == TypeOK /\ HeldByReceiver

\* Every state is well typed, and what a thread appends to the queue is a task.
LEMMA TypeStep == TypeInv /\ [Next]_vars => TypeInv'
<1> SUFFICES ASSUME TypeInv, [Next]_vars PROVE TypeInv'
  OBVIOUS
<1>0. NoTask \notin Tasks /\ Tasks \subseteq Nat
  BY OptionsAssumption DEF NoTask, Tasks
<1> USE <1>0, OptionsAssumption
    DEF TypeInv, TypeOK, HeldByReceiver, Goto, Rest, Threads, settings
<1>1. ASSUME NEW t \in Threads, Receive(t) PROVE TypeInv'
  BY <1>1 DEF Receive
<1>2. ASSUME NEW t \in Threads, Continue(t) PROVE TypeInv'
  <2>1. CASE ReadMode(t)
    BY <2>1 DEF ReadMode
  <2>2. CASE EnterAsync(t)
    <3>1. PICK n \in 0..Len(futures) :
            futures' = Dropped(futures, n) /\ (Skip(t, n) \/ Start(t, n))
      BY <2>2 DEF EnterAsync
    <3>2. futures' \in Seq(Tasks)
      BY <3>1, ItemsOfDropped
    <3>3. CASE Skip(t, n)
      BY <2>2, <3>2, <3>3 DEF EnterAsync, Skip
    <3>4. CASE Start(t, n)
      BY <2>2, <3>2, <3>4 DEF EnterAsync, Start
    <3> QED BY <3>1, <3>3, <3>4
  <2>3. CASE Emplace(t)
    <3>1. held[t] \in Tasks
      BY <2>3 DEF Emplace
    <3>2. futures' \in Seq(Tasks)
      BY <2>3, <3>1, ItemsOfAppend DEF Emplace
    <3> QED BY <2>3, <3>1, <3>2 DEF Emplace
  <2>4. CASE DestroyFuture(t)
    BY <2>4 DEF DestroyFuture
  <2>5. CASE EnterSync(t) \/ LeaveSync(t)
    BY <2>5 DEF EnterSync, LeaveSync
  <2> QED BY <1>2, <2>1, <2>2, <2>3, <2>4, <2>5 DEF Continue
<1>3. ASSUME NEW m \in Tasks, TaskEnds(m) PROVE TypeInv'
  BY <1>3 DEF TaskEnds
<1>4. CASE Configure
  BY <1>4 DEF Configure, Activate, Deactivate, SetProperties
<1>5. CASE Destroy
  BY <1>5 DEF Destroy
<1>6. CASE WaitForTasksLock
  BY <1>6 DEF WaitForTasksLock
<1>7. CASE WaitForTasksRound
  <2>1. futures' \in Seq(Tasks)
    BY <1>7, ItemsOfDropped DEF WaitForTasksRound
  <2> QED BY <1>7, <2>1 DEF WaitForTasksRound
<1>8. CASE UNCHANGED vars
  BY <1>8 DEF vars
<1> QED
  BY <1>1, <1>2, <1>3, <1>4, <1>5, <1>6, <1>7, <1>8 DEF Next, WaitForTasks

\* The actor starts with an empty queue and no task.
LEMMA TypeInit == Init => TypeInv
BY OptionsAssumption, EmptySeq
   DEF Init, TypeInv, TypeOK, HeldByReceiver, NoTask, Tasks, Threads

\* Every state of the actor is well typed.
THEOREM TypeCorrect == Spec => []TypeOK
<1>1. TypeInv => TypeOK
  BY DEF TypeInv
<1> QED BY <1>1, TypeInit, TypeStep, PTL DEF Spec
-----------------------------------------------------------------------------
(* No task escapes *)

\* The holders of onInputTask.
LockOwner ==
  /\ \A t \in Threads :
       pc[t] \in {"emplace", "destroyFuture", "process"} <=> lock = t
  /\ owner = "drain" <=> lock = Owner

TaskInv == LockOwner /\ TasksTracked

\* SanitizeQueue drops no task that still runs.
LEMMA SanitizeKeepsUnfinished ==
  ASSUME TypeInv, NEW n \in 0..Len(futures), ReadyHeads(n)
  PROVE  \A m \in Unfinished :
           m \in Items(futures) => m \in Items(Dropped(futures, n))
<1>1. futures \in Seq(Tasks)
  BY DEF TypeInv, TypeOK
<1>2. Items(futures) =
        {futures[i] : i \in 1..n} \cup Items(Dropped(futures, n))
  BY <1>1, ItemsOfDropped
<1>3. \A m \in {futures[i] : i \in 1..n} : pc[m] = "done"
  BY DEF ReadyHeads
<1> QED BY <1>2, <1>3 DEF Unfinished

\* A task that was started is tracked until it has ended, whatever step is
\* taken.
LEMMA TaskStep == TypeInv /\ TaskInv /\ [Next]_vars => TaskInv'
<1> SUFFICES ASSUME TypeInv, TaskInv, [Next]_vars PROVE TaskInv'
  OBVIOUS
<1>0. /\ NoTask \notin Tasks /\ Tasks \subseteq Threads
      /\ Owner \notin Threads /\ Free \notin Threads /\ Owner # Free
      /\ Senders \subseteq Threads /\ Senders \cap Tasks = {}
      /\ futures \in Seq(Tasks)
      /\ pc \in [Threads -> {"idle", "none", "mode", "async", "sync", "emplace",
                             "destroyFuture", "process", "running", "done"}]
      /\ held \in [Threads -> Tasks \cup {NoTask}]
      /\ lock \in Threads \cup {Owner, Free}
      /\ HeldByReceiver
  BY ThreadsAssumption, OptionsAssumption DEF NoTask, Tasks, Threads, TypeInv, TypeOK
<1>00. \A t \in Threads : Rest(t) \in {"idle", "running"}
  BY DEF Rest
<1> USE <1>0, <1>00
    DEF TaskInv, LockOwner, TasksTracked, Unfinished, HeldByReceiver, Goto, settings
<1>1. ASSUME NEW t \in Threads, Receive(t) PROVE TaskInv'
  BY <1>1 DEF Receive
<1>2. ASSUME NEW t \in Threads, Continue(t) PROVE TaskInv'
  <2>1. CASE ReadMode(t)
    BY <2>1 DEF ReadMode
  <2>2. CASE EnterAsync(t)
    <3>1. PICK n \in 0..Len(futures) :
            /\ ReadyHeads(n) /\ futures' = Dropped(futures, n)
            /\ Skip(t, n) \/ Start(t, n)
      BY <2>2 DEF EnterAsync
    <3>2. \A m \in Unfinished : m \in Items(futures')
      <4>1. \A m \in Unfinished : m \in Items(futures)
        BY <2>2 DEF EnterAsync
      <4> QED BY <3>1, <4>1, SanitizeKeepsUnfinished
    <3>3. CASE Skip(t, n)
      BY <2>2, <3>2, <3>3 DEF EnterAsync, Skip
    <3>4. CASE Start(t, n)
      BY <2>2, <3>2, <3>4 DEF EnterAsync, Start
    <3> QED BY <3>1, <3>3, <3>4
  <2>3. CASE Emplace(t)
    <3>1. held[t] \in Tasks /\ lock = t
      BY <2>3 DEF Emplace
    <3>2. CASE futures' = futures /\ pc' = [pc EXCEPT ![t] = "destroyFuture"]
               /\ held' = held /\ lock' = lock
      BY <2>3, <3>1, <3>2 DEF Emplace
    <3>3. CASE /\ futures' = Append(futures, held[t])
               /\ held' = [held EXCEPT ![t] = NoTask]
               /\ lock' = Free /\ pc' = [pc EXCEPT ![t] = Rest(t)]
      <4>1. Items(futures') = Items(futures) \cup {held[t]}
        BY <3>1, <3>3, ItemsOfAppend
      <4> QED BY <2>3, <3>1, <3>3, <4>1 DEF Emplace
    <3> QED BY <2>3, <3>2, <3>3 DEF Emplace
  <2>4. CASE DestroyFuture(t)
    BY <2>4 DEF DestroyFuture
  <2>5. CASE EnterSync(t)
    BY <2>5 DEF EnterSync
  <2>6. CASE LeaveSync(t)
    BY <2>6 DEF LeaveSync
  <2> QED BY <1>2, <2>1, <2>2, <2>3, <2>4, <2>5, <2>6 DEF Continue
<1>3. ASSUME NEW m \in Tasks, TaskEnds(m) PROVE TaskInv'
  BY <1>3 DEF TaskEnds
<1>4. CASE Configure
  BY <1>4 DEF Configure, Activate, Deactivate, SetProperties
<1>5. CASE Destroy
  BY <1>5 DEF Destroy
<1>6. CASE WaitForTasksLock
  BY <1>6 DEF WaitForTasksLock
<1>7. CASE WaitForTasksRound
  <2>1. PICK n \in 0..Len(futures) :
          ReadyHeads(n) /\ futures' = Dropped(futures, n)
    BY <1>7 DEF WaitForTasksRound
  <2>2. \A m \in Unfinished : m \in Items(futures')
    BY <1>7, <2>1, SanitizeKeepsUnfinished DEF WaitForTasksRound
  <2> QED BY <1>7, <2>2 DEF WaitForTasksRound
<1>8. CASE UNCHANGED vars
  BY <1>8 DEF vars
<1> QED
  BY <1>1, <1>2, <1>3, <1>4, <1>5, <1>6, <1>7, <1>8 DEF Next, WaitForTasks

\* At first there is no task and nobody holds the lock.
LEMMA TaskInit == Init => TaskInv
BY ThreadsAssumption
   DEF Init, TaskInv, LockOwner, TasksTracked, Unfinished, Threads

\* No task escapes, however many senders there are and however the settings
\* change: an unfinished task's future is in the queue or with the thread that
\* holds onInputTask.
THEOREM NoTaskEscapes == Spec => []TasksTracked
<1>1. TaskInv => TasksTracked
  BY DEF TaskInv
<1> QED BY <1>1, TypeInit, TypeStep, TaskInit, TaskStep, PTL DEF Spec
-----------------------------------------------------------------------------
(* The limit *)

\* The futures in the queue, and the one that is being put there.
Taken == Len(futures) + (IF lock \in Threads /\ held[lock] \in Tasks THEN 1 ELSE 0)

TakenBounded == \E n \in Sizes : Taken <= n

\* However the limit changes, no more futures are taken than some limit allows.
LEMMA TakenStep ==
  TypeInv /\ TaskInv /\ TakenBounded /\ [Next]_vars => TakenBounded'
<1> SUFFICES ASSUME TypeInv, TaskInv, TakenBounded, [Next]_vars
             PROVE  TakenBounded'
  OBVIOUS
<1>1. /\ futures \in Seq(Tasks) /\ Len(futures) \in Nat /\ NoTask \notin Tasks
      /\ maxSize \in Sizes /\ Sizes \subseteq Nat
      /\ held \in [Threads -> Tasks \cup {NoTask}]
      /\ \A t \in Threads : pc[t] \in {"emplace", "destroyFuture"} <=> held[t] \in Tasks
      /\ \A t \in Threads :
           pc[t] \in {"emplace", "destroyFuture", "process"} <=> lock = t
      /\ Owner \notin Threads /\ Free \notin Threads
  BY ThreadsAssumption, OptionsAssumption, LenProperties
     DEF TypeInv, TypeOK, HeldByReceiver, TaskInv, LockOwner, NoTask, Tasks
<1>2. PICK n \in Sizes : Taken <= n
  BY DEF TakenBounded
<1>3. Taken \in Nat
  BY <1>1 DEF Taken
<1>4. SUFFICES Taken' <= n \/ Taken' <= maxSize
  BY <1>1 DEF TakenBounded
<1>5. ASSUME futures' = futures, held' = held, lock' = lock PROVE Taken' <= n
  BY <1>2, <1>5 DEF Taken
<1>6. ASSUME NEW k \in 0..Len(futures), futures' = Dropped(futures, k)
      PROVE  Len(futures') \in Nat /\ Len(futures') <= Len(futures)
  BY <1>1, <1>6, ItemsOfDropped
<1>7. ASSUME NEW t \in Threads, Continue(t) PROVE Taken' <= n \/ Taken' <= maxSize
  <2>1. CASE ReadMode(t)
    BY <1>5, <2>1 DEF ReadMode
  <2>2. CASE EnterAsync(t)
    <3>1. PICK k \in 0..Len(futures) :
            futures' = Dropped(futures, k) /\ (Skip(t, k) \/ Start(t, k))
      BY <2>2 DEF EnterAsync
    <3>2. Len(futures') \in Nat /\ Len(futures') <= Len(futures)
      BY <1>6, <3>1
    <3>3. CASE Skip(t, k)
      BY <1>1, <1>2, <3>2, <3>3 DEF Skip, Taken
    <3>4. CASE Start(t, k)
      <4>1. ~(maxSize <= Len(futures'))
        BY <3>1, <3>4 DEF Start, IsFull
      <4>2. Taken' \in Nat /\ Taken' <= Len(futures') + 1
        BY <3>2 DEF Taken
      <4> QED BY <1>1, <3>2, <4>1, <4>2
    <3> QED BY <3>1, <3>3, <3>4
  <2>3. CASE Emplace(t)
    <3>1. held[t] \in Tasks /\ lock = t
      BY <1>1, <2>3 DEF Emplace
    <3>2. CASE UNCHANGED <<futures, held, lock>>
      BY <1>5, <3>2
    <3>3. CASE futures' = Append(futures, held[t]) /\ lock' = Free
      <4>1. Len(futures') = Len(futures) + 1
        BY <1>1, <3>1, <3>3, ItemsOfAppend
      <4> QED BY <1>1, <1>2, <3>1, <3>3, <4>1 DEF Taken
    <3> QED BY <2>3, <3>2, <3>3 DEF Emplace
  <2>4. CASE DestroyFuture(t) \/ LeaveSync(t)
    <3>1. futures' = futures /\ lock' = Free
      BY <2>4 DEF DestroyFuture, LeaveSync
    <3> QED BY <1>1, <1>2, <3>1 DEF Taken
  <2>5. CASE EnterSync(t)
    <3>1. futures' = futures /\ lock' = t /\ held' = held /\ held[t] \notin Tasks
      BY <1>1, <2>5 DEF EnterSync
    <3> QED BY <1>1, <1>2, <3>1 DEF Taken
  <2> QED BY <1>7, <2>1, <2>2, <2>3, <2>4, <2>5 DEF Continue
<1>8. CASE WaitForTasksRound
  <2>1. Len(futures') \in Nat /\ Len(futures') <= Len(futures)
    BY <1>6, <1>8 DEF WaitForTasksRound
  <2>2. held' = held /\ lock' \in {lock, Free}
    BY <1>8 DEF WaitForTasksRound
  <2> QED BY <1>1, <1>2, <2>1, <2>2 DEF Taken
<1>9. CASE WaitForTasksLock
  <2>1. futures' = futures /\ held' = held /\ lock' = Owner
    BY <1>9 DEF WaitForTasksLock
  <2> QED BY <1>1, <1>2, <2>1 DEF Taken
<1>10. CASE Configure \/ Destroy \/ UNCHANGED vars
  BY <1>5, <1>10 DEF Configure, Activate, Deactivate, SetProperties, Destroy, vars
<1>11. ASSUME NEW t \in Threads, Receive(t) PROVE Taken' <= n
  BY <1>5, <1>11 DEF Receive
<1>12. ASSUME NEW m \in Tasks, TaskEnds(m) PROVE Taken' <= n
  BY <1>5, <1>12 DEF TaskEnds
<1> QED BY <1>7, <1>8, <1>9, <1>10, <1>11, <1>12 DEF Next, WaitForTasks

\* At most as many tasks run as futures are taken.
LEMMA UnfinishedTaken == TypeInv /\ TaskInv => Cardinality(Unfinished) <= Taken
<1> SUFFICES ASSUME TypeInv, TaskInv PROVE Cardinality(Unfinished) <= Taken
  OBVIOUS
<1>1. futures \in Seq(Tasks) /\ Len(futures) \in Nat
  BY LenProperties DEF TypeInv, TypeOK
<1>2. /\ IsFiniteSet(Items(futures)) /\ Cardinality(Items(futures)) \in Nat
      /\ Cardinality(Items(futures)) <= Len(futures)
  BY <1>1, ElementsBounded DEF Elements, Items
<1>3. CASE lock \in Threads /\ held[lock] \in Tasks
  <2>1. Unfinished \subseteq Items(futures) \cup {held[lock]}
    BY DEF TaskInv, TasksTracked
  <2>2. /\ IsFiniteSet(Items(futures) \cup {held[lock]})
        /\ Cardinality(Items(futures) \cup {held[lock]}) <= Len(futures) + 1
    <3>1. Cardinality(Items(futures) \cup {held[lock]}) <= Cardinality(Items(futures)) + 1
      BY <1>2, FS_AddElement
    <3>2. IsFiniteSet(Items(futures) \cup {held[lock]})
      BY <1>2, FS_AddElement
    <3>3. Cardinality(Items(futures) \cup {held[lock]}) \in Nat
      BY <3>2, FS_CardinalityType
    <3> QED BY <1>1, <1>2, <3>1, <3>2, <3>3
  <2>3. /\ Cardinality(Unfinished) <= Cardinality(Items(futures) \cup {held[lock]})
        /\ Cardinality(Unfinished) \in Nat
        /\ Cardinality(Items(futures) \cup {held[lock]}) \in Nat
    BY <2>1, <2>2, FS_Subset, FS_CardinalityType
  <2> QED BY <1>1, <1>3, <2>2, <2>3 DEF Taken
<1>4. CASE ~(lock \in Threads /\ held[lock] \in Tasks)
  <2>1. Unfinished \subseteq Items(futures)
    BY <1>4 DEF TaskInv, TasksTracked, Unfinished
  <2>2. Cardinality(Unfinished) <= Cardinality(Items(futures)) /\ Cardinality(Unfinished) \in Nat
    BY <1>2, <2>1, FS_Subset, FS_CardinalityType
  <2> QED BY <1>1, <1>2, <1>4, <2>2 DEF Taken
<1> QED BY <1>3, <1>4

\* One of the limits in use bounds the tasks that run at the same time, for any
\* number of senders and however the limit is changed under way.
THEOREM TasksBounded == Spec => []TasksWithinQueueSize
<1>1. Init => TakenBounded
  <2> SUFFICES ASSUME Init PROVE TakenBounded
    OBVIOUS
  <2>1. Len(futures) = 0 /\ lock = Free /\ maxSize \in Sizes
    BY EmptySeq DEF Init
  <2> QED BY <2>1, ThreadsAssumption, OptionsAssumption DEF TakenBounded, Taken
<1>2. TypeInv /\ TaskInv /\ TakenBounded => TasksWithinQueueSize
  <2> SUFFICES ASSUME TypeInv, TaskInv, NEW n \in Sizes, Taken <= n
               PROVE  Cardinality(Unfinished) <= n
    BY DEF TakenBounded, TasksWithinQueueSize
  <2>1. Unfinished \subseteq Tasks /\ IsFiniteSet(Tasks)
    BY OptionsAssumption, FS_Interval DEF Unfinished, Tasks
  <2>2. Cardinality(Unfinished) \in Nat
    BY <2>1, FS_Subset, FS_CardinalityType
  <2>3. Taken \in Nat /\ n \in Nat
    BY OptionsAssumption, LenProperties DEF Taken, TypeInv, TypeOK
  <2> QED BY <2>2, <2>3, UnfinishedTaken
<1> QED
  BY <1>1, <1>2, TypeInit, TypeStep, TaskInit, TaskStep, TakenStep, PTL DEF Spec
-----------------------------------------------------------------------------
(* The destructor *)

\* Nobody sends to the actor any more once its destruction began, and when it
\* has ended no task is left to use the actor.
QuietInv ==
  /\ owner # "idle" => \A s \in Senders : pc[s] = "idle"
  /\ FreedIsQuiet

\* The destruction stays quiet when the owner waited for the senders.
LEMMA QuietStep ==
  ASSUME Unlinked = TRUE, TypeInv, TaskInv, QuietInv, [Next]_vars
  PROVE  QuietInv'
<1>0. /\ Tasks \subseteq Threads /\ Senders \subseteq Threads
      /\ Senders \cap Tasks = {} /\ Threads = Senders \cup Tasks
      /\ Owner \notin Threads
      /\ futures \in Seq(Tasks)
      /\ pc \in [Threads -> {"idle", "none", "mode", "async", "sync", "emplace",
                             "destroyFuture", "process", "running", "done"}]
  BY ThreadsAssumption DEF Threads, TypeInv, TypeOK
<1>00. \A t \in Threads : Rest(t) = IF t \in Senders THEN "idle" ELSE "running"
  BY DEF Rest
<1> USE <1>0, <1>00 DEF QuietInv, FreedIsQuiet, Unfinished, Goto, settings
<1>1. ASSUME NEW t \in Threads, Receive(t) PROVE QuietInv'
  BY <1>1 DEF Receive
<1>2. ASSUME NEW t \in Threads, Continue(t) PROVE QuietInv'
  <2>1. CASE ReadMode(t)
    BY <2>1 DEF ReadMode
  <2>2. CASE EnterAsync(t)
    <3>1. PICK n \in 0..Len(futures) : Skip(t, n) \/ Start(t, n)
      BY <2>2 DEF EnterAsync
    <3>2. pc[t] = "async" /\ owner' = owner
      BY <2>2 DEF EnterAsync
    <3>3. CASE Skip(t, n)
      BY <3>2, <3>3 DEF Skip
    <3>4. CASE Start(t, n)
      BY <3>2, <3>4 DEF Start
    <3> QED BY <3>1, <3>3, <3>4
  <2>3. CASE Emplace(t)
    BY <2>3 DEF Emplace
  <2>4. CASE DestroyFuture(t)
    BY <2>4 DEF DestroyFuture
  <2>5. CASE EnterSync(t) \/ LeaveSync(t)
    BY <2>5 DEF EnterSync, LeaveSync
  <2> QED BY <1>2, <2>1, <2>2, <2>3, <2>4, <2>5 DEF Continue
<1>3. ASSUME NEW m \in Tasks, TaskEnds(m) PROVE QuietInv'
  BY <1>3 DEF TaskEnds
<1>4. CASE Configure
  BY <1>4 DEF Configure, Activate, Deactivate, SetProperties
<1>5. CASE Destroy
  BY <1>5 DEF Destroy
<1>6. CASE WaitForTasksLock
  BY <1>6 DEF WaitForTasksLock
<1>7. CASE WaitForTasksRound
  <2>1. PICK n \in 0..Len(futures) :
          ReadyHeads(n) /\ futures' = Dropped(futures, n)
    BY <1>7 DEF WaitForTasksRound
  <2>2. owner = "drain" /\ lock = Owner /\ pc' = pc
    BY <1>7 DEF WaitForTasksRound, TaskInv, LockOwner
  <2>3. \A m \in Unfinished : m \in Items(futures')
    BY <2>1, <2>2, SanitizeKeepsUnfinished DEF TaskInv, TasksTracked
  <2>4. futures' = <<>> => Unfinished = {}
    BY <2>3 DEF Items
  <2> QED BY <1>7, <2>2, <2>4 DEF WaitForTasksRound
<1>8. CASE UNCHANGED vars
  BY <1>8 DEF vars
<1> QED
  BY <1>1, <1>2, <1>3, <1>4, <1>5, <1>6, <1>7, <1>8 DEF Next, WaitForTasks

\* When the destructor of an actor whose senders were unlinked has returned, no
\* task of the actor runs.
THEOREM DestructorWaits == ASSUME Unlinked = TRUE PROVE Spec => []FreedIsQuiet
<1>1. Init => QuietInv
  BY ThreadsAssumption DEF Init, QuietInv, FreedIsQuiet, Unfinished
<1>2. QuietInv => FreedIsQuiet
  BY DEF QuietInv
<1>3. TypeInv /\ TaskInv /\ QuietInv /\ [Next]_vars => QuietInv'
  BY QuietStep
<1> QED
  BY <1>1, <1>2, <1>3, TypeInit, TypeStep, TaskInit, TaskStep, PTL DEF Spec
=============================================================================
