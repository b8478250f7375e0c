----------------------------- MODULE EventActor -----------------------------
(* rf::ActorEventBased (Actors/ActorEventBased.cpp): an actor that handles  *)
(* each message it receives, in the receiving thread when it is synchronous *)
(* and in a task of std::async when it is asynchronous.  The futures of the *)
(* tasks are kept in myFutureQueue (a SharedQueue in mode Nothing) and      *)
(* onInputTask is held while a message is taken in.                         *)
(*                                                                          *)
(* A message is the number of its reception and the task that handles it    *)
(* has the same number.  A task may send to the actor itself, through ports *)
(* that deliver synchronously, so tasks are threads that receive too.       *)
EXTENDS Integers, Sequences, FiniteSets

CONSTANTS
  Senders,      \* threads that deliver messages to the actor
  Owner,        \* the thread that configures and destroys it
  Free,         \* no thread
  Sizes,        \* the values of queueSize
  AsyncModes,   \* the values of isAsync
  Feedback,     \* whether a task may send to the actor itself
  Unlinked,     \* whether the owner waits for the senders before it destroys
  MaxMessages   \* bound: number of receptions explored

Tasks == 1..MaxMessages
Threads == Senders \cup Tasks

ASSUME ThreadsAssumption ==
  /\ Owner \notin Threads /\ Free \notin Threads /\ Owner # Free
  /\ Senders \cap Tasks = {}

ASSUME OptionsAssumption ==
  /\ Sizes \subseteq Nat /\ AsyncModes \subseteq BOOLEAN
  /\ Feedback \in BOOLEAN /\ Unlinked \in BOOLEAN /\ MaxMessages \in Nat

NoTask == 0

VARIABLES
  flagActive,  \* ActorLocal::_flagActive
  isAsync,
  maxSize,     \* myFutureQueue.maxSize
  futures,     \* myFutureQueue: the tasks whose futures it holds
  lock,        \* holder of onInputTask
  pc,          \* what each thread is doing; "none": a task not yet started
  held,        \* the task whose future a receiving thread has in a local
  owner,       \* progress of the destruction
  received     \* messages received so far

vars == <<flagActive, isAsync, maxSize, futures, lock, pc, held, owner, received>>

settings == <<flagActive, isAsync, maxSize>>

Init ==
  /\ flagActive = TRUE
  /\ isAsync \in AsyncModes
  /\ maxSize \in Sizes
  /\ futures = <<>>
  /\ lock = Free
  /\ pc = [t \in Threads |-> IF t \in Senders THEN "idle" ELSE "none"]
  /\ held = [t \in Threads |-> NoTask]
  /\ owner = "idle"
  /\ received = 0

\* Where a thread is when it is not receiving.
Rest(t) == IF t \in Senders THEN "idle" ELSE "running"

Items(q) == {q[i] : i \in DOMAIN q}

Goto(t, label) == pc' = [pc EXCEPT ![t] = label]

-----------------------------------------------------------------------------
(* OnInputReceive, by any thread that delivers a message *)

\* The port's callback: an actor that is not active ignores the message.
Receive(t) ==
  /\ pc[t] = Rest(t) /\ (t \in Tasks => Feedback)
  /\ owner # "freed" /\ (t \in Senders => owner = "idle")
  /\ received < MaxMessages
  /\ flagActive
  /\ received' = received + 1
  /\ Goto(t, "mode")
  /\ UNCHANGED <<settings, futures, lock, held, owner>>

\* ApproveTask(), which derived actors may override, lets the message in or not;
\* isAsync is read before the lock is taken.
ReadMode(t) ==
  /\ pc[t] = "mode"
  /\ \/ Goto(t, IF isAsync THEN "async" ELSE "sync")
     \/ Goto(t, Rest(t))
  /\ UNCHANGED <<settings, futures, lock, held, owner, received>>

\* Mutant: every ready future is taken for the head.
ReadyHeadsAny(n) == n \in 0..Len(futures)

\* SanitizeQueue pops the futures at the head that are ready and stops at the
\* first that is not.  A future that holds an exception is ready too.
ReadyHeads(n) ==
  /\ n \in 0..Len(futures)
  /\ \A i \in 1..n : pc[futures[i]] = "done"
  /\ n < Len(futures) => pc[futures[n + 1]] # "done"

Dropped(q, n) == SubSeq(q, n + 1, Len(q))

\* Mutant: the limit is tested as the moving push tests it.
IsFullLate(q) == maxSize < Len(q)

\* isFull(), for which 0 is not "unlimited"
IsFull(q) == maxSize <= Len(q)

\* Asynchronous and full: the message is skipped.
Skip(t, n) ==
  /\ IsFull(Dropped(futures, n))
  /\ Goto(t, Rest(t))
  /\ UNCHANGED <<lock, held>>

\* Asynchronous and not full: a task is started; its future is still local.
Start(t, n) ==
  /\ ~IsFull(Dropped(futures, n))
  /\ \E m \in Tasks :
       /\ pc[m] = "none" /\ (\A k \in Tasks : pc[k] = "none" => m <= k)
       /\ pc' = [pc EXCEPT ![t] = "emplace", ![m] = "running"]
       /\ held' = [held EXCEPT ![t] = m]
  /\ lock' = t

EnterAsync(t) ==
  /\ pc[t] = "async" /\ lock = Free
  /\ \E n \in 0..Len(futures) :
       /\ ReadyHeads(n)
       /\ futures' = Dropped(futures, n)
       /\ Skip(t, n) \/ Start(t, n)
  /\ UNCHANGED <<settings, owner, received>>

\* Mutant: a future that does not fit is let go of.
EmplaceDetaches(t) ==
  /\ pc[t] = "emplace"
  /\ futures' = IF maxSize > 0 /\ maxSize < Len(futures)
                THEN futures ELSE Append(futures, held[t])
  /\ held' = [held EXCEPT ![t] = NoTask]
  /\ lock' = Free
  /\ Goto(t, Rest(t))
  /\ UNCHANGED <<settings, owner, received>>

\* Mutant: the push waits for a place, which nobody makes under the lock.
EmplaceWaits(t) ==
  /\ pc[t] = "emplace" /\ ~(maxSize > 0 /\ maxSize < Len(futures))
  /\ futures' = Append(futures, held[t])
  /\ held' = [held EXCEPT ![t] = NoTask]
  /\ lock' = Free
  /\ Goto(t, Rest(t))
  /\ UNCHANGED <<settings, owner, received>>

\* myFutureQueue.emplace_back: it may find the queue full, when queueSize was
\* lowered after isFull(); the future is then destroyed with the block.
Emplace(t) ==
  /\ pc[t] = "emplace"
  /\ \/ /\ maxSize > 0 /\ maxSize < Len(futures)
        /\ Goto(t, "destroyFuture")
        /\ UNCHANGED <<futures, held, lock>>
     \/ /\ ~(maxSize > 0 /\ maxSize < Len(futures))
        /\ futures' = Append(futures, held[t])
        /\ held' = [held EXCEPT ![t] = NoTask]
        /\ lock' = Free
        /\ Goto(t, Rest(t))
  /\ UNCHANGED <<settings, owner, received>>

\* The destructor of a future of std::async waits for the task, here with
\* onInputTask held.
DestroyFuture(t) ==
  /\ pc[t] = "destroyFuture" /\ pc[held[t]] = "done"
  /\ held' = [held EXCEPT ![t] = NoTask]
  /\ lock' = Free
  /\ Goto(t, Rest(t))
  /\ UNCHANGED <<settings, futures, owner, received>>

\* Synchronous: the message is handled under the lock.  (A Process() that sends to
\* its own actor from here locks onInputTask twice: Delivery has this.)
EnterSync(t) ==
  /\ pc[t] = "sync" /\ lock = Free
  /\ lock' = t
  /\ Goto(t, "process")
  /\ UNCHANGED <<settings, futures, held, owner, received>>

LeaveSync(t) ==
  /\ pc[t] = "process"
  /\ lock' = Free
  /\ Goto(t, Rest(t))
  /\ UNCHANGED <<settings, futures, held, owner, received>>

\* Process() returned or threw in the task's thread.
TaskEnds(m) ==
  /\ pc[m] = "running"
  /\ Goto(m, "done")
  /\ UNCHANGED <<settings, futures, lock, held, owner, received>>
-----------------------------------------------------------------------------
(* The owner *)

Activate ==
  /\ owner = "idle"
  /\ flagActive' = TRUE
  /\ UNCHANGED <<isAsync, maxSize, futures, lock, pc, held, owner, received>>

Deactivate ==
  /\ owner = "idle"
  /\ flagActive' = FALSE
  /\ UNCHANGED <<isAsync, maxSize, futures, lock, pc, held, owner, received>>

\* Mutant: the limit is stored less one, and 0 wraps.
SetPropertiesLessOne(async, size) ==
  /\ owner = "idle"
  /\ isAsync' = async /\ maxSize' = size - 1
  /\ UNCHANGED <<flagActive, futures, lock, pc, held, owner, received>>

\* SetProperties: neither value is written under onInputTask.
SetProperties(async, size) ==
  /\ owner = "idle"
  /\ isAsync' = async /\ maxSize' = size
  /\ UNCHANGED <<flagActive, futures, lock, pc, held, owner, received>>

\* ~ActorEventBased: Deactivate(), then WaitForTasks().
Destroy ==
  /\ owner = "idle"
  /\ Unlinked => \A s \in Senders : pc[s] = "idle"
  /\ flagActive' = FALSE
  /\ owner' = "waitLock"
  /\ UNCHANGED <<isAsync, maxSize, futures, lock, pc, held, received>>

WaitForTasksLock ==
  /\ owner = "waitLock" /\ lock = Free
  /\ lock' = Owner
  /\ owner' = "drain"
  /\ UNCHANGED <<settings, futures, pc, held, received>>

\* Mutant: the future is waited for and not popped.
WaitForTasksRoundKeeps ==
  /\ owner = "drain"
  /\ IF futures = <<>>
     THEN lock' = Free /\ owner' = "freed"
     ELSE UNCHANGED <<lock, owner>>
  /\ UNCHANGED <<settings, futures, pc, held, received>>

\* One round of WaitForTasks' loop, with its test.
WaitForTasksRound ==
  /\ owner = "drain"
  /\ \E n \in 0..Len(futures) :
       ReadyHeads(n) /\ futures' = Dropped(futures, n)
  /\ IF futures' = <<>>
     THEN lock' = Free /\ owner' = "freed"
     ELSE UNCHANGED <<lock, owner>>
  /\ UNCHANGED <<settings, pc, held, received>>
-----------------------------------------------------------------------------
Continue(t) ==
  \/ ReadMode(t) \/ EnterAsync(t) \/ Emplace(t) \/ DestroyFuture(t)
  \/ EnterSync(t) \/ LeaveSync(t)

WaitForTasks == WaitForTasksLock \/ WaitForTasksRound

Configure ==
  \/ Activate \/ Deactivate
  \/ \E async \in AsyncModes, size \in Sizes : SetProperties(async, size)

Next ==
  \/ \E t \in Threads : Receive(t) \/ Continue(t)
  \/ \E m \in Tasks : TaskEnds(m)
  \/ Configure \/ Destroy \/ WaitForTasks

Spec == Init /\ [][Next]_vars

\* A message that was taken in goes on, Process() returns and WaitForTasks()
\* loops.  The mutex is not fair, but receptions are bounded.
Fairness ==
  /\ \A t \in Threads : WF_vars(Continue(t))
  /\ \A m \in Tasks : WF_vars(TaskEnds(m))
  /\ WF_vars(WaitForTasks)

FairSpec == Spec /\ Fairness
-----------------------------------------------------------------------------
\* The values the variables range over.
TypeOK ==
  /\ flagActive \in BOOLEAN /\ isAsync \in AsyncModes /\ maxSize \in Sizes
  /\ futures \in Seq(Tasks)
  /\ lock \in Threads \cup {Owner, Free}
  /\ pc \in [Threads -> {"idle", "none", "mode", "async", "sync", "emplace",
                         "destroyFuture", "process", "running", "done"}]
  /\ held \in [Threads -> Tasks \cup {NoTask}]
  /\ owner \in {"idle", "waitLock", "drain", "freed"}
  /\ received \in 0..MaxMessages

Unfinished == {m \in Tasks : pc[m] \notin {"none", "done"}}

\* No task escapes: as long as it runs, its future is in the queue, where
\* WaitForTasks() waits for it, or in the hands of the thread that started it
\* and holds onInputTask, which keeps WaitForTasks() out.
TasksTracked ==
  \A m \in Unfinished :
    \/ m \in Items(futures)
    \/ lock \in Threads /\ held[lock] = m

\* An actor whose senders were unlinked first has no task left when its
\* destructor returns, so no task uses a destroyed actor.
FreedIsQuiet == owner = "freed" => Unfinished = {}

\* The largest queueSize in use bounds the tasks that run at the same time: a
\* limit that is raised and lowered while messages come in lets no more through.
TasksWithinQueueSize == \E n \in Sizes : Cardinality(Unfinished) <= n

\* A task that sends to its own actor waits for onInputTask, and the holder of
\* the lock waits for the task: none of the two goes on.
SelfWait ==
  \E m \in Tasks :
    /\ pc[m] \in {"async", "sync"}
    /\ \/ lock = Owner /\ m \in Items(futures)
       \/ lock \in Threads /\ pc[lock] = "destroyFuture" /\ held[lock] = m

\* Every message that is taken in lets its sender go; only a task that sends to
\* its own actor can prevent it.
ReceiveReturns ==
  \A s \in Senders : (pc[s] # "idle") ~> (pc[s] = "idle" \/ SelfWait)

\* The destructor returns, but for the same reason: it does not wait for its own
\* lock, nor for ever.
DestroyReturns == (owner = "waitLock") ~> (owner = "freed" \/ SelfWait)
=============================================================================
