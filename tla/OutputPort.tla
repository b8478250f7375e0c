----------------------------- MODULE OutputPort -----------------------------
(* rf::PortOutput (Ports/PortOutput.cpp) with its MessagePublisherFunctor   *)
(* (Core/MessagePublisherFunctor.hpp): the table of remote input ports, and *)
(* the delivery of a message to each, in the notifying thread or in a task. *)
(*                                                                          *)
(* mutex_notifiable is shared by the notifiers and exclusive in Attach,     *)
(* Detach and the user data; the publisher's _mutex is shared in the loop   *)
(* over the callbacks and exclusive in everything else.  An exclusive       *)
(* section is one action, enabled while nobody shares its lock.             *)
EXTENDS Integers, Sequences, FiniteSets

CONSTANTS
  Notifiers,   \* threads that call Notify
  Admins,      \* threads that change links, or delete a remote port
  Links,       \* remote input ports: (owner id, port id)
  NoLink,      \* none of them
  Colliding,   \* links whose two ids have the same concatenation
  Sizes,       \* the values of queueNotifiersSize; 0 is "unlimited"
  AsyncModes,  \* the values of isAsync
  Exclusive,   \* whether a port is deleted only while nobody connects to it
  MaxNotifies, \* bound: number of messages
  MaxCalls     \* bound: number of changes of links

ASSUME ThreadsAssumption ==
  /\ Notifiers \cap Admins = {} /\ IsFiniteSet(Notifiers)
  /\ IsFiniteSet(Links) /\ NoLink \notin Links

ASSUME OptionsAssumption ==
  /\ Colliding \subseteq Links
  /\ Sizes \subseteq Nat /\ AsyncModes \subseteq BOOLEAN
  /\ Exclusive \in BOOLEAN /\ MaxNotifies \in Nat /\ MaxCalls \in Nat

Tasks == 1..(MaxNotifies * Cardinality(Links))
NoTask == 0

ASSUME TasksAssumption == (Notifiers \cup Admins) \cap Tasks = {}

VARIABLES
  callbacks,    \* publisher._mapCallbacks: the ports that are called
  identifiers,  \* setIdentifiersOfNotifiable: the links that are reported
  userData,     \* the links for which linkUserData has an entry
  given,        \* ghost: those given data that no Detach was to remove
  existing,     \* the remote ports that exist
  isAsync,
  maxSize,      \* publisher._myFutureQueue.maxSize
  futures,      \* publisher._myFutureQueue: the tasks whose futures it holds
  task,         \* what each task is doing
  pc,           \* what each thread is doing
  todo,         \* the callbacks a notifier has still to go over
  target,       \* the link a thread or a task is busy with
  held,         \* the task whose future a notifier has in a temporary
  notifies, calls

data == <<userData, given>>
linkVars == <<callbacks, identifiers, data, existing>>
settings == <<isAsync, maxSize>>
notifyVars == <<futures, task, todo, held>>
counters == <<notifies, calls>>
vars == <<linkVars, settings, notifyVars, pc, target, counters>>

Threads == Notifiers \cup Admins

Init ==
  /\ callbacks = {} /\ identifiers = {} /\ userData = {} /\ given = {}
  /\ existing = Links
  /\ isAsync \in AsyncModes /\ maxSize \in Sizes
  /\ futures = <<>>
  /\ task = [k \in Tasks |-> "none"]
  /\ pc = [t \in Threads |-> "idle"]
  /\ todo = [n \in Notifiers |-> {}]
  /\ target = [t \in Threads \cup Tasks |-> NoLink]
  /\ held = [n \in Notifiers |-> NoTask]
  /\ notifies = 0 /\ calls = 0

Goto(t, label) == pc' = [pc EXCEPT ![t] = label]
Items(q) == {q[i] : i \in DOMAIN q}
Dropped(q, n) == SubSeq(q, n + 1, Len(q))

\* CalculateLinkId: the links that have the linkId of l.
SameId(l) == IF l \in Colliding THEN Colliding ELSE {l}

\* Mutant: _mutex is shared already when SanitizeQueue is called.
InLoopEarly ==
  {n \in Notifiers : pc[n] \in {"sanitize", "loop", "calling", "destroyFuture"}}

\* The notifiers that share _mutex, and those that share mutex_notifiable.
InLoop == {n \in Notifiers : pc[n] \in {"loop", "calling", "destroyFuture"}}
InNotify == {n \in Notifiers : pc[n] # "idle"}

-----------------------------------------------------------------------------
(* Notify *)

\* mutex_notifiable is taken, shared.
Notify(n) ==
  /\ pc[n] = "idle" /\ notifies < MaxNotifies
  /\ notifies' = notifies + 1
  /\ Goto(n, "sanitize")
  /\ UNCHANGED <<linkVars, settings, notifyVars, target, calls>>

\* SanitizeQueue pops the futures at the head that are ready.
SanitizeQueue(n) ==
  /\ pc[n] = "sanitize" /\ InLoop = {}
  /\ \E k \in 0..Len(futures) :
       /\ \A i \in 1..k : task[futures[i]] = "done"
       /\ k < Len(futures) => task[futures[k + 1]] # "done"
       /\ futures' = Dropped(futures, k)
  /\ Goto(n, "lock")
  /\ UNCHANGED <<linkVars, settings, task, todo, held, target, counters>>

\* Mutant: the test for an empty callback is dropped.
BeginLoopWithEmpty(n) ==
  /\ pc[n] = "lock"
  /\ todo' = [todo EXCEPT ![n] = callbacks \cup {NoLink}]
  /\ Goto(n, "loop")
  /\ UNCHANGED <<linkVars, settings, futures, task, held, target, counters>>

\* _mutex is taken, shared, and the loop over _mapCallbacks begins.
BeginLoop(n) ==
  /\ pc[n] = "lock"
  /\ todo' = [todo EXCEPT ![n] = callbacks]
  /\ Goto(n, "loop")
  /\ UNCHANGED <<linkVars, settings, futures, task, held, target, counters>>

EndLoop(n) ==
  /\ pc[n] = "loop" /\ todo[n] = {}
  /\ Goto(n, "idle")
  /\ UNCHANGED <<linkVars, settings, notifyVars, target, counters>>

\* Synchronous: the remote port's Receive is called ...
CallSync(n) ==
  /\ pc[n] = "loop" /\ ~isAsync
  /\ \E l \in todo[n] :
       /\ todo' = [todo EXCEPT ![n] = @ \ {l}]
       /\ target' = [target EXCEPT ![n] = l]
  /\ Goto(n, "calling")
  /\ UNCHANGED <<linkVars, settings, futures, task, held, counters>>

\* ... and returns, or throws: PortOutput::Notify catches the exception and
\* the callbacks that were still to be called are not.
Return(n, next) ==
  /\ pc[n] = "calling"
  /\ target' = [target EXCEPT ![n] = NoLink]
  /\ todo' = IF next = "idle" THEN [todo EXCEPT ![n] = {}] ELSE todo
  /\ Goto(n, next)
  /\ UNCHANGED <<linkVars, settings, futures, task, held, counters>>

\* Mutant: two more than the limit.
IsFullForMoveLate == maxSize > 0 /\ maxSize + 1 < Len(futures)

\* emplace_back of the publisher's queue, which is in mode Nothing.
IsFullForMove == maxSize > 0 /\ maxSize < Len(futures)

\* Mutant: a future that does not fit is let go of.
StartTaskDetached(n) ==
  /\ pc[n] = "loop" /\ isAsync
  /\ \E l \in todo[n], k \in Tasks :
       /\ task[k] = "none" /\ (\A j \in Tasks : task[j] = "none" => k <= j)
       /\ task' = [task EXCEPT ![k] = "running"]
       /\ target' = [target EXCEPT ![k] = l]
       /\ todo' = [todo EXCEPT ![n] = @ \ {l}]
       /\ futures' = IF IsFullForMove THEN futures ELSE Append(futures, k)
  /\ UNCHANGED <<linkVars, settings, held, pc, counters>>

\* Asynchronous: a task is started and its future is put in the queue.  A full
\* queue leaves the future in the temporary.
StartTask(n) ==
  /\ pc[n] = "loop" /\ isAsync
  /\ \E l \in todo[n], k \in Tasks :
       /\ task[k] = "none" /\ (\A j \in Tasks : task[j] = "none" => k <= j)
       /\ task' = [task EXCEPT ![k] = "running"]
       /\ target' = [target EXCEPT ![k] = l]
       /\ todo' = [todo EXCEPT ![n] = @ \ {l}]
       /\ \/ /\ ~IsFullForMove
             /\ futures' = Append(futures, k)
             /\ UNCHANGED <<held, pc>>
          \/ /\ IsFullForMove
             /\ held' = [held EXCEPT ![n] = k]
             /\ Goto(n, "destroyFuture")
             /\ UNCHANGED futures
  /\ UNCHANGED <<linkVars, settings, counters>>

\* The destructor of a future of std::async waits for its task.
DestroyFuture(n) ==
  /\ pc[n] = "destroyFuture" /\ task[held[n]] = "done"
  /\ held' = [held EXCEPT ![n] = NoTask]
  /\ Goto(n, "loop")
  /\ UNCHANGED <<linkVars, settings, futures, task, todo, target, counters>>

\* The remote port's Receive returned or threw in the task's thread.
TaskEnds(k) ==
  /\ task[k] = "running"
  /\ task' = [task EXCEPT ![k] = "done"]
  /\ target' = [target EXCEPT ![k] = NoLink]
  /\ UNCHANGED <<linkVars, settings, futures, todo, held, pc, counters>>
-----------------------------------------------------------------------------
(* Links *)

Begin(a, l) ==
  /\ pc[a] = "idle" /\ calls < MaxCalls
  /\ calls' = calls + 1
  /\ target' = [target EXCEPT ![a] = l]

End(a) ==
  /\ Goto(a, "idle")
  /\ target' = [target EXCEPT ![a] = NoLink]

\* Attach: the weak pointer is locked, so the port outlives the call ...
CallAttach(a, l) ==
  /\ l \in existing
  /\ Begin(a, l)
  /\ Goto(a, "attach")
  /\ UNCHANGED <<linkVars, settings, notifyVars, notifies>>

\* ... and a callback with its plain pointer is stored, unless the linkId has
\* one; the link is reported in either case.
Attach(a) ==
  /\ pc[a] = "attach" /\ InNotify = {}
  /\ LET l == target[a] IN
       /\ callbacks' = IF callbacks \cap SameId(l) = {}
                       THEN callbacks \cup {l} ELSE callbacks
       /\ identifiers' = identifiers \cup {l}
  /\ End(a)
  /\ UNCHANGED <<data, existing, settings, notifyVars, counters>>

CallDetach(a, l, label) ==
  /\ Begin(a, l)
  /\ Goto(a, label)
  /\ UNCHANGED <<linkVars, settings, notifyVars, notifies>>

\* Mutant: Detach takes no lock, and so waits for no notifier.
DetachUnlocked(a) ==
  /\ pc[a] \in {"detach", "deletePort"}
  /\ callbacks' = callbacks \ SameId(target[a])
  /\ identifiers' = identifiers \ {target[a]}
  /\ Goto(a, IF pc[a] = "detach" THEN "removeData" ELSE "removeDataDelete")
  /\ UNCHANGED <<data, existing, settings, notifyVars, target, counters>>

\* Mutant: the link is no longer reported, and called as before.
DetachReportOnly(a) ==
  /\ pc[a] \in {"detach", "deletePort"} /\ InNotify = {}
  /\ identifiers' = identifiers \ {target[a]}
  /\ Goto(a, IF pc[a] = "detach" THEN "removeData" ELSE "removeDataDelete")
  /\ UNCHANGED <<callbacks, data, existing, settings, notifyVars, target, counters>>

\* Detach, first critical section.
Detach(a) ==
  /\ pc[a] \in {"detach", "deletePort"} /\ InNotify = {}
  /\ callbacks' = callbacks \ SameId(target[a])
  /\ identifiers' = identifiers \ {target[a]}
  /\ given' = given \ SameId(target[a])
  /\ Goto(a, IF pc[a] = "detach" THEN "removeData" ELSE "removeDataDelete")
  /\ UNCHANGED <<userData, existing, settings, notifyVars, target, counters>>

\* The linkIds whose data a Detach between its two sections is to remove.
BeingRemoved ==
  LET detaching == {a \in Admins : pc[a] \in {"removeData", "removeDataDelete"}}
  IN  UNION {SameId(target[a]) : a \in detaching}

\* Mutant: the data are left to the link if it was attached again meanwhile.
RemoveLinkUserDataUnlessAttached(a) ==
  /\ pc[a] \in {"removeData", "removeDataDelete"} /\ InNotify = {}
  /\ userData' = IF target[a] \in identifiers THEN userData
                 ELSE userData \ SameId(target[a])
  /\ IF pc[a] = "removeData" THEN End(a)
     ELSE Goto(a, "erasePort") /\ UNCHANGED target
  /\ UNCHANGED <<callbacks, identifiers, given, existing, settings, notifyVars, counters>>

\* Detach, second critical section: RemoveLinkUserDataFromMap.
RemoveLinkUserData(a) ==
  /\ pc[a] \in {"removeData", "removeDataDelete"} /\ InNotify = {}
  /\ userData' = userData \ SameId(target[a])
  /\ IF pc[a] = "removeData" THEN End(a)
     ELSE Goto(a, "erasePort") /\ UNCHANGED target
  /\ UNCHANGED <<callbacks, identifiers, given, existing, settings, notifyVars, counters>>

\* ActorLocal::deletePort of the remote actor: every output port was told to
\* detach the port, which is now erased from its actor and so destroyed.
ErasePort(a) ==
  /\ pc[a] = "erasePort"
  /\ Exclusive => /\ target[a] \notin identifiers
                  /\ \A b \in Admins \ {a} : target[b] # target[a]
  /\ existing' = existing \ {target[a]}
  /\ End(a)
  /\ UNCHANGED <<callbacks, identifiers, data, settings, notifyVars, counters>>

\* CleanObservers clears the callbacks under _mutex, and nothing else.
CleanObservers(a) ==
  /\ pc[a] = "idle" /\ calls < MaxCalls
  /\ InLoop = {}
  /\ calls' = calls + 1
  /\ callbacks' = {}
  /\ UNCHANGED <<identifiers, data, existing, settings, notifyVars, pc, target, notifies>>

SetLinkUserData(a, l) ==
  /\ pc[a] = "idle" /\ calls < MaxCalls
  /\ InNotify = {}
  /\ calls' = calls + 1
  /\ userData' = userData \cup SameId(l)
  /\ given' = given \cup (SameId(l) \ BeingRemoved)
  /\ UNCHANGED <<callbacks, identifiers, existing, settings, notifyVars, pc, target, notifies>>

\* SetAsyncMode and SetAsyncQueueSize, at any moment of a loop.
SetAsync(async, size) ==
  /\ isAsync' = async /\ maxSize' = size
  /\ UNCHANGED <<linkVars, notifyVars, pc, target, counters>>
-----------------------------------------------------------------------------
Continue(n) ==
  \/ SanitizeQueue(n) \/ BeginLoop(n) \/ EndLoop(n) \/ CallSync(n)
  \/ Return(n, "loop") \/ Return(n, "idle") \/ StartTask(n) \/ DestroyFuture(n)

Call(a) ==
  \/ CleanObservers(a)
  \/ \E l \in Links :
       \/ CallAttach(a, l) \/ SetLinkUserData(a, l)
       \/ CallDetach(a, l, "detach") \/ CallDetach(a, l, "deletePort")

Step(a) == Attach(a) \/ Detach(a) \/ RemoveLinkUserData(a) \/ ErasePort(a)

Next ==
  \/ \E n \in Notifiers : Notify(n) \/ Continue(n)
  \/ \E k \in Tasks : TaskEnds(k)
  \/ \E a \in Admins : Call(a) \/ Step(a)
  \/ \E async \in AsyncModes, size \in Sizes : SetAsync(async, size)

Spec == Init /\ [][Next]_vars

\* Calls that have begun go on and the remote ports' Receive returns.
Fairness ==
  /\ \A n \in Notifiers : WF_vars(Continue(n))
  /\ \A k \in Tasks : WF_vars(TaskEnds(k))
  /\ \A a \in Admins : WF_vars(Step(a))

FairSpec == Spec /\ Fairness
-----------------------------------------------------------------------------
\* The values the variables range over.
TypeOK ==
  /\ callbacks \subseteq Links /\ identifiers \subseteq Links
  /\ userData \subseteq Links /\ given \subseteq Links /\ existing \subseteq Links
  /\ isAsync \in AsyncModes /\ maxSize \in Sizes
  /\ futures \in Seq(Tasks)
  /\ task \in [Tasks -> {"none", "running", "done"}]
  /\ pc \in [Threads -> {"idle", "sanitize", "lock", "loop", "calling",
                         "destroyFuture", "attach", "detach", "deletePort",
                         "removeData", "removeDataDelete", "erasePort"}]
  /\ todo \in [Notifiers -> SUBSET Links]
  /\ target \in [Threads \cup Tasks -> Links \cup {NoLink}]
  /\ held \in [Notifiers -> Tasks \cup {NoTask}]
  /\ notifies \in 0..MaxNotifies /\ calls \in 0..MaxCalls

Running == {k \in Tasks : task[k] = "running"}

\* Whatever is called is reported as a link, colliding linkIds or not.
CallbacksReported == callbacks \subseteq identifiers

\* A synchronous notifier only calls ports that are attached, and so exist,
\* during the whole call; when Detach returns nobody is in the port or will
\* be.
CallsReachAttached ==
  \A n \in Notifiers :
    todo[n] \cup ({target[n]} \ {NoLink}) \subseteq callbacks \cap existing

\* A table of callbacks has no pointer to a port that was deleted, as
\* deletePort removes the connections of the port before it.
DeletedPortsUnlinked == callbacks \subseteq existing

\* No task escapes: while it runs, its future is in the queue, or in the hands
\* of a notifier that waits for it.
TasksTracked ==
  \A k \in Running : k \in Items(futures) \/ \E n \in Notifiers : held[n] = k

\* The largest size in use bounds the tasks that run at the same time: those in
\* the queue, one too many, and one that each notifier may wait for.
RunningBounded ==
  0 \notin Sizes =>
    \E n \in Sizes : Cardinality(Running) <= n + 1 + Cardinality(Notifiers)

\* User data stay until their linkId is detached, whoever attaches, detaches or
\* gives data meanwhile, and none outlive the Detach for a link that is attached
\* again to find.  A Detach takes, besides those of the link it detached, only the
\* data that were given between its two critical sections.
UserDataKept == given \subseteq userData /\ userData \ given \subseteq BeingRemoved

\* Notify returns, although it waits for tasks when the queue is full, and so do
\* Attach, Detach and the deletion of a port, which wait for the notifiers.
CallsReturn == \A t \in Threads : (pc[t] # "idle") ~> (pc[t] = "idle")
=============================================================================
