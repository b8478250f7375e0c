-------------------------- MODULE OutputPortProofs --------------------------
(* The safety of OutputPort for any number of notifiers, of threads that    *)
(* change links, of links and of sizes: what is called is attached, and no  *)
(* task escapes the queue of futures, which bounds how many run.            *)
EXTENDS OutputPort, QueueLemmas

NotifierPlaces == {"idle", "sanitize", "lock", "loop", "calling", "destroyFuture"}
AdminPlaces == {"idle", "attach", "detach", "deletePort", "removeData",
                "removeDataDelete", "erasePort"}

\* What is left of the queue when the futures at its head were popped.
LEMMA ItemsOfDropped ==
  ASSUME NEW S, NEW q \in Seq(S), NEW n \in 0..Len(q)
  PROVE  /\ Dropped(q, n) \in Seq(S) /\ Len(Dropped(q, n)) = Len(q) - n
         /\ Items(q) = {q[i] : i \in 1..n} \cup Items(Dropped(q, n))
<1>1. Dropped(q, n) = Suffix(q, n)
  BY DEF Dropped, Suffix
<1>2. Items(q) = Elements(q) /\ Items(Suffix(q, n)) = Elements(Suffix(q, n))
  BY DEF Items, Elements
<1> QED BY <1>1, <1>2, RangeOfSuffix

\* What the queue holds when a future was appended.
LEMMA ItemsOfAppend ==
  ASSUME NEW S, NEW q \in Seq(S), NEW x \in S
  PROVE  /\ Append(q, x) \in Seq(S) /\ Len(Append(q, x)) = Len(q) + 1
         /\ Items(Append(q, x)) = Items(q) \cup {x}
BY RangeOfAppend DEF Items, Elements

\* Tasks are numbers, of which none is a thread or NoTask.
LEMMA TaskFacts ==
  /\ NoTask \notin Tasks /\ Tasks \subseteq Nat /\ Threads \cap Tasks = {}
  /\ Notifiers \subseteq Threads /\ Admins \subseteq Threads
  /\ Notifiers \cap Admins = {} /\ NoLink \notin Links
<1>1. Cardinality(Links) \in Nat
  BY ThreadsAssumption, FS_CardinalityType
<1> QED BY <1>1, ThreadsAssumption, TasksAssumption, OptionsAssumption
        DEF Tasks, NoTask, Threads

\* The links that share a linkId with a link are links, itself among them.
LEMMA SameIdFacts == \A l \in Links : l \in SameId(l) /\ SameId(l) \subseteq Links
BY OptionsAssumption DEF SameId

\* A task is started for a link that is to be called, and its future is put in
\* the queue or held.
TaskStarted(n, l, k) ==
  /\ task[k] = "none"
  /\ task' = [task EXCEPT ![k] = "running"]
  /\ target' = [target EXCEPT ![k] = l]
  /\ todo' = [todo EXCEPT ![n] = @ \ {l}]
  /\ \/ ~IsFullForMove /\ futures' = Append(futures, k) /\ UNCHANGED <<held, pc>>
     \/ /\ held' = [held EXCEPT ![n] = k] /\ Goto(n, "destroyFuture")
        /\ UNCHANGED futures

LEMMA StartTaskPicks ==
  ASSUME NEW n \in Notifiers, StartTask(n)
  PROVE  \E l \in todo[n], k \in Tasks : TaskStarted(n, l, k)
BY DEF StartTask, TaskStarted
-----------------------------------------------------------------------------
(* Type correctness *)

\* A notifier is busy with a link while it calls it, and holds a future while
\* it waits for it; who changes links is busy with one.
Busy ==
  /\ \A n \in Notifiers :
       /\ pc[n] \in NotifierPlaces
       /\ pc[n] = "calling" <=> target[n] # NoLink
       /\ pc[n] = "destroyFuture" <=> held[n] \in Tasks
  /\ \A a \in Admins :
       /\ pc[a] \in AdminPlaces
       /\ pc[a] # "idle" <=> target[a] \in Links

TypeInv == TypeOK /\ Busy

\* The port starts without links, tasks and messages.
LEMMA TypeInit == Init => TypeInv
BY TaskFacts, OptionsAssumption, EmptySeq
   DEF Init, TypeInv, TypeOK, Busy, NotifierPlaces, AdminPlaces, Threads

\* Every step keeps the types, and who is busy with what.
LEMMA TypeStep == TypeInv /\ [Next]_vars => TypeInv'
<1> SUFFICES ASSUME TypeInv, [Next]_vars PROVE TypeInv'
  OBVIOUS
<1> USE TaskFacts, OptionsAssumption
    DEF TypeInv, TypeOK, Busy, NotifierPlaces, AdminPlaces, Goto,
        linkVars, data, settings, notifyVars, counters
<1>1. ASSUME NEW n \in Notifiers, Notify(n) PROVE TypeInv'
  BY <1>1 DEF Notify
<1>2. ASSUME NEW n \in Notifiers, Continue(n) PROVE TypeInv'
  <2>1. CASE SanitizeQueue(n)
    <3>1. futures' \in Seq(Tasks)
      BY <2>1, ItemsOfDropped DEF SanitizeQueue
    <3> QED BY <2>1, <3>1 DEF SanitizeQueue
  <2>2. CASE BeginLoop(n)
    BY <2>2 DEF BeginLoop
  <2>3. CASE EndLoop(n)
    BY <2>3 DEF EndLoop
  <2>4. CASE CallSync(n)
    BY <2>4 DEF CallSync
  <2>5. ASSUME NEW next \in {"loop", "idle"}, Return(n, next) PROVE TypeInv'
    <3>1. /\ todo' \in [Notifiers -> SUBSET Links]
          /\ target' \in [Threads \cup Tasks -> Links \cup {NoLink}]
      BY <2>5 DEF Return
    <3> QED BY <2>5, <3>1 DEF Return
  <2>6. CASE StartTask(n)
    <3>0. \E l \in todo[n], k \in Tasks : TaskStarted(n, l, k)
      BY <2>6, StartTaskPicks
    <3>1. PICK l \in todo[n], k \in Tasks : TaskStarted(n, l, k)
      BY <3>0, Zenon
    <3> USE DEF TaskStarted
    <3>2. futures' \in Seq(Tasks)
      <4>1. CASE UNCHANGED futures
        BY <4>1
      <4>2. CASE futures' = Append(futures, k)
        <5>1. futures \in Seq(Tasks) /\ k \in Tasks
          OBVIOUS
        <5> QED BY <4>2, <5>1, ItemsOfAppend
      <4> QED BY <3>1, <4>1, <4>2
    <3>3. l \in Links /\ k \notin Threads
      BY <3>1
    <3> HIDE TaskFacts
    <3>4. target' \in [Threads \cup Tasks -> Links \cup {NoLink}]
      BY <3>1, <3>3
    <3>5. \A t \in Threads : target'[t] = target[t]
      BY <3>1, <3>3
    <3>6. pc[n] = "loop"
      BY <2>6 DEF StartTask
    <3>7. CASE UNCHANGED <<held, pc>>
      BY <2>6, <3>1, <3>2, <3>4, <3>5, <3>7, TaskFacts DEF StartTask
    <3>8. CASE held' = [held EXCEPT ![n] = k] /\ Goto(n, "destroyFuture")
      BY <2>6, <3>1, <3>2, <3>4, <3>5, <3>6, <3>8, TaskFacts DEF StartTask
    <3> QED BY <3>1, <3>7, <3>8
  <2>7. CASE DestroyFuture(n)
    BY <2>7 DEF DestroyFuture
  <2> QED BY <1>2, <2>1, <2>2, <2>3, <2>4, <2>5, <2>6, <2>7 DEF Continue
<1>3. ASSUME NEW k \in Tasks, TaskEnds(k) PROVE TypeInv'
  <2>1. \A t \in Threads : target'[t] = target[t]
    BY <1>3 DEF TaskEnds
  <2> QED BY <1>3, <2>1 DEF TaskEnds
<1>4. ASSUME NEW a \in Admins, Call(a) PROVE TypeInv'
  <2>1. CASE CleanObservers(a)
    BY <2>1 DEF CleanObservers
  <2>2. ASSUME NEW l \in Links, CallAttach(a, l) PROVE TypeInv'
    BY <2>2 DEF CallAttach, Begin
  <2>3. ASSUME NEW l \in Links, SetLinkUserData(a, l) PROVE TypeInv'
    BY <2>3, SameIdFacts DEF SetLinkUserData
  <2>4. ASSUME NEW l \in Links, NEW label \in {"detach", "deletePort"},
               CallDetach(a, l, label)
        PROVE  TypeInv'
    BY <2>4 DEF CallDetach, Begin
  <2> QED BY <1>4, <2>1, <2>2, <2>3, <2>4 DEF Call
<1>5. ASSUME NEW a \in Admins, Step(a) PROVE TypeInv'
  <2>1. CASE Attach(a)
    BY <2>1 DEF Attach, End
  <2>2. CASE Detach(a)
    BY <2>2 DEF Detach
  <2>3. CASE RemoveLinkUserData(a)
    BY <2>3 DEF RemoveLinkUserData, End
  <2>4. CASE ErasePort(a)
    BY <2>4 DEF ErasePort, End
  <2> QED BY <1>5, <2>1, <2>2, <2>3, <2>4 DEF Step
<1>6. ASSUME NEW async \in AsyncModes, NEW size \in Sizes, SetAsync(async, size)
      PROVE  TypeInv'
  BY <1>6 DEF SetAsync
<1>7. CASE UNCHANGED vars
  BY <1>7 DEF vars
<1> QED BY <1>1, <1>2, <1>3, <1>4, <1>5, <1>6, <1>7 DEF Next

\* Every state of the port is well typed.
THEOREM TypeCorrect == Spec => []TypeOK
<1>1. TypeInv => TypeOK
  BY DEF TypeInv
<1> QED BY <1>1, TypeInit, TypeStep, PTL DEF Spec
-----------------------------------------------------------------------------
(* Calls reach attached ports *)

\* A callback is reported and its port exists; a port exists while it is being
\* attached; what is to be called is attached, and only by who is in the loop.
CallInv ==
  /\ CallbacksReported
  /\ callbacks \subseteq existing
  /\ \A a \in Admins : pc[a] = "attach" => target[a] \in existing
  /\ \A n \in Notifiers : todo[n] # {} => pc[n] \in {"loop", "calling", "destroyFuture"}
  /\ \A n \in Notifiers :
       todo[n] \subseteq callbacks /\ (target[n] # NoLink => target[n] \in callbacks)

LEMMA CallInit == Init => CallInv
BY TaskFacts DEF Init, CallInv, CallbacksReported, Threads

\* Notifiers and tasks leave the links alone, and call what the table holds.
LEMMA NotifierCalls ==
  ASSUME TypeInv, CallInv, NEW n \in Notifiers, Notify(n) \/ Continue(n)
  PROVE  CallInv'
<1> USE TaskFacts
    DEF TypeInv, TypeOK, Busy, NotifierPlaces, AdminPlaces, Goto,
        linkVars, data, settings, notifyVars, counters, CallInv, CallbacksReported
<1>1. CASE Notify(n)
  BY <1>1 DEF Notify
<1>2. CASE SanitizeQueue(n)
  BY <1>2 DEF SanitizeQueue
<1>3. CASE BeginLoop(n)
  BY <1>3 DEF BeginLoop
<1>4. CASE EndLoop(n)
  BY <1>4 DEF EndLoop
<1>5. CASE CallSync(n)
  BY <1>5 DEF CallSync
<1>6. ASSUME NEW next \in {"loop", "idle"}, Return(n, next) PROVE CallInv'
  BY <1>6 DEF Return
<1>7. CASE StartTask(n)
  <2>1. \E l \in todo[n], k \in Tasks : TaskStarted(n, l, k)
    BY <1>7, StartTaskPicks
  <2>2. PICK l \in todo[n], k \in Tasks : TaskStarted(n, l, k)
    BY <2>1, Zenon
  <2>3. \A t \in Threads : target'[t] = target[t]
    BY <2>2 DEF TaskStarted
  <2> QED BY <1>7, <2>2, <2>3 DEF StartTask, TaskStarted
<1>8. CASE DestroyFuture(n)
  BY <1>8 DEF DestroyFuture
<1> QED BY <1>1, <1>2, <1>3, <1>4, <1>5, <1>6, <1>7, <1>8 DEF Continue

\* A link goes when no notifier is between its locks, and a port when no link
\* leads to it.
LEMMA AdminCalls ==
  ASSUME Exclusive, TypeInv, CallInv, NEW a \in Admins, Call(a) \/ Step(a)
  PROVE  CallInv'
<1> USE TaskFacts
    DEF TypeInv, TypeOK, Busy, NotifierPlaces, AdminPlaces, Goto, End, Begin,
        linkVars, data, settings, notifyVars, counters, CallInv, CallbacksReported
<1>1. CASE CleanObservers(a)
  <2>1. \A n \in Notifiers : pc[n] \notin {"loop", "calling", "destroyFuture"}
    BY <1>1 DEF CleanObservers, InLoop
  <2>2. \A n \in Notifiers : todo[n] = {} /\ target[n] = NoLink
    BY <2>1
  <2> QED BY <1>1, <2>2 DEF CleanObservers
<1>2. ASSUME NEW l \in Links, CallAttach(a, l) PROVE CallInv'
  BY <1>2 DEF CallAttach
<1>3. ASSUME NEW l \in Links, SetLinkUserData(a, l) PROVE CallInv'
  BY <1>3 DEF SetLinkUserData
<1>4. ASSUME NEW l \in Links,
             CallDetach(a, l, "detach") \/ CallDetach(a, l, "deletePort")
      PROVE  CallInv'
  BY <1>4 DEF CallDetach
<1>5. CASE Attach(a)
  BY <1>5 DEF Attach
<1>6. CASE Detach(a)
  <2>1. \A n \in Notifiers : todo[n] = {} /\ target[n] = NoLink
    BY <1>6 DEF Detach, InNotify
  <2>2. target[a] \in SameId(target[a])
    BY <1>6, SameIdFacts DEF Detach
  <2> QED BY <1>6, <2>1, <2>2 DEF Detach
<1>7. CASE RemoveLinkUserData(a)
  BY <1>7 DEF RemoveLinkUserData
<1>8. CASE ErasePort(a)
  <2>1. target[a] \notin callbacks
    BY <1>8 DEF ErasePort
  <2>2. \A b \in Admins \ {a} : target[b] # target[a]
    BY <1>8 DEF ErasePort
  <2> QED BY <1>8, <2>1, <2>2 DEF ErasePort
<1> QED BY <1>1, <1>2, <1>3, <1>4, <1>5, <1>6, <1>7, <1>8 DEF Call, Step

LEMMA CallStep == Exclusive /\ TypeInv /\ CallInv /\ [Next]_vars => CallInv'
<1> SUFFICES ASSUME Exclusive, TypeInv, CallInv, [Next]_vars PROVE CallInv'
  OBVIOUS
<1>1. ASSUME NEW k \in Tasks, TaskEnds(k) PROVE CallInv'
  <2>1. \A t \in Threads : target'[t] = target[t]
    BY <1>1, TaskFacts DEF TaskEnds, TypeInv, TypeOK
  <2> QED BY <1>1, <2>1, TaskFacts
          DEF TaskEnds, CallInv, CallbacksReported, linkVars, data
<1>2. ASSUME NEW async \in AsyncModes, NEW size \in Sizes, SetAsync(async, size)
      PROVE  CallInv'
  BY <1>2 DEF SetAsync, CallInv, CallbacksReported, linkVars, data, notifyVars
<1>3. CASE UNCHANGED vars
  BY <1>3 DEF vars, CallInv, CallbacksReported, linkVars, data, notifyVars
<1> QED BY <1>1, <1>2, <1>3, NotifierCalls, AdminCalls DEF Next

\* While no port is deleted beside a connection to it, a synchronous notifier
\* only calls ports that are attached and exist, for the whole call.
THEOREM OnlyAttachedCalled ==
  ASSUME Exclusive PROVE Spec => []CallsReachAttached
<1>1. TypeInv /\ CallInv => CallsReachAttached
  BY DEF CallInv, CallsReachAttached
<1>2. TypeInv /\ CallInv /\ [Next]_vars => TypeInv' /\ CallInv'
  BY TypeStep, CallStep
<1> QED BY <1>1, <1>2, TypeInit, CallInit, PTL DEF Spec

\* A link leaves the report only with its callback.
LEMMA ReportedStep == TypeInv /\ CallbacksReported /\ [Next]_vars => CallbacksReported'
<1> SUFFICES ASSUME TypeInv, CallbacksReported, [Next]_vars PROVE CallbacksReported'
  OBVIOUS
<1> USE DEF CallbacksReported, linkVars, data
<1>1. ASSUME NEW n \in Notifiers, Notify(n) \/ Continue(n) PROVE CallbacksReported'
  BY <1>1 DEF Notify, Continue, SanitizeQueue, BeginLoop, EndLoop, CallSync, Return,
              StartTask, DestroyFuture
<1>2. ASSUME NEW a \in Admins, Call(a) PROVE CallbacksReported'
  BY <1>2 DEF Call, CleanObservers, CallAttach, SetLinkUserData, CallDetach
<1>3. ASSUME NEW a \in Admins, Step(a) PROVE CallbacksReported'
  <2>1. CASE Detach(a)
    <3>1. target[a] \in SameId(target[a])
      BY <2>1, SameIdFacts, TaskFacts DEF Detach, TypeInv, Busy
    <3> QED BY <2>1, <3>1 DEF Detach
  <2> QED BY <1>3, <2>1 DEF Step, Attach, RemoveLinkUserData, ErasePort
<1>4. CASE UNCHANGED vars
  BY <1>4 DEF vars
<1> QED BY <1>1, <1>2, <1>3, <1>4 DEF Next, TaskEnds, SetAsync

\* Every callback of the table is reported as a link, whatever links collide
\* and whatever is deleted.
THEOREM CallsAreReported == Spec => []CallbacksReported
<1>1. Init => CallbacksReported
  BY DEF Init, CallbacksReported
<1> QED BY <1>1, TypeInit, TypeStep, ReportedStep, PTL DEF Spec
-----------------------------------------------------------------------------
(* No task escapes *)

\* The queue has one future more than some size in use, at most.
QueueBounded == 0 \notin Sizes => \E m \in Sizes : Len(futures) <= m + 1

TaskInv == TasksTracked /\ QueueBounded

\* SanitizeQueue drops no future of a running task.
LEMMA SanitizeKeepsRunning ==
  ASSUME TypeInv, NEW n \in Notifiers, SanitizeQueue(n)
  PROVE  /\ \A k \in Running : k \in Items(futures) => k \in Items(futures')
         /\ Len(futures') <= Len(futures)
<1>1. futures \in Seq(Tasks)
  BY DEF TypeInv, TypeOK
<1>2. PICK m \in 0..Len(futures) :
        /\ \A i \in 1..m : task[futures[i]] = "done"
        /\ futures' = Dropped(futures, m)
  BY DEF SanitizeQueue
<1>3. /\ Items(futures) = {futures[i] : i \in 1..m} \cup Items(futures')
      /\ Len(futures') = Len(futures) - m
  <2>1. /\ Items(futures) = {futures[i] : i \in 1..m} \cup Items(Dropped(futures, m))
        /\ Len(Dropped(futures, m)) = Len(futures) - m
    BY <1>1, ItemsOfDropped
  <2>2. Items(futures') = Items(Dropped(futures, m))
    BY <1>2 DEF Items
  <2> QED BY <1>2, <2>1, <2>2
<1>4. Len(futures) \in Nat
  BY <1>1, LenProperties
<1>5. Len(futures') <= Len(futures)
  BY <1>3, <1>4
<1>6. \A k \in {futures[i] : i \in 1..m} : task[k] = "done"
  BY <1>2
<1>7. \A k \in Running : k \in Items(futures) => k \in Items(futures')
  BY <1>3, <1>6 DEF Running
<1> QED BY <1>5, <1>7

\* A task that was started is in the queue, or held and waited for; the queue
\* grows while its length is within the size.
LEMMA TaskStep == TypeInv /\ TaskInv /\ [Next]_vars => TaskInv'
<1> SUFFICES ASSUME TypeInv, TaskInv, [Next]_vars PROVE TaskInv'
  OBVIOUS
<1>0. /\ futures \in Seq(Tasks) /\ Len(futures) \in Nat /\ Sizes \subseteq Nat
      /\ task \in [Tasks -> {"none", "running", "done"}]
      /\ held \in [Notifiers -> Tasks \cup {NoTask}]
  BY OptionsAssumption, LenProperties DEF TypeInv, TypeOK
<1>1. ASSUME Running' \subseteq Running, UNCHANGED <<futures, held>> PROVE TaskInv'
  BY <1>1 DEF TaskInv, TasksTracked, QueueBounded
<1>2. ASSUME NEW n \in Notifiers, Notify(n) PROVE TaskInv'
  BY <1>1, <1>2 DEF Notify, notifyVars, Running
<1>3. ASSUME NEW n \in Notifiers, Continue(n) PROVE TaskInv'
  <2>1. CASE SanitizeQueue(n)
    <3>1. Running' = Running /\ UNCHANGED held
      BY <2>1 DEF SanitizeQueue, Running
    <3>2. futures' \in Seq(Tasks)
      BY <2>1, <1>0, ItemsOfDropped DEF SanitizeQueue
    <3>3. Len(futures') \in Nat
      BY <3>2, LenProperties
    <3>4. QueueBounded'
      BY <1>0, <2>1, <3>3, SanitizeKeepsRunning DEF TaskInv, QueueBounded
    <3>5. TasksTracked'
      BY <2>1, <3>1, SanitizeKeepsRunning DEF TaskInv, TasksTracked
    <3> QED BY <3>4, <3>5 DEF TaskInv
  <2>2. CASE BeginLoop(n) \/ EndLoop(n) \/ CallSync(n)
    BY <1>1, <2>2 DEF BeginLoop, EndLoop, CallSync, notifyVars, Running
  <2>3. CASE Return(n, "loop") \/ Return(n, "idle")
    BY <1>1, <2>3 DEF Return, Running
  <2>4. CASE StartTask(n)
    <3>1. \E l \in todo[n], k \in Tasks : TaskStarted(n, l, k)
      BY <2>4, StartTaskPicks
    <3>2. PICK l \in todo[n], k \in Tasks : TaskStarted(n, l, k)
      BY <3>1, Zenon
    <3>3. Running' = Running \cup {k}
      BY <1>0, <3>2 DEF Running, TaskStarted
    <3>4. pc[n] = "loop" /\ held[n] \notin Tasks
      BY <2>4 DEF StartTask, TypeInv, Busy
    <3>5. CASE futures' = Append(futures, k) /\ ~IsFullForMove /\ UNCHANGED held
      <4>1. Len(futures') = Len(futures) + 1 /\ Items(futures') = Items(futures) \cup {k}
        BY <1>0, <3>5, ItemsOfAppend
      <4>2. TasksTracked'
        BY <3>3, <3>5, <4>1 DEF TaskInv, TasksTracked
      <4>3. maxSize \in Sizes /\ maxSize \in Nat
        BY <1>0 DEF TypeInv, TypeOK
      <4>4. QueueBounded'
        BY <1>0, <3>5, <4>1, <4>3 DEF IsFullForMove, QueueBounded
      <4> QED BY <4>2, <4>4 DEF TaskInv
    <3>6. CASE UNCHANGED futures /\ held' = [held EXCEPT ![n] = k]
      <4>1. \A m \in Running : m \in Items(futures) \/ \E o \in Notifiers \ {n} : held[o] = m
        BY <3>4 DEF TaskInv, TasksTracked, Running
      <4>2. held'[n] = k /\ \A o \in Notifiers \ {n} : held'[o] = held[o]
        BY <1>0, <3>6
      <4>3. TasksTracked'
        BY <3>3, <3>6, <4>1, <4>2 DEF TasksTracked
      <4> QED BY <3>6, <4>3 DEF TaskInv, QueueBounded
    <3> QED BY <3>2, <3>5, <3>6 DEF TaskStarted
  <2>5. CASE DestroyFuture(n)
    <3>1. Running' = Running /\ UNCHANGED futures /\ held[n] \notin Running
      BY <2>5 DEF DestroyFuture, Running
    <3>2. \A o \in Notifiers \ {n} : held'[o] = held[o]
      BY <1>0, <2>5 DEF DestroyFuture
    <3> QED BY <3>1, <3>2 DEF TaskInv, TasksTracked, QueueBounded
  <2> QED BY <1>3, <2>1, <2>2, <2>3, <2>4, <2>5 DEF Continue
<1>4. ASSUME NEW k \in Tasks, TaskEnds(k) PROVE TaskInv'
  BY <1>0, <1>1, <1>4 DEF TaskEnds, Running
<1>5. ASSUME NEW a \in Admins, Call(a) \/ Step(a) PROVE TaskInv'
  <2>1. UNCHANGED <<futures, task, held>>
    BY <1>5 DEF Call, Step, CleanObservers, CallAttach, SetLinkUserData, CallDetach,
                Attach, Detach, RemoveLinkUserData, ErasePort, notifyVars
  <2> QED BY <1>1, <2>1 DEF Running
<1>6. ASSUME NEW async \in AsyncModes, NEW size \in Sizes, SetAsync(async, size)
      PROVE  TaskInv'
  BY <1>1, <1>6 DEF SetAsync, notifyVars, Running
<1>7. CASE UNCHANGED vars
  BY <1>1, <1>7 DEF vars, notifyVars, Running
<1> QED BY <1>2, <1>3, <1>4, <1>5, <1>6, <1>7 DEF Next

LEMMA TaskInit == Init => TaskInv
<1> SUFFICES ASSUME Init PROVE TaskInv
  OBVIOUS
<1>1. TasksTracked
  BY DEF Init, TasksTracked, Running
<1>2. maxSize \in Sizes /\ maxSize \in Nat /\ Len(futures) = 0
  BY OptionsAssumption, EmptySeq DEF Init
<1> QED BY <1>1, <1>2 DEF TaskInv, QueueBounded

\* A task that runs has its future in the queue or in the hands of a notifier.
THEOREM NoTaskEscapes == Spec => []TasksTracked
<1>1. TaskInv => TasksTracked
  BY DEF TaskInv
<1> QED BY <1>1, TypeInit, TypeStep, TaskInit, TaskStep, PTL DEF Spec

\* Tasks that are all in the queue, or held by different notifiers, are no more
\* than those can hold.
LEMMA RunningCounted == TypeInv /\ TaskInv => RunningBounded
<1> SUFFICES ASSUME TypeInv, TaskInv, 0 \notin Sizes
             PROVE  \E m \in Sizes : Cardinality(Running) <= m + 1 + Cardinality(Notifiers)
  BY DEF RunningBounded
<1>1. futures \in Seq(Tasks) /\ Len(futures) \in Nat
  BY LenProperties DEF TypeInv, TypeOK
<1>2. PICK m \in Sizes : Len(futures) <= m + 1
  BY DEF TaskInv, QueueBounded
<1>3. /\ IsFiniteSet(Elements(futures)) /\ Cardinality(Elements(futures)) \in Nat
      /\ Cardinality(Elements(futures)) <= Len(futures)
  BY <1>1, ElementsBounded
<1> DEFINE Holds == {held[o] : o \in Notifiers}
<1>4. /\ IsFiniteSet(Holds) /\ Cardinality(Holds) <= Cardinality(Notifiers)
      /\ Cardinality(Holds) \in Nat /\ Cardinality(Notifiers) \in Nat
  <2>1. IsFiniteSet(Notifiers)
    BY ThreadsAssumption
  <2>2. held \in [Notifiers -> Holds]
    BY DEF TypeInv, TypeOK
  <2>3. held \in Surjection(Notifiers, Holds)
    BY <2>2 DEF Surjection
  <2> HIDE DEF Holds
  <2> QED BY <2>1, <2>3, FS_Surjection, FS_CardinalityType
<1>5. Running \subseteq Elements(futures) \cup Holds
  BY DEF TaskInv, TasksTracked, Running, Items, Elements
<1> HIDE DEF Holds
<1>6. /\ IsFiniteSet(Elements(futures) \cup Holds)
      /\ Cardinality(Elements(futures) \cup Holds)
           <= Cardinality(Elements(futures)) + Cardinality(Holds)
      /\ Cardinality(Elements(futures) \cup Holds) \in Nat
  <2>1. IsFiniteSet(Elements(futures) \cup Holds)
    BY <1>3, <1>4, FS_Union
  <2>2. Cardinality(Elements(futures) \cup Holds) =
          Cardinality(Elements(futures)) + Cardinality(Holds)
            - Cardinality(Elements(futures) \cap Holds)
    BY <1>3, <1>4, FS_Union
  <2>3. Cardinality(Elements(futures) \cap Holds) \in Nat
    BY <1>3, FS_Subset, FS_CardinalityType
  <2>4. Cardinality(Elements(futures) \cup Holds) \in Nat
    BY <2>1, FS_CardinalityType
  <2> QED BY <1>3, <1>4, <2>1, <2>2, <2>3, <2>4
<1>7. /\ Cardinality(Running) <= Cardinality(Elements(futures) \cup Holds)
      /\ Cardinality(Running) \in Nat
  BY <1>5, <1>6, FS_Subset, FS_CardinalityType
<1>8. m \in Nat
  BY OptionsAssumption
<1>9. Cardinality(Running) <= m + 1 + Cardinality(Notifiers)
  BY <1>1, <1>2, <1>3, <1>4, <1>6, <1>7, <1>8
<1> QED BY <1>9

\* No more tasks run at the same time than the largest size, one, and a task for
\* each notifier.
THEOREM FewTasksRun == Spec => []RunningBounded
BY RunningCounted, TypeInit, TypeStep, TaskInit, TaskStep, PTL DEF Spec
-----------------------------------------------------------------------------
(* User data *)

\* The data that belong to links are there, and no Detach is about to remove
\* them; any other data one is about to remove.
DataInv == UserDataKept /\ given \cap BeingRemoved = {}

Removing(a) == pc[a] \in {"removeData", "removeDataDelete"}

LEMMA RemovedBy == BeingRemoved = UNION {SameId(target[a]) : a \in {b \in Admins : Removing(b)}}
BY DEF BeingRemoved, Removing

LEMMA RemovedByNext ==
  BeingRemoved' = UNION {SameId(target'[a]) : a \in {b \in Admins : Removing(b)'}}
BY DEF BeingRemoved, Removing, SameId

\* A step in which nobody begins or ends to remove data leaves what is being
\* removed as it was.
LEMMA SameRemoved ==
  ASSUME \A a \in Admins : Removing(a)' <=> Removing(a),
         \A a \in Admins : Removing(a) => target'[a] = target[a]
  PROVE  BeingRemoved' = BeingRemoved
BY RemovedBy, RemovedByNext

\* Only the two sections of Detach change what is being removed.
LEMMA RemovedStays ==
  ASSUME TypeInv, [Next]_vars,
         \A a \in Admins : ~Detach(a) /\ ~RemoveLinkUserData(a)
  PROVE  BeingRemoved' = BeingRemoved
<1> USE DEF Removing, Goto, linkVars, settings, notifyVars, counters
<1>0. /\ pc \in [Threads -> {"idle", "sanitize", "lock", "loop", "calling",
                             "destroyFuture", "attach", "detach", "deletePort",
                             "removeData", "removeDataDelete", "erasePort"}]
      /\ target \in [Threads \cup Tasks -> Links \cup {NoLink}]
  BY DEF TypeInv, TypeOK
<1>1. ASSUME NEW n \in Notifiers, Notify(n) \/ Continue(n)
      PROVE  BeingRemoved' = BeingRemoved
  <2>1. \A a \in Admins : pc'[a] = pc[a]
    BY <1>0, <1>1, TaskFacts
       DEF Notify, Continue, SanitizeQueue, BeginLoop, EndLoop, CallSync, Return,
           StartTask, DestroyFuture
  <2>2. \A a \in Admins : target'[a] = target[a]
    <3>1. CASE StartTask(n)
      BY <1>0, <3>1, TaskFacts DEF StartTask
    <3> QED BY <1>0, <1>1, <3>1, TaskFacts
            DEF Notify, Continue, SanitizeQueue, BeginLoop, EndLoop, CallSync, Return,
                DestroyFuture
  <2> QED BY <2>1, <2>2, SameRemoved
<1>2. ASSUME NEW k \in Tasks, TaskEnds(k) PROVE BeingRemoved' = BeingRemoved
  <2>1. \A a \in Admins : target'[a] = target[a]
    BY <1>0, <1>2, TaskFacts DEF TaskEnds
  <2> QED BY <1>2, <2>1, SameRemoved DEF TaskEnds
<1>3. ASSUME NEW a \in Admins, Call(a) PROVE BeingRemoved' = BeingRemoved
  <2>1. /\ \A b \in Admins : Removing(b)' <=> Removing(b)
        /\ \A b \in Admins : Removing(b) => target'[b] = target[b]
    BY <1>0, <1>3, TaskFacts
       DEF Call, CleanObservers, CallAttach, SetLinkUserData, CallDetach, Begin
  <2> QED BY <2>1, SameRemoved
<1>4. ASSUME NEW a \in Admins, Attach(a) \/ ErasePort(a)
      PROVE  BeingRemoved' = BeingRemoved
  <2>1. /\ \A b \in Admins : Removing(b)' <=> Removing(b)
        /\ \A b \in Admins : Removing(b) => target'[b] = target[b]
    BY <1>0, <1>4, TaskFacts DEF Attach, ErasePort, End
  <2> QED BY <2>1, SameRemoved
<1>5. CASE (\E async \in AsyncModes, size \in Sizes : SetAsync(async, size)) \/ UNCHANGED vars
  <2>1. UNCHANGED <<pc, target>>
    BY <1>5 DEF SetAsync, vars
  <2> QED BY <2>1, SameRemoved
<1> QED BY <1>1, <1>2, <1>3, <1>4, <1>5 DEF Next, Step

\* The first section of Detach takes the data from the link, the second removes
\* them, and data given between the two are none of a link.
LEMMA DataStep == TypeInv /\ DataInv /\ [Next]_vars => DataInv'
<1> SUFFICES ASSUME TypeInv, DataInv, [Next]_vars PROVE DataInv'
  OBVIOUS
<1> USE DEF DataInv, UserDataKept
<1>0. /\ pc \in [Threads -> {"idle", "sanitize", "lock", "loop", "calling",
                             "destroyFuture", "attach", "detach", "deletePort",
                             "removeData", "removeDataDelete", "erasePort"}]
      /\ target \in [Threads \cup Tasks -> Links \cup {NoLink}]
  BY DEF TypeInv, TypeOK
<1>1. ASSUME NEW a \in Admins, Detach(a) PROVE DataInv'
  <2>1. /\ UNCHANGED <<userData, target>> /\ given' = given \ SameId(target[a])
        /\ Removing(a)'
        /\ \A b \in Admins \ {a} : Removing(b)' <=> Removing(b)
        /\ ~Removing(a)
    BY <1>0, <1>1, TaskFacts DEF Detach, Goto, Removing
  <2>2. BeingRemoved' = BeingRemoved \cup SameId(target[a])
    BY <2>1, RemovedBy, RemovedByNext
  <2> QED BY <2>1, <2>2
<1>2. ASSUME NEW a \in Admins, RemoveLinkUserData(a) PROVE DataInv'
  <2>1. /\ userData' = userData \ SameId(target[a]) /\ UNCHANGED given
        /\ Removing(a) /\ ~Removing(a)'
        /\ \A b \in Admins \ {a} : (Removing(b)' <=> Removing(b)) /\ target'[b] = target[b]
    BY <1>0, <1>2, TaskFacts DEF RemoveLinkUserData, Goto, End, Removing
  <2>2. SameId(target[a]) \subseteq BeingRemoved
    BY <2>1, RemovedBy
  <2>3. /\ BeingRemoved' \subseteq BeingRemoved
        /\ BeingRemoved \subseteq BeingRemoved' \cup SameId(target[a])
    BY <2>1, RemovedBy, RemovedByNext
  <2> QED BY <2>1, <2>2, <2>3
<1>3. CASE \A a \in Admins : ~Detach(a) /\ ~RemoveLinkUserData(a)
  <2>1. BeingRemoved' = BeingRemoved
    BY <1>3, RemovedStays
  <2>2. ASSUME NEW a \in Admins, NEW l \in Links, SetLinkUserData(a, l) PROVE DataInv'
    <3>1. /\ userData' = userData \cup SameId(l)
          /\ given' = given \cup (SameId(l) \ BeingRemoved)
      BY <2>2 DEF SetLinkUserData
    <3> QED BY <2>1, <3>1
  <2>3. CASE UNCHANGED <<userData, given>>
    BY <2>1, <2>3
  <2>4. ASSUME NEW n \in Notifiers, Notify(n) \/ Continue(n) PROVE UNCHANGED <<userData, given>>
    BY <2>4 DEF Notify, Continue, SanitizeQueue, BeginLoop, EndLoop, CallSync, Return,
                StartTask, DestroyFuture, linkVars, data
  <2>5. ASSUME NEW a \in Admins,
               \/ CleanObservers(a) \/ Attach(a) \/ ErasePort(a)
               \/ \E l \in Links : \/ CallAttach(a, l) \/ CallDetach(a, l, "detach")
                                   \/ CallDetach(a, l, "deletePort")
        PROVE  UNCHANGED <<userData, given>>
    BY <2>5 DEF CleanObservers, CallAttach, CallDetach, Attach, ErasePort, linkVars, data
  <2> QED BY <1>3, <2>2, <2>3, <2>4, <2>5
          DEF Next, Call, Step, TaskEnds, SetAsync, vars, linkVars, data
<1> QED BY <1>1, <1>2, <1>3

\* For any number of threads that change links, and whatever linkIds collide, a
\* Detach takes the data of its link, those given between its two critical
\* sections (PortOutput.cpp:103-111), and no others; none outlive it.
THEOREM DataStaysWithLink == Spec => []UserDataKept
<1>1. Init => DataInv
  BY DEF Init, DataInv, UserDataKept
<1>2. DataInv => UserDataKept
  BY DEF DataInv
<1> QED BY <1>1, <1>2, TypeInit, TypeStep, DataStep, PTL DEF Spec
=============================================================================
